------------------------------ MODULE Numbers ------------------------------
(***************************************************************************)
(* Property values, with the numbers of the code in any format: a range of *)
(* integers, and floats that are some multiples of 1/One, counted in that   *)
(* unit.  For int64 and float64 One is 2^1074 and maxExactInt 2^53; what    *)
(* matters below is that integers beyond maxExactInt are not all floats.    *)
(***************************************************************************)
EXTENDS Integers

CONSTANTS MinInt, MaxInt,      \* the integers
          One,                 \* units in an integer
          Finite, MaxFinite,   \* the finite floats, in units, and the largest
          maxExactInt,         \* up to this magnitude every integer is a float
          Rounded              \* float64(i): the float nearest to each integer

Abs(h) == IF h < 0 THEN -h ELSE h

\* What IEEE 754 says of conversions, whichever way ties go.
ASSUME FormatAssumption ==
    /\ MinInt \in Int /\ MaxInt \in Int
    /\ One \in Nat \ {0} /\ maxExactInt \in Nat \ {0}
    /\ MaxFinite \in Finite /\ \A h \in Finite : h \in -MaxFinite..MaxFinite /\ -h \in Finite
    /\ \A n \in -maxExactInt..maxExactInt : n \in MinInt..MaxInt /\ One * n \in Finite
    /\ \A n \in MinInt..MaxInt : /\ Rounded[n] \in Finite
                                /\ \A h \in Finite : Abs(Rounded[n] - One * n) <= Abs(h - One * n)

Infinite == MaxFinite + 1

IntOf(n) == [kind |-> "int", n |-> n]
FloatOf(h) == [kind |-> "float", n |-> h]
NegZero == [kind |-> "negzero", n |-> 0]
NaN == [kind |-> "nan", n |-> 0]
StringOf(s) == [kind |-> "string", n |-> s]
Null == [kind |-> "null", n |-> 0]

Ints == {IntOf(n) : n \in MinInt..MaxInt}
Floats == {FloatOf(h) : h \in Finite \cup {Infinite, -Infinite}} \cup {NegZero, NaN}

IsFloat(v) == v.kind \in {"float", "negzero", "nan"}
IsNumber(v) == v.kind = "int" \/ IsFloat(v)

\* float64(i).
RoundToFloat(n) == Rounded[n]

\* A number as a float, in units.
AsFloat(v) == IF v.kind = "int" THEN RoundToFloat(v.n) ELSE v.n

\* math.Nextafter.
Above == [h \in Finite \ {MaxFinite} |-> CHOOSE g \in Finite : g > h /\ \A k \in Finite : k > h => g <= k]
NextUp(h) == IF h = MaxFinite THEN Infinite ELSE IF h = -Infinite THEN -MaxFinite ELSE Above[h]
NextDown(h) == -NextUp(-h)

\* The order of index keys: by kind, then by value; -0.0 just before 0.0.
Band(v) == CASE v.kind = "null" -> 0
             [] v.kind = "int" -> 2
             [] IsFloat(v) -> 3
             [] v.kind = "string" -> 4
Rank(v) == CASE v.kind = "float" -> 2 * v.n
             [] v.kind = "negzero" -> -1
             [] v.kind = "nan" -> 2 * Infinite + 1
             [] OTHER -> v.n

\* QueryEqual, the equality of queries.
QueryEqual(a, b) ==
    CASE a.kind = "int" /\ b.kind = "int" -> a.n = b.n
      [] IsNumber(a) /\ IsNumber(b) /\ ~(a.kind = "int" /\ b.kind = "int") ->
             a.kind # "nan" /\ b.kind # "nan" /\ AsFloat(a) = AsFloat(b)
      [] a.kind = "string" /\ b.kind = "string" -> a.n = b.n
      [] OTHER -> FALSE

\* compareOp for < and <=; unknown counts as false in a filter.
Less(a, b, orEqual) ==
    LET x == IF a.kind = "int" /\ b.kind = "int" THEN a.n ELSE IF IsNumber(a) THEN AsFloat(a) ELSE a.n
        y == IF a.kind = "int" /\ b.kind = "int" THEN b.n ELSE IF IsNumber(b) THEN AsFloat(b) ELSE b.n
    IN /\ a.kind # "nan" /\ b.kind # "nan"
       /\ (IsNumber(a) /\ IsNumber(b)) \/ (a.kind = "string" /\ b.kind = "string")
       /\ x < y \/ (orEqual /\ x = y)

\* sameValue: the same stored value, hence the same index key.
sameValue(a, b) == a = b
=============================================================================
