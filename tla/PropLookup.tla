----------------------------- MODULE PropLookup -----------------------------
(***************************************************************************)
(* Looking values up in a property index (graph/values.go, NodesByProperty,*)
(* ScanPropertyRange and the range cursor in graph/traversal.go) and the   *)
(* owner keys of a unique constraint (uniqueValue, claimValue).  A few     *)
(* nodes of one label have a value of one indexed property; a query looks  *)
(* for a value or a range, and `found` is what it gets.                    *)
(***************************************************************************)
EXTENDS Numbers

CONSTANTS Node,
          Stored,         \* values nodes may get
          Asked           \* values and bounds queries may use

\* Whole numbers, floats, text and null.
ASSUME ValuesAssumption ==
    \A v \in Stored \cup Asked :
        \/ v \in Ints \/ v \in Floats \/ v = Null
        \/ v.kind = "string" /\ v.n \in Int /\ v = StringOf(v.n)

Absent == [kind |-> "absent", n |-> 0]

VARIABLES constrained,    \* whether the property is under a unique constraint
          value,          \* per node
          index,          \* entries [band, rank, node] of the `p` index
          owner,          \* owner keys: pairs <<canonical value, node>>
          asked,          \* the last query
          found           \* its answer: nodes in the order of the scan

vars == <<constrained, value, index, owner, asked, found>>

Entry(v, n) == [band |-> Band(v), rank |-> Rank(v), node |-> n, value |-> v]
NoQuery == [op |-> "none"]

Init == /\ constrained \in BOOLEAN
        /\ value = [n \in Node |-> Absent]
        /\ index = {} /\ owner = {}
        /\ asked = NoQuery /\ found = {}

----------------------------------------------------------------------------
(* Writes.                                                                 *)

\* Mutant of uniqueValue: every value is its own canonical form.
uniqueValue_Identity(v) == v

\* An integral float within the integers counts as that integer.
uniqueValue(v) ==
    IF v.kind = "negzero" THEN IntOf(0)
    ELSE IF v.kind = "float" /\ v.n % One = 0 /\ v.n >= One * MinInt /\ v.n < One * (MaxInt + 1)
         THEN IntOf(v.n \div One) ELSE v

\* NaN equals nothing and is never claimed.
Claimable(v, n) == v.kind = "nan" \/ \A o \in owner : o[1] = uniqueValue(v) => o[2] = n
Claimed(v, n) == IF constrained /\ v.kind # "nan" THEN {<<uniqueValue(v), n>>} ELSE {}

\* A node gets a value; the index has an entry for it.
Put(n, v) ==
    /\ value[n] = Absent
    /\ constrained => Claimable(v, n)
    /\ value' = [value EXCEPT ![n] = v]
    /\ index' = index \cup {Entry(v, n)}
    /\ owner' = owner \cup Claimed(v, n)
    /\ asked' = NoQuery /\ found' = {}
    /\ UNCHANGED constrained

----------------------------------------------------------------------------
(* Equality.                                                               *)

\* Mutant of equalityProbes: an integer is looked up among integers only.
equalityProbes_SameKind(v) ==
    CASE v.kind = "nan" -> [exact |-> TRUE, probes |-> {}]
      [] v.kind \in {"float", "negzero"} /\ v.n = 0 -> [exact |-> TRUE, probes |-> {IntOf(0), FloatOf(0), NegZero}]
      [] v.kind = "float" /\ Abs(v.n) = Infinite -> [exact |-> TRUE, probes |-> {v}]
      [] v.kind = "float" /\ Abs(v.n) >= One * maxExactInt -> [exact |-> FALSE, probes |-> {}]
      [] v.kind = "float" /\ v.n % One = 0 -> [exact |-> TRUE, probes |-> {v, IntOf(v.n \div One)}]
      [] OTHER -> [exact |-> TRUE, probes |-> {v}]

\* The stored values whose keys a lookup of v must visit, if they are few.
equalityProbes(v) ==
    CASE v.kind = "int" -> [exact |-> TRUE,
             probes |-> {v, FloatOf(RoundToFloat(v.n))} \cup (IF v.n = 0 THEN {NegZero} ELSE {})]
      [] v.kind = "nan" -> [exact |-> TRUE, probes |-> {}]
      [] v.kind \in {"float", "negzero"} /\ v.n = 0 -> [exact |-> TRUE, probes |-> {IntOf(0), FloatOf(0), NegZero}]
      [] v.kind = "float" /\ Abs(v.n) = Infinite -> [exact |-> TRUE, probes |-> {v}]
      [] v.kind = "float" /\ v.n # 0 /\ Abs(v.n) >= One * maxExactInt /\ Abs(v.n) # Infinite ->
             [exact |-> FALSE, probes |-> {}]
      [] v.kind = "float" /\ v.n # 0 /\ Abs(v.n) < One * maxExactInt /\ v.n % One = 0 ->
             [exact |-> TRUE, probes |-> {v, IntOf(v.n \div One)}]
      [] OTHER -> [exact |-> TRUE, probes |-> {v}]

\* propertyScanIDs drops null before NodesByProperty looks the value up.
NodesByProperty(v) ==
    LET p == equalityProbes(v)
    IN CASE v = Null -> {}
         [] v # Null /\ p.exact -> {e.node : e \in {e \in index : \E q \in p.probes : sameValue(e.value, q)}}
         [] v # Null /\ ~p.exact -> {n \in Node : value[n] # Absent /\ QueryEqual(value[n], v)}

Seek(v) ==
    /\ asked = NoQuery
    /\ asked' = [op |-> "equal", v |-> v]
    /\ found' = NodesByProperty(v)
    /\ UNCHANGED <<constrained, value, index, owner>>

----------------------------------------------------------------------------
(* Ranges.  A bound is a record [has, v, incl].                            *)

NoBound == [has |-> FALSE, v |-> Null, incl |-> FALSE]
Bound(v, incl) == [has |-> TRUE, v |-> v, incl |-> incl]

Ceil(h) == -((-h) \div One)
Floor(h) == h \div One

\* The integers of a range; [ok |-> FALSE] leaves the side open.
Open == [ok |-> FALSE, n |-> 0]
Exactly(n) == [ok |-> TRUE, n |-> n]

intLowerBound(b) ==
    CASE b.v.kind = "int" /\ b.incl -> Exactly(b.v.n)
      [] b.v.kind = "int" /\ ~b.incl -> IF b.v.n = MaxInt THEN Open ELSE Exactly(b.v.n + 1)
      [] OTHER -> IF Abs(b.v.n) >= One * maxExactInt THEN Open
                  ELSE Exactly(IF b.incl THEN Ceil(b.v.n) ELSE Floor(b.v.n) + 1)

intUpperBound(b) ==
    CASE b.v.kind = "int" /\ b.incl -> Exactly(b.v.n)
      [] b.v.kind = "int" /\ ~b.incl -> IF b.v.n = MinInt THEN Open ELSE Exactly(b.v.n - 1)
      [] OTHER -> IF Abs(b.v.n) >= One * maxExactInt THEN Open
                  ELSE Exactly(IF b.incl THEN Floor(b.v.n) ELSE Ceil(b.v.n) - 1)

\* An integer bound from maxExactInt on may round: its float is not exact.
FloatExact(v) == v.kind = "int" => Abs(v.n) < maxExactInt

\* math.Nextafter comes to zero from below as -0.0.
After(h) == IF NextUp(h) = 0 THEN NegZero ELSE FloatOf(NextUp(h))

\* Where the float band starts: a rank.
floatStart(b) ==
    LET l == AsFloat(b.v)
    IN CASE ~FloatExact(b.v) -> Rank(FloatOf(NextDown(l)))
         [] FloatExact(b.v) /\ ~b.incl -> Rank(IF l = Infinite THEN FloatOf(l) ELSE After(l))
         [] OTHER -> Rank(IF l = 0 THEN NegZero ELSE FloatOf(l))

\* Whether a float value is past the upper bound.
floatStop(b, v) ==
    LET u == AsFloat(b.v)
        w == IF FloatExact(b.v) THEN u ELSE NextUp(u)
    IN /\ u # Infinite /\ v.kind # "nan"
       /\ IF b.incl \/ ~FloatExact(b.v) THEN v.n > w ELSE v.n >= w

\* rangeBands: the bands to scan with their start, and when to stop in each.
valueKind(v) == CASE v.kind \in {"null", "nan"} -> "" [] v.kind = "string" -> "string" [] OTHER -> "number"

start(band, lo, rank) ==
    CASE ~lo.has -> TRUE
      [] lo.has /\ band = 2 -> intLowerBound(lo).ok => rank >= intLowerBound(lo).n
      [] lo.has /\ band = 3 -> AsFloat(lo.v) # -Infinite => rank >= floatStart(lo)
      [] lo.has /\ band = 4 -> rank >= lo.v.n

stop(band, hi, v) ==
    CASE ~hi.has -> FALSE
      [] hi.has /\ band = 2 -> intUpperBound(hi).ok /\ v.n > intUpperBound(hi).n
      [] hi.has /\ band = 3 -> floatStop(hi, v)
      [] hi.has /\ band = 4 -> v.n > hi.v.n

\* The entries of a band from the start to the first that says stop.
Segment(band, lo, hi) ==
    LET seen == {e \in index : e.band = band /\ start(band, lo, e.rank)}
        before(e, f) == e.rank < f.rank \/ (e.rank = f.rank /\ e.node < f.node)
    IN {e \in seen : ~stop(band, hi, e.value) /\ \A f \in seen : before(f, e) => ~stop(band, hi, f.value)}

ScanPropertyRange(lo, hi) ==
    LET kinds == {valueKind(b.v) : b \in {c \in {lo, hi} : c.has}}
        bands == IF kinds = {"string"} THEN {4} ELSE IF kinds = {"number"} THEN {2, 3} ELSE {}
    IN {e.node : e \in UNION {Segment(b, lo, hi) : b \in bands}}

\* The predicate that stays in the plan as a filter.
Accepts(lo, hi, v) ==
    /\ v # Absent
    /\ lo.has => Less(lo.v, v, lo.incl)
    /\ hi.has => Less(v, hi.v, hi.incl)

Range(lo, hi) ==
    /\ asked = NoQuery
    /\ lo.has \/ hi.has
    /\ asked' = [op |-> "range", lo |-> lo, hi |-> hi]
    /\ found' = ScanPropertyRange(lo, hi)
    /\ UNCHANGED <<constrained, value, index, owner>>

----------------------------------------------------------------------------
Bounds == {NoBound} \cup {Bound(v, incl) : v \in Asked, incl \in BOOLEAN}

Next ==
    \/ \E n \in Node, v \in Stored : Put(n, v)
    \/ \E v \in Asked : Seek(v)
    \/ \E lo, hi \in Bounds : Range(lo, hi)

Spec == Init /\ [][Next]_vars

----------------------------------------------------------------------------
TypeOK ==
    /\ value \in [Node -> Stored \cup {Absent}]
    /\ index = {Entry(value[n], n) : n \in {m \in Node : value[m] # Absent}}
    /\ found \subseteq Node

\* The comment on QueryEqual: an index lookup returns exactly the nodes the
\* equality of queries accepts, integers, floats, zeros and NaN included.
SeekExact ==
    asked.op = "equal" => found = {n \in Node : value[n] # Absent /\ QueryEqual(value[n], asked.v)}

\* The comment on ScanPropertyRange: no value that the comparison accepts is
\* skipped, neither before the start nor behind the stop of a band.
RangeCovers ==
    asked.op = "range" => {n \in Node : Accepts(asked.lo, asked.hi, value[n])} \subseteq found

\* README: values that are equal in a query (`1` and `1.0`) count as equal
\* under a unique constraint.  It holds where integers are floats.
EqualApart == \A n, m \in Node :
    n # m /\ value[n] # Absent /\ value[m] # Absent => ~QueryEqual(value[n], value[m])
IsExact(v) == IsNumber(v) /\ v.kind # "nan" => Abs(AsFloat(v)) < One * maxExactInt
UniqueByEquality == constrained /\ (\A n \in Node : IsExact(value[n])) => EqualApart

\* A lookup through the index, by equality or by range, finds the nodes that
\* comparing each stored value would find; the entries are those of the stored
\* values (NodesByProperty, ScanPropertyRange, QueryEqual, compareValues).
LookupsExact == TypeOK /\ SeekExact /\ RangeCovers
=============================================================================
