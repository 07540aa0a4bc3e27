------------------------------- MODULE Results -------------------------------
(***************************************************************************)
(* What becomes of the rows of a query (internal/exec): grouping and        *)
(* aggregates (aggregate.go), DISTINCT (project), UNION (union.go) and       *)
(* ORDER BY (sortOp), fed row by row.  A row has two columns, k and v.       *)
(* Numbers are small: their conversions to float64 and their sums are exact, *)
(* and an integer sum overflows beyond MaxSum.                               *)
(***************************************************************************)
EXTENDS Integers, Sequences, FiniteSets, SequencesExt

CONSTANTS Queries,   \* the operators, their settings and the rows they may be fed
          MaxRows, MaxSum

Val(kind, n) == [kind |-> kind, n |-> n]
Null == Val("null", 0)
NaN == Val("nan", 0)

IsList(x) == x.kind \in {"ints", "strings"}
IsNumber(x) == x.kind \in {"int", "float", "nan"}

\* fmt's %v: a number, a string and a list of either may read the same; null and
\* NaN read as no other value here does.
Text(x) == IF x.kind \in {"null", "nan"} THEN <<x.kind>>
           ELSE IF IsList(x) THEN <<"[", x.n>> ELSE <<"", x.n>>

\* "uniquely identifies it": by kind and text, except lists.
canonKey(x) == <<IF IsList(x) THEN "?" ELSE x.kind, x.n>>

\* compareValues: a sign, if the two can be compared; NaN is neither less nor greater.
Comparable(a, b) == (IsNumber(a) /\ IsNumber(b)) \/ (a.kind = "string" /\ b.kind = "string")
cmp(a, b) == IF a.kind = "nan" \/ b.kind = "nan" THEN 0
             ELSE IF a.n < b.n THEN -1 ELSE IF a.n > b.n THEN 1 ELSE 0

VARIABLES query,
          input, arm,     \* rows read, the arm of a UNION being read
          seen,           \* keys of the rows let through
          groups, order,  \* groups by key, keys in order of appearance
          out, status

vars == <<query, input, arm, seen, groups, order, out, status>>

-----------------------------------------------------------------------------
(* Accumulators.                                                            *)

Fresh == [count |-> 0, sum |-> 0, isInt |-> TRUE, isNaN |-> FALSE, best |-> Null, list |-> <<>>, seen |-> {}]

\* Mutant of Skipped: DISTINCT looks at the text and not at the kind.
Skipped_ByText(acc, x) ==
    x = Null \/ (query.distinct /\ \E y \in acc.seen : y[2] = x.n)

\* Null is skipped by every aggregate, what DISTINCT has seen too.
Skipped(acc, x) == x = Null \/ (query.distinct /\ canonKey(x) \in acc.seen)

Better(x, best) ==
    \/ best = Null
    \/ Comparable(x, best) /\ cmp(x, best) = (IF query.agg = "min" THEN -1 ELSE 1)

\* sum and avg take numbers; an integer sum must fit.
Addable(acc, x) ==
    CASE query.agg = "sum" -> IsNumber(x) /\ (acc.isInt /\ x.kind = "int" => acc.sum + x.n \in -MaxSum..MaxSum)
      [] query.agg = "avg" -> IsNumber(x)
      [] OTHER -> TRUE

add(acc, x) ==
    IF query.agg = "star" THEN [acc EXCEPT !.count = @ + 1]
    ELSE IF Skipped(acc, x) THEN acc
    ELSE LET a == IF query.distinct THEN [acc EXCEPT !.seen = @ \cup {canonKey(x)}] ELSE acc
         IN CASE query.agg = "count" -> [a EXCEPT !.count = @ + 1]
              [] query.agg = "sum" -> [a EXCEPT !.sum = @ + x.n, !.isInt = @ /\ x.kind = "int", !.isNaN = @ \/ x = NaN]
              [] query.agg = "avg" -> [a EXCEPT !.sum = @ + x.n, !.count = @ + 1, !.isNaN = @ \/ x = NaN]
              [] query.agg \in {"min", "max"} -> [a EXCEPT !.best = IF Better(x, @) THEN x ELSE @]
              [] query.agg = "collect" -> [a EXCEPT !.list = Append(@, x)]

\* An average is counted in twelfths, exact for up to four rows.
result(acc) ==
    CASE query.agg \in {"count", "star"} -> Val("int", acc.count)
      [] query.agg \in {"sum", "avg"} /\ acc.isNaN -> NaN
      [] query.agg = "sum" /\ ~acc.isNaN -> Val(IF acc.isInt THEN "int" ELSE "float", acc.sum)
      [] query.agg = "avg" /\ ~acc.isNaN -> IF acc.count = 0 THEN Null ELSE Val("twelfths", (12 * acc.sum) \div acc.count)
      [] query.agg \in {"min", "max"} -> acc.best
      [] query.agg = "collect" -> Val("list", acc.list)

-----------------------------------------------------------------------------
\* Without keys there is one group from the start.
Seed == IF query.op = "aggregate" /\ ~query.keyed THEN {<<>>} ELSE {}

Start ==
    /\ input = <<>> /\ arm = 1 /\ seen = {} /\ out = <<>> /\ status = "reading"
    /\ groups = [key \in Seed |-> [keys |-> <<>>, acc |-> Fresh]]
    /\ order = IF Seed = {} THEN <<>> ELSE <<<<>>>>

Init == query \in Queries /\ Start

Keys(r) == IF query.keyed THEN <<r.k>> ELSE <<>>
canonKeyList(xs) == [i \in DOMAIN xs |-> canonKey(xs[i])]

\* aggregateOp.load, one row of it.
Aggregate(r) ==
    LET key == canonKeyList(Keys(r))
        g == IF key \in DOMAIN groups THEN groups[key] ELSE [keys |-> Keys(r), acc |-> Fresh]
        failed == query.agg # "star" /\ ~Skipped(g.acc, r.v) /\ ~Addable(g.acc, r.v)
    IN /\ status' = IF failed THEN "failed" ELSE status
       /\ groups' = IF failed THEN groups
                    ELSE [k \in DOMAIN groups \cup {key} |-> IF k = key THEN [g EXCEPT !.acc = add(g.acc, r.v)] ELSE groups[k]]
       /\ order' = IF key \in DOMAIN groups THEN order ELSE Append(order, key)
       /\ UNCHANGED <<seen, out>>

\* project and unionOp: a row goes on unless one with its key has.
rowKey(r) == <<Text(r.k), Text(r.v)>>
unionKey(r) == canonKeyList(<<r.k, r.v>>)
Pass(r, key, dedup) ==
    /\ out' = IF dedup /\ key \in seen THEN out ELSE Append(out, r)
    /\ seen' = IF dedup THEN seen \cup {key} ELSE seen
    /\ UNCHANGED <<groups, order, status>>

Read ==
    /\ status = "reading" /\ Len(input) < MaxRows
    /\ \E r \in query.rows :
         /\ input' = Append(input, r)
         /\ CASE query.op = "aggregate" -> Aggregate(r)
              [] query.op = "distinct" -> Pass(r, rowKey(r), TRUE)
              [] query.op = "union" -> Pass(r, unionKey(r), query.dedup)
              [] query.op = "sort" -> Pass(r, <<>>, FALSE)
    /\ UNCHANGED <<query, arm>>

\* The next part of a UNION.
NextPart ==
    /\ status = "reading" /\ query.op = "union" /\ arm < 2
    /\ arm' = arm + 1
    /\ UNCHANGED <<query, input, seen, groups, order, out, status>>

\* The first sort key whose values can be compared and differ decides.
Decides(a, b, key) == Comparable(a[key], b[key]) /\ cmp(a[key], b[key]) # 0
less(a, b) ==
    \E i \in DOMAIN query.keys :
        /\ Decides(a, b, query.keys[i]) /\ \A j \in 1..(i - 1) : ~Decides(a, b, query.keys[j])
        /\ cmp(a[query.keys[i]], b[query.keys[i]]) = (IF query.desc[i] THEN 1 ELSE -1)

\* sort.SliceStable on up to 20 rows inserts them one by one: each moves forward
\* past the rows it is less than.
Place(rows, r) == CHOOSE p \in 0..Len(rows) :
    /\ p = 0 \/ ~less(r, rows[p])
    /\ \A q \in (p + 1)..Len(rows) : less(r, rows[q])
Insert(rows, r) == LET p == Place(rows, r) IN SubSeq(rows, 1, p) \o <<r>> \o SubSeq(rows, p + 1, Len(rows))
Sorted(rows) == FoldLeft(Insert, <<>>, rows)

Finish ==
    /\ status = "reading" /\ status' = "done"
    /\ out' = CASE query.op = "aggregate" ->
                       [i \in DOMAIN order |-> [keys |-> groups[order[i]].keys, value |-> result(groups[order[i]].acc)]]
                [] query.op = "sort" -> Sorted(out)
                [] OTHER -> out
    /\ UNCHANGED <<query, input, arm, seen, groups, order>>

Next == Read \/ NextPart \/ Finish

Spec == Init /\ [][Next]_vars

-----------------------------------------------------------------------------
(* Properties.                                                              *)

Values(rows) == [i \in DOMAIN rows |-> rows[i].v]
All(rows) == ToSet([i \in DOMAIN rows |-> rows[i].k]) \cup ToSet(Values(rows))

\* Lists that read the same are one value to canonKey; other values never are.
Confused(xs) == \E x, y \in xs : x # y /\ canonKey(x) = canonKey(y)

\* Values that < puts in an order.
Orderly(xs) == \A x, y \in xs : Comparable(x, y) /\ x # NaN

Firsts(xs) == SelectSeq([i \in DOMAIN xs |-> [at |-> i, x |-> xs[i]]], LAMBDA e : \A j \in 1..(e.at - 1) : xs[j] # e.x)
NotNull(xs) == SelectSeq(xs, LAMBDA x : x # Null)

\* The values an aggregate is about.
Counted(rows) ==
    LET xs == NotNull(Values(rows))
        firsts == Firsts(xs)
    IN IF query.distinct THEN [i \in DOMAIN firsts |-> firsts[i].x] ELSE xs

Total(xs) == FoldLeft(LAMBDA t, x : t + x.n, 0, xs)

\* What an aggregate says of the rows of its group.
Aggregates(a, rows) ==
    LET xs == Counted(rows)
        most(x) == \A y \in ToSet(xs) : IF query.agg = "min" THEN x.n <= y.n ELSE x.n >= y.n
    IN CASE query.agg = "star" -> a = Val("int", Len(rows))
         [] query.agg = "count" -> a = Val("int", Len(xs))
         [] query.agg = "collect" -> a = Val("list", xs)
         [] query.agg = "sum" ->
                IF NaN \in ToSet(xs) THEN a = NaN
                ELSE a = Val(IF \A x \in ToSet(xs) : x.kind = "int" THEN "int" ELSE "float", Total(xs))
         [] query.agg = "avg" ->
                IF NaN \in ToSet(xs) THEN a = NaN
                ELSE IF xs = <<>> THEN a = Null ELSE a.kind = "twelfths" /\ a.n * Len(xs) = 12 * Total(xs)
         [] query.agg \in {"min", "max"} ->
                IF xs = <<>> THEN a = Null ELSE Orderly(ToSet(xs)) => a \in ToSet(xs) /\ most(a)

Group(keys) == SelectSeq(input, LAMBDA r : Keys(r) = keys)
FirstAt(keys) == CHOOSE i \in DOMAIN input : Keys(input[i]) = keys /\ \A j \in 1..(i - 1) : Keys(input[j]) # keys

\* Grouping tells values apart exactly as canonKey promises: each key has one
\* group, in the order of first appearance, its aggregate is about all rows with
\* that key and no others, whatever came between them, nulls and repetitions
\* left out as asked; without keys there is one group, of an empty input too
\* (aggregateOp.load, accumulator).
GroupsExact ==
    status = "done" /\ query.op = "aggregate" /\ ~Confused(All(input)) =>
        /\ \A i \in DOMAIN out : Aggregates(out[i].value, Group(out[i].keys))
        /\ ~query.keyed => Len(out) = 1
        /\ query.keyed =>
             /\ {out[i].keys : i \in DOMAIN out} = {Keys(r) : r \in ToSet(input)}
             /\ \A i, j \in DOMAIN out : i < j => FirstAt(out[i].keys) < FirstAt(out[j].keys)

\* DISTINCT and UNION lose a row only to an earlier one that reads the same or has
\* the same key, and let none through twice (project, rowKey, unionOp).
KeptOnce ==
    /\ \A i \in DOMAIN input : \E j \in 1..i :
         /\ input[j] \in ToSet(out)
         /\ IF query.op = "distinct" THEN rowKey(input[j]) = rowKey(input[i]) ELSE unionKey(input[j]) = unionKey(input[i])
    /\ \A i, j \in DOMAIN out : i # j => out[i] # out[j]

Tied(r, q) == \A i \in DOMAIN query.keys : r[query.keys[i]].n = q[query.keys[i]].n

\* Rows come out as their keys say: DISTINCT and UNION keep one of each, UNION ALL
\* all, and ORDER BY keeps all rows, in the order of the keys when < orders their
\* values, ties in the order they came in (project, unionOp, sortOp).
RowsExact ==
    /\ query.op = "distinct" \/ (query.op = "union" /\ query.dedup) => KeptOnce
    /\ query.op = "union" /\ ~query.dedup => out = input
    /\ query.op = "sort" /\ status = "done" =>
         /\ \A r \in ToSet(input) \cup ToSet(out) :
              Len(SelectSeq(out, LAMBDA q : q = r)) = Len(SelectSeq(input, LAMBDA q : q = r))
         /\ (\A i \in DOMAIN query.keys : Orderly({r[query.keys[i]] : r \in ToSet(input)})) =>
              /\ \A i, j \in DOMAIN out : i < j => ~less(out[j], out[i])
              /\ \A r \in ToSet(out) :
                   SelectSeq(out, LAMBDA q : Tied(r, q)) = SelectSeq(input, LAMBDA q : Tied(r, q))
=============================================================================
