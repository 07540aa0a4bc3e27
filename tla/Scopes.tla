------------------------------- MODULE Scopes -------------------------------
(***************************************************************************)
(* The names of a query as its three passes see them, clause by clause:    *)
(* the scope the analyzer checks reads against (query/sema), the names the *)
(* planner has bound (query/plan), and the names that every row of the     *)
(* executor holds (internal/exec).  The passes run one after the other over *)
(* the whole query; each is a fold over its clauses, so one step here takes *)
(* one clause through all three, and a query counts as accepted only when   *)
(* its last clause has been.  Scopes and columns are sets: the order in     *)
(* which columns are shown is left out.                                     *)
(***************************************************************************)
EXTENDS Naturals, Sequences, FiniteSets, TLC

CONSTANTS Matches, Creates, Merges, Updates, Unwinds, Projections,  \* the clauses
          MaxClauses, MaxArms

VARIABLES sc,        \* names in the analyzer's scope
          columns,   \* columns of the arm
          bound,     \* names the planner has bound
          synth,     \* names it has made up
          row,       \* names every row holds
          misread,   \* places where a row was asked for a name it does not hold
          captured,  \* made-up names that something else had
          last,      \* the clause before
          clauses, arm, first,  \* clauses of the query, the arm's number, the columns of the first
          verdict

scopesVars == <<sc, columns, bound, synth, row, misread, captured, last, clauses, arm, first, verdict>>

-----------------------------------------------------------------------------
(* Expressions and patterns.  An expression reads names; one with a list    *)
(* comprehension or a quantifier reads others inside it, its local variable *)
(* among them.  A predicate equates a property of a name with a value.      *)
(* The elements of a pattern part are node, relationship, node, ...; Anon   *)
(* is the variable of an element the query does not name.                   *)

Anon == ""
Some(name) == {name} \ {Anon}

\* checkExpr, and eval of the same expression.
Sees(names, e) == e.reads \subseteq names /\ e.inner \subseteq names \cup Some(e.local)

exprVars(e) == e.reads \cup (e.inner \ Some(e.local))

Holds(names, p) == Some(p.of) \subseteq names /\ Sees(names, p.value)

Expr == [reads : SUBSET STRING, local : STRING, inner : SUBSET STRING]
Predicate == [of : STRING, value : Expr]
Element == [var : STRING, props : SUBSET Expr]
Part == [shortest : BOOLEAN, path : STRING, elems : Seq(Element)]
Item == [expr : Expr, bare : BOOLEAN, text : STRING, alias : STRING]

\* The clauses the parser can produce.
ASSUME WellFormed ==
    /\ Matches \subseteq [parts : Seq(Part), where : SUBSET Predicate, optional : BOOLEAN]
    /\ Creates \subseteq [parts : Seq(Part)]
    /\ Merges \subseteq [parts : Seq(Part), sets : SUBSET Expr]
    /\ Updates \subseteq Expr
    /\ Unwinds \subseteq [expr : Expr, alias : STRING]
    /\ Projections \subseteq [star : BOOLEAN, items : SUBSET Item, sort : SUBSET [expr : Expr, text : STRING],
                              count : SUBSET Expr, where : SUBSET Expr]

IsRel(j) == j % 2 = 0
Anonymous(m, i, j) == ~m.parts[i].shortest /\ m.parts[i].elems[j].var = Anon
Places(m) == UNION {{i} \X DOMAIN m.parts[i].elems : i \in DOMAIN m.parts}

\* Names made up before the element: newName counts them through the arm.
Before(m, i, j) == {q \in Places(m) : Anonymous(m, q[1], q[2]) /\ (q[1] < i \/ (q[1] = i /\ q[2] < j))}

\* Mutant of newName: every clause counts anew.
newName_PerClause(m, i, j) == (IF IsRel(j) THEN "_r" ELSE "_n") \o ToString(Cardinality(Before(m, i, j)))

newName(m, i, j) == (IF IsRel(j) THEN "_r" ELSE "_n") \o ToString(synth + Cardinality(Before(m, i, j)))

\* makeNode, makeRel
NameOf(m, i, j) == IF Anonymous(m, i, j) THEN newName(m, i, j) ELSE m.parts[i].elems[j].var
AnonPlaces(m) == {q \in Places(m) : Anonymous(m, q[1], q[2])}
MadeUp(m) == {NameOf(m, q[1], q[2]) : q \in AnonPlaces(m)}

\* introducePattern and bindPatternVars: what a pattern names, the path first.
PatternVars(m) ==
    (UNION {Some(m.parts[i].path) : i \in DOMAIN m.parts})
        \cup (UNION {Some(m.parts[q[1]].elems[q[2]].var) : q \in Places(m)})

\* A path is named only on shortestPath: naming another one is documented as not
\* supported, and nothing would bind it.
Supported(m) == \A i \in DOMAIN m.parts : m.parts[i].path # Anon => m.parts[i].shortest

InlineOf(m, i) == UNION {m.parts[i].elems[j].props : j \in DOMAIN m.parts[i].elems}
Inline(m) == UNION {InlineOf(m, i) : i \in DOMAIN m.parts}

-----------------------------------------------------------------------------
ScopesInit ==
    /\ sc = {} /\ columns = {} /\ bound = {} /\ synth = 0 /\ row = {}
    /\ misread = {} /\ captured = {}
    /\ last = "none" /\ clauses = 0 /\ arm = 1 /\ first = {}
    /\ verdict = "open"

\* RETURN must be the last clause.
Open == verdict = "open" /\ clauses < MaxClauses /\ last # "return"

Took(kind) == /\ last' = kind /\ clauses' = clauses + 1
              /\ UNCHANGED <<arm, first, verdict>>

\* The analyzer or the planner refuses the query.
Refuse(why) == /\ verdict' = why
               /\ UNCHANGED <<sc, columns, bound, synth, row, misread, captured, last, clauses, arm, first>>

Missed(place, ok) == IF ok THEN {} ELSE {place}

-----------------------------------------------------------------------------
(* MATCH and OPTIONAL MATCH.                                                *)

\* checkShortest: one relationship between two named ends, without predicates.
ShortestForm(p) ==
    p.shortest => /\ Len(p.elems) = 3
                  /\ p.elems[1].var # Anon /\ p.elems[3].var # Anon
                  /\ \A j \in 1..3 : p.elems[j].props = {}

SemaMatch(m) ==
    /\ \A i \in DOMAIN m.parts : ShortestForm(m.parts[i])
    /\ \A e \in Inline(m) : Sees(sc \cup PatternVars(m), e)
    /\ \A p \in m.where : Holds(sc \cup PatternVars(m), p)

\* planShortest binds the path and its relationships, emitExpand and the anchor
\* all the elements of a part.
PartBinds(m, i) ==
    IF m.parts[i].shortest THEN Some(m.parts[i].path) \cup Some(m.parts[i].elems[2].var)
    ELSE {NameOf(m, i, j) : j \in DOMAIN m.parts[i].elems}
AllBinds(m) == UNION {PartBinds(m, i) : i \in DOMAIN m.parts}

\* shortestLast: the parts planned before part i.
Earlier(m, i) ==
    {k \in DOMAIN m.parts : \/ m.parts[k].shortest = m.parts[i].shortest /\ k < i
                            \/ ~m.parts[k].shortest /\ m.parts[i].shortest}
Known(names, m, i) == names \cup (UNION {PartBinds(m, k) : k \in Earlier(m, i)})

Endpoints(p) == {p.elems[1].var, p.elems[3].var}
ShortestVars(m) == UNION {PartBinds(m, i) : i \in {i \in DOMAIN m.parts : m.parts[i].shortest}}

\* What the filter after the pattern reads: predicates and inline properties.
Residual(m) ==
    (UNION {exprVars(e) : e \in Inline(m)})
        \cup (UNION {Some(p.of) \cup exprVars(p.value) : p \in m.where})

\* planShortest, checkShortestFilters
Plannable(m) ==
    /\ \A i \in DOMAIN m.parts : m.parts[i].shortest => Endpoints(m.parts[i]) \subseteq Known(bound, m, i)
    /\ Residual(m) \cap ShortestVars(m) = {}

\* A part without a bound node may start from an index, by a value that reads
\* only bound names (relAnchor, scoreNode, rangeScan).  Which indexes there are
\* is not known here: any value that could be sought by may be read early.
Unanchored(m, i) ==
    ~m.parts[i].shortest /\ \A j \in DOMAIN m.parts[i].elems : IsRel(j) \/ NameOf(m, i, j) \notin Known(bound, m, i)
Values(m, i) == InlineOf(m, i) \cup {p.value : p \in {p \in m.where : \E j \in DOMAIN m.parts[i].elems : NameOf(m, i, j) = p.of}}

\* Mutant of seekable: a name of the same part is taken for a bound one.
seekable_SamePart(m, i, e) == exprVars(e) \subseteq Known(bound, m, i) \cup PartBinds(m, i)

seekable(m, i, e) == exprVars(e) \subseteq Known(bound, m, i)

Seeks(m) ==
    UNION {{i} \X {e \in Values(m, i) : seekable(m, i, e)} : i \in {i \in DOMAIN m.parts : Unanchored(m, i)}}

\* planOptionalMatch: the names the clause has bound first.
NewVars(m) == (bound \cup AllBinds(m)) \ bound

\* The rows of an optional match are those of its pattern, or the row before
\* with NewVars null (outerApplyOp).
RowsAfter(m) ==
    IF m.optional THEN (row \cup AllBinds(m)) \cap (row \cup NewVars(m)) ELSE row \cup AllBinds(m)

PlanMatch(m) ==
    /\ sc' = sc \cup PatternVars(m)
    /\ bound' = bound \cup AllBinds(m)
    /\ synth' = synth + Cardinality(AnonPlaces(m))
    /\ row' = RowsAfter(m)
    /\ misread' = misread
           \cup (UNION {Missed("seek", Sees(Known(row, m, s[1]), s[2])) : s \in Seeks(m)})
           \cup Missed("filter", /\ \A e \in Inline(m) : Sees(row \cup AllBinds(m), e)
                                 /\ \A p \in m.where : Holds(row \cup AllBinds(m), p))
    /\ captured' = captured \cup (MadeUp(m) \cap (bound \cup PatternVars(m)))
           \cup (IF Cardinality(MadeUp(m)) = Cardinality(AnonPlaces(m)) THEN {} ELSE MadeUp(m))
    /\ columns' = columns
    /\ Took("match")

Match ==
    /\ Open
    /\ \E m \in {m \in Matches : Supported(m)} :
         \/ ~SemaMatch(m) /\ Refuse("rejected")
         \/ SemaMatch(m) /\ ~Plannable(m) /\ Refuse("unplanned")
         \/ SemaMatch(m) /\ Plannable(m) /\ PlanMatch(m)

-----------------------------------------------------------------------------
(* CREATE, MERGE, SET / REMOVE / DELETE, UNWIND.                            *)

\* shortestPath is only for MATCH.
SemaPattern(m) == /\ \A i \in DOMAIN m.parts : ~m.parts[i].shortest
                  /\ \A e \in Inline(m) : Sees(sc \cup PatternVars(m), e)

\* createPart makes the start, then each node before the relationship to it.
Rank(j) == IF IsRel(j) THEN j + 1 ELSE IF j = 1 THEN 0 ELSE j - 1
CreatedBefore(m, i, j) ==
    {m.parts[q[1]].elems[q[2]].var : q \in {q \in Places(m) : q[1] < i \/ (q[1] = i /\ Rank(q[2]) < Rank(j))}} \ {Anon}

\* createOrReuseNode does not look at the properties of a node that is there.
Reused(m, i, j) == ~IsRel(j) /\ m.parts[i].elems[j].var \in row \cup CreatedBefore(m, i, j)
CreateReads(m) ==
    \A q \in Places(m) : ~Reused(m, q[1], q[2]) =>
        \A e \in m.parts[q[1]].elems[q[2]].props : Sees(row \cup CreatedBefore(m, q[1], q[2]), e)

Create ==
    /\ Open
    /\ \E m \in {m \in Creates : Supported(m)} :
         \/ ~SemaPattern(m) /\ Refuse("rejected")
         \/ /\ SemaPattern(m)
            /\ sc' = sc \cup PatternVars(m) /\ bound' = bound \cup PatternVars(m)
            /\ row' = row \cup PatternVars(m)
            /\ misread' = misread \cup Missed("created", CreateReads(m))
            /\ UNCHANGED <<columns, synth, captured>>
            /\ Took("write")

\* MERGE reads the properties of its pattern from the row before it
\* (rejectNullMergeProps) and those of ON CREATE / ON MATCH after it; the start
\* of a relationship must be bound (mergeRel).
MergeRuns(m) == Len(m.parts[1].elems) = 1 \/ m.parts[1].elems[1].var \in row

Merge ==
    /\ Open
    /\ \E m \in {m \in Merges : Supported(m)} :
         \/ ~(SemaPattern(m) /\ \A e \in m.sets : Sees(sc \cup PatternVars(m), e)) /\ Refuse("rejected")
         \/ /\ SemaPattern(m) /\ \A e \in m.sets : Sees(sc \cup PatternVars(m), e)
            /\ sc' = sc \cup PatternVars(m) /\ bound' = bound \cup PatternVars(m)
            /\ row' = row \cup PatternVars(m)
            /\ misread' = misread \cup Missed("created", MergeRuns(m) /\ \A e \in Inline(m) : Sees(row, e))
                                  \cup Missed("set", \A e \in m.sets : Sees(row \cup PatternVars(m), e))
            /\ UNCHANGED <<columns, synth, captured>>
            /\ Took("write")

\* SET, REMOVE and DELETE read names of the row and leave its names alone.
Update ==
    /\ Open
    /\ \E e \in Updates :
         \/ ~Sees(sc, e) /\ Refuse("rejected")
         \/ /\ Sees(sc, e)
            /\ misread' = misread \cup Missed("set", Sees(row, e))
            /\ UNCHANGED <<sc, columns, bound, synth, row, captured>>
            /\ Took("write")

Unwind ==
    /\ Open
    /\ \E u \in Unwinds :
         \/ ~Sees(sc, u.expr) /\ Refuse("rejected")
         \/ /\ Sees(sc, u.expr)
            /\ sc' = sc \cup {u.alias} /\ bound' = bound \cup {u.alias} /\ row' = row \cup {u.alias}
            /\ misread' = misread \cup Missed("unwind", Sees(row, u.expr))
            /\ UNCHANGED <<columns, synth, captured>>
            /\ Took("unwind")

-----------------------------------------------------------------------------
(* WITH and RETURN.  An item has an expression, its text, and an alias or   *)
(* none; a sort key has an expression and its text.                         *)

Column(item) == IF item.alias # Anon THEN item.alias ELSE item.text
Columns(p) == {Column(item) : item \in p.items}

\* The items, then what ORDER BY, SKIP, LIMIT and WHERE may read.
SemaProjection(p, tail) ==
    /\ \A item \in p.items : Sees(sc, item.expr)
    /\ \A k \in p.sort : Sees(tail, k.expr)
    /\ \A e \in p.count : Sees(tail, e)

SemaWith(p) ==
    /\ \A item \in p.items : item.alias # Anon \/ item.bare
    /\ SemaProjection(p, (IF p.star THEN sc ELSE {}) \cup Columns(p))
    /\ \A e \in p.where : Sees((IF p.star THEN sc ELSE {}) \cup Columns(p), e)

\* "ORDER BY in RETURN may reference both the in-scope variables and the
\* projected aliases."
SemaReturn(p) == /\ SemaProjection(p, sc \cup Columns(p))
                 /\ ~(p.star /\ sc = {} /\ p.items = {})

\* expandItems: * stands for every name the planner has bound.
Projected(p) == (IF p.star THEN bound ELSE {}) \cup Columns(p)

\* sortValue: a column of that text, or else the expression on the projected row.
SortReads(p) == \A k \in p.sort : k.text \in Projected(p) \/ Sees(Projected(p), k.expr)

\* project, then the Filter of a WITH, then Sort; Skip and Limit have no row.
Project(p, kind) ==
    /\ bound' = Projected(p) /\ row' = Projected(p)
    /\ misread' = misread
           \cup Missed("item", (p.star => bound \subseteq row) /\ \A item \in p.items : Sees(row, item.expr))
           \cup Missed("where", \A e \in p.where : Sees(Projected(p), e))
           \cup Missed(IF kind = "return" THEN "sorted" ELSE "with", SortReads(p))
           \cup Missed("count", \A e \in p.count : Sees({}, e))
    /\ UNCHANGED <<synth, captured>>
    /\ Took(kind)

With ==
    /\ Open
    /\ \E p \in Projections :
         \/ ~SemaWith(p) /\ Refuse("rejected")
         \/ /\ SemaWith(p)
            /\ sc' = (IF p.star THEN sc ELSE {}) \cup Columns(p)
            /\ columns' = columns
            /\ Project(p, "with")

Return ==
    /\ Open
    /\ \E p \in {q \in Projections : q.where = {}} :
         \/ ~SemaReturn(p) /\ Refuse("rejected")
         \/ /\ SemaReturn(p)
            /\ columns' = (IF p.star THEN sc ELSE {}) \cup Columns(p)
            /\ sc' = sc
            /\ Project(p, "return")

-----------------------------------------------------------------------------
(* The end of an arm: endsQuery, sameColumns, and a new analyzer and planner *)
(* for the next arm of a UNION.                                              *)

Ends == verdict = "open" /\ last \in {"return", "write"}
SameColumns == arm > 1 => columns = first

Accept ==
    /\ Ends
    /\ verdict' = IF SameColumns THEN "accepted" ELSE "rejected"
    /\ UNCHANGED <<sc, columns, bound, synth, row, misread, captured, last, clauses, arm, first>>

NextArm ==
    /\ Ends /\ arm < MaxArms
    /\ \/ ~SameColumns /\ Refuse("rejected")
       \/ /\ SameColumns
          /\ arm' = arm + 1 /\ first' = columns
          /\ sc' = {} /\ columns' = {} /\ bound' = {} /\ synth' = 0 /\ row' = {}
          /\ last' = "none"
          /\ UNCHANGED <<misread, captured, clauses, verdict>>

ScopesNext == Match \/ Create \/ Merge \/ Update \/ Unwind \/ With \/ Return \/ Accept \/ NextArm

ScopesSpec == ScopesInit /\ [][ScopesNext]_scopesVars

-----------------------------------------------------------------------------
(* Properties.                                                              *)

\* Places where the analyzer lets a query read a name that rows do not hold:
\* sort keys of RETURN, SKIP and LIMIT, properties in CREATE and MERGE that read
\* what the same pattern introduces.
Lenient == {"sorted", "count", "created"}

\* What the analyzer accepts, rows can answer: filters, index seeks, items, WITH's
\* WHERE and ORDER BY, SET and UNWIND read only names that every row holds, with
\* the nulls of OPTIONAL MATCH, whatever the planner starts from (checkExpr, bind,
\* NewVars, binding).
ReadsBound == misread \subseteq Lenient

\* Every column the analyzer announces is in every row of the result, and the
\* planner's columns, by which UNION tells rows apart, are those and names it made
\* up (columns, planArm, Run).
ColumnsFilled == last = "return" => columns \subseteq row /\ columns \subseteq bound

\* What the analyzer accepts, rows can answer, from the first read to the last
\* column (checkExpr, bind, NewVars, planArm).
Answered == ReadsBound /\ ColumnsFilled

\* A name the planner makes up for an anonymous element is no one else's: two
\* elements are joined only when the query says so (newName, makeNode, makeRel).
AnonymousApart == captured = {}

\* "ORDER BY in RETURN may reference both the in-scope variables and the projected
\* aliases": what the analyzer accepts as a sort key, the sort can evaluate
\* (ret, sortValue).
SortKeysBound == "sorted" \notin misread
=============================================================================
