------------------------------ MODULE Pipeline ------------------------------
(***************************************************************************)
(* One statement through the operators of internal/exec, pulled row by row *)
(* inside its transaction:                                                 *)
(*    MATCH (a) or (a:L)                                       source      *)
(*    [OPTIONAL] MATCH (b:L) WHERE b.v = a.v, or (a)-[r]->(b)  match       *)
(*    [WITH a, b ORDER BY ...]                                 barrier     *)
(*    SET / REMOVE / CREATE / MERGE / DELETE                   write       *)
(*    [SKIP m] [LIMIT n]                                       skip, limit *)
(* The row a write is given was read while earlier rows were being written. *)
(* Every statement is run twice on the same graph, with two settings (index *)
(* or not, row cap or not), so that the outcomes can be compared.          *)
(***************************************************************************)
EXTENDS Integers, Sequences, FiniteSets

\* What is run: [graphs, statements, settings], the graphs a statement may find
\* and the settings [indexed, cap] of its runs, in their order.
CONSTANT Cases

\* A graph: the record of every node, the edges (one type), the next node id.
\* A record says whether it has the label, l, and has the property v, 0 when
\* there is none.
GraphOK(g) ==
    /\ g.next \in Nat \ {0}
    /\ g.rec \in [DOMAIN g.rec -> [l : 0..1, v : Nat]] /\ DOMAIN g.rec \subseteq 1..(g.next - 1)
    /\ g.edge \subseteq (DOMAIN g.rec) \X (DOMAIN g.rec)
    /\ g = [rec |-> g.rec, edge |-> g.edge, next |-> g.next]

\* Clauses: SKIP and LIMIT have a number (no LIMIT is a large one).
Writers == {"none", "setA", "markA", "setB", "dropA", "create", "merge", "deleteB", "detachA", "detachB"}
StatementOK(s) ==
    /\ s.source \in {"all", "label"} /\ s.match \in {"none", "join", "expand"} /\ s.write \in Writers
    /\ s.optional \in BOOLEAN /\ s.barrier \in BOOLEAN
    /\ s.skip \in Nat /\ s.limit \in Nat

Setting == [indexed : BOOLEAN, cap : Nat]

ASSUME CasesAssumption ==
    \A c \in Cases : /\ \A g \in c.graphs : GraphOK(g)
                     /\ \A s \in c.statements : StatementOK(s)
                     /\ \A p \in c.settings : p \in Seq(Setting) /\ p # <<>>

\* A binding is a record with the node's id; Null is a variable without node.
Rec(l, v) == [l |-> l, v |-> v]
Null == [id |-> 0, l |-> 0, v |-> 0]
Bind(g, n) == [id |-> n, l |-> g.rec[n].l, v |-> g.rec[n].v]
Exists(g, n) == n \in DOMAIN g.rec

\* The elements of s that are in S, in their order.
Those(s, S) ==
    LET upTo[i \in 0..Len(s)] ==
          IF i = 0 THEN <<>> ELSE IF s[i] \in S THEN Append(upTo[i - 1], s[i]) ELSE upTo[i - 1]
    IN upTo[Len(s)]

\* The nodes of S in the order of their keys.
Ids(g, S) == Those([n \in 1..(g.next - 1) |-> n], S)
AllNodes(g) == Ids(g, DOMAIN g.rec)
NodesByLabel(g) == Ids(g, {n \in DOMAIN g.rec : g.rec[n].l = 1})
OutNodes(g, n) == Ids(g, {m \in DOMAIN g.rec : <<n, m>> \in g.edge})
Binds(g, ids) == [i \in DOMAIN ids |-> Bind(g, ids[i])]

\* Mutant of NodesByProperty: the index is asked without the label.
NodesByProperty_AnyLabel(g, v) == Ids(g, {n \in DOMAIN g.rec : v # 0 /\ g.rec[n].v = v})

NodesByProperty(g, v) ==
    Ids(g, {n \in DOMAIN g.rec : g.rec[n].l = 1 /\ v # 0 /\ g.rec[n].v = v})

CreateNode(g, v) ==
    [rec |-> [n \in DOMAIN g.rec \cup {g.next} |-> IF n = g.next THEN Rec(1, v) ELSE g.rec[n]],
     edge |-> g.edge, next |-> g.next + 1]
WithRecord(g, n, rec) == [g EXCEPT !.rec = [g.rec EXCEPT ![n] = rec]]
SetProperty(g, n, v) == WithRecord(g, n, Rec(g.rec[n].l, v))
RemoveLabels(g, n) == WithRecord(g, n, Rec(0, g.rec[n].v))

DetachDeleteNode(g, n) ==
    [rec |-> [m \in DOMAIN g.rec \ {n} |-> g.rec[m]],
     edge |-> {e \in g.edge : n \notin {e[1], e[2]}}, next |-> g.next]

VARIABLES stmt, g0,      \* the statement and the graph it began on
          setting, todo, \* settings of this run and of the next one
          graph,         \* the graph as the transaction sees it
          op,            \* state of the reading operators
          visited,       \* nodes the source has returned
          passed,        \* rows that have come to SKIP
          rows,          \* result rows
          status, outcomes

run == <<stmt, g0, setting, todo>>
vars == <<run, graph, op, visited, passed, rows, status, outcomes>>

SourceIds(g) == IF stmt.source = "all" THEN AllNodes(g) ELSE NodesByLabel(g)

\* The operators as they are built: a scan has its iterator from now on.
Build(g) ==
    [cursor  |-> Binds(g, SourceIds(g)),  \* nodes the source has still to return
     inner   |-> NodesByLabel(g),         \* nodes of the cartesian product's right side
     side    |-> "unread", right |-> <<>>, \* that side, once read
     cur     |-> Null,                    \* the current row of the source,
     pending |-> <<>>,                    \*   and what it has still to be joined with
     buffer  |-> <<>>]                    \* rows held by a barrier

Init ==
    /\ \E c \in Cases : /\ stmt \in c.statements /\ g0 \in c.graphs
                        /\ \E p \in c.settings : setting = p[1] /\ todo = Tail(p)
    /\ graph = g0 /\ op = Build(g0)
    /\ visited = <<>> /\ passed = 0 /\ rows = <<>> /\ status = "running" /\ outcomes = <<>>

Row(a, b) == [a |-> a, b |-> b]
Outcome == [status |-> status, rows |-> rows, graph |-> graph]
Running == status = "running"
Streaming == ~stmt.barrier

\* LIMIT has its rows and asks its input for no other.
AtLimit == Len(rows) >= stmt.limit

\* The transaction of a failed statement is discarded.
Fail(why) == /\ status' = why /\ graph' = g0 /\ rows' = <<>>
             /\ UNCHANGED <<run, passed, outcomes>>

-----------------------------------------------------------------------------
(* Reading.                                                                *)

\* Mutant of Source: the scan looks for its nodes when it is asked for one.
Source_Live ==
    Binds(graph, Those(SourceIds(graph), {n \in DOMAIN graph.rec : visited = <<>> \/ n > visited[Len(visited)]}))

Source == op.cursor

\* A node scan decodes the records its iterator was opened on; a label scan
\* reads the record of each node when it comes to it.
SourceNode == IF stmt.source = "all" THEN Head(Source) ELSE Bind(graph, Head(Source).id)

Equal(a, bs) == Those(bs, {bs[i] : i \in {j \in DOMAIN bs : a.v # 0 /\ bs[j].v = a.v}})

\* What the row a is joined with: an Apply (an index seek that depends on the
\* row, or an optional match) reads for every row; a cartesian product filters
\* the one right side it has read; an expand takes the edges of a.
Joined(a, side) ==
    CASE stmt.match = "none" -> <<Null>>
      [] stmt.match = "expand" -> [i \in DOMAIN OutNodes(graph, a.id) |-> [Null EXCEPT !.id = OutNodes(graph, a.id)[i]]]
      [] stmt.match = "join" /\ setting.indexed -> Binds(graph, NodesByProperty(graph, a.v))
      [] stmt.match = "join" /\ ~setting.indexed /\ stmt.optional -> Equal(a, Binds(graph, NodesByLabel(graph)))
      [] stmt.match = "join" /\ ~setting.indexed /\ ~stmt.optional -> Equal(a, side)

\* The product reads its right side once there is a left row, and keeps it.
RightSide == IF op.side = "read" THEN op.right ELSE Binds(graph, op.inner)

\* An optional match without a row gives one with nulls.
NullExtended(found) == IF stmt.optional /\ found = <<>> THEN <<Null>> ELSE found

NextSource ==
    /\ Running /\ op.pending = <<>> /\ Source # <<>>
    /\ Streaming => ~AtLimit
    /\ \/ /\ stmt.source = "label" /\ ~Exists(graph, Head(Source).id)
          /\ Fail("scan") /\ UNCHANGED <<op, visited>>
       \/ /\ stmt.source = "label" => Exists(graph, Head(Source).id)
          /\ op' = [op EXCEPT !.cursor = Tail(Source), !.cur = SourceNode,
                              !.side = "read", !.right = RightSide,
                              !.pending = NullExtended(Joined(SourceNode, RightSide))]
          /\ visited' = Append(visited, Head(Source).id)
          /\ UNCHANGED <<run, graph, passed, rows, status, outcomes>>

-----------------------------------------------------------------------------
(* Writing.                                                                *)

\* What a write makes of a row: the graph, the row it passes on, how often.
Written(g, r, n) == [end |-> "ok", graph |-> g, row |-> r, n |-> n]
Refused == [end |-> "refused"]

\* SET x.v = value; x's binding is read again.
SetOn(row, x, v) ==
    IF ~Exists(graph, row[x].id) THEN Refused
    ELSE LET g == SetProperty(graph, row[x].id, v)
         IN Written(g, [row EXCEPT ![x] = Bind(g, row[x].id)], 1)

RemoveOn(row, x) ==
    IF ~Exists(graph, row[x].id) THEN Refused
    ELSE LET g == RemoveLabels(graph, row[x].id)
         IN Written(g, [row EXCEPT ![x] = Bind(g, row[x].id)], 1)

\* DELETE of null does nothing.
DeleteOn(row, x, detach) ==
    LET n == row[x].id
    IN IF n = 0 THEN Written(graph, row, 1)
       ELSE IF ~Exists(graph, n) \/ (~detach /\ \E e \in graph.edge : n \in {e[1], e[2]}) THEN Refused
       ELSE Written(DetachDeleteNode(graph, n), row, 1)

\* Mutant of MergeMatches: it looks among the nodes the statement began on.
MergeMatches_Before(v) == NodesByProperty(g0, v)

MergeMatches(v) == NodesByProperty(graph, v)

\* MERGE (:L {v: a.v}): a row for every match, or the node is created.
MergeOn(row) ==
    LET v == row.a.v
    IN IF v = 0 THEN Refused
       ELSE IF MergeMatches(v) # <<>> THEN Written(graph, row, Len(MergeMatches(v)))
       ELSE Written(CreateNode(graph, v), row, 1)

WriteRow(row) ==
    CASE stmt.write = "none"    -> Written(graph, row, 1)
      [] stmt.write = "setA"    -> SetOn(row, "a", row.b.v)
      [] stmt.write = "markA"   -> SetOn(row, "a", 1)
      [] stmt.write = "setB"    -> SetOn(row, "b", row.a.v)
      [] stmt.write = "dropA"   -> RemoveOn(row, "a")
      [] stmt.write = "create"  -> Written(CreateNode(graph, row.a.v), row, 1)
      [] stmt.write = "merge"   -> MergeOn(row)
      [] stmt.write = "deleteB" -> DeleteOn(row, "b", FALSE)
      [] stmt.write = "detachA" -> DeleteOn(row, "a", TRUE)
      [] stmt.write = "detachB" -> DeleteOn(row, "b", TRUE)

\* Run stops only once the cap is reached and there is another row.
OverCap(result) == setting.cap # 0 /\ Len(result) > setting.cap

\* How many of n rows get past SKIP.
Least(m, n) == IF m <= n THEN m ELSE n
Kept(n) == IF stmt.skip <= passed THEN n ELSE n - Least(n, stmt.skip - passed)

\* A row goes through the write to SKIP, LIMIT and the result.
Deliver(row) ==
    LET w == WriteRow(row)
        all == rows \o [i \in 1..Kept(w.n) |-> w.row]
        result == SubSeq(all, 1, Least(Len(all), stmt.limit))
    IN \/ w.end # "ok" /\ Fail("refused")
       \/ w.end = "ok" /\ OverCap(result) /\ Fail("cap")
       \/ /\ w.end = "ok" /\ ~OverCap(result)
          /\ graph' = w.graph /\ passed' = passed + w.n /\ rows' = result
          /\ UNCHANGED <<run, status, outcomes>>

\* The record of an expanded node, and of its relationship, is read now.
Readable(b) == stmt.match = "expand" /\ b.id # 0 =>
                   Exists(graph, b.id) /\ <<op.cur.id, b.id>> \in graph.edge
Target(b) == IF stmt.match = "expand" /\ b.id # 0 THEN Bind(graph, b.id) ELSE b

NextRow ==
    /\ Running /\ op.pending # <<>>
    /\ Streaming => ~AtLimit
    /\ LET b == Head(op.pending)
           row == Row(op.cur, Target(b))
           rest == [op EXCEPT !.pending = Tail(@)]
       IN \/ ~Readable(b) /\ Fail("refused") /\ UNCHANGED op
          \/ Readable(b) /\ Streaming /\ op' = rest /\ Deliver(row)
          \/ /\ Readable(b) /\ ~Streaming
             /\ op' = [rest EXCEPT !.buffer = Append(@, row)]
             /\ UNCHANGED <<run, graph, passed, rows, status, outcomes>>
    /\ UNCHANGED visited

Exhausted == op.pending = <<>> /\ Source = <<>>

\* ORDER BY reads its whole input before it returns the first row; here the
\* rows come in order already and the stable sort leaves them so.
NextSorted ==
    /\ Running /\ ~Streaming /\ Exhausted /\ op.buffer # <<>> /\ ~AtLimit
    /\ op' = [op EXCEPT !.buffer = Tail(@)]
    /\ Deliver(Head(op.buffer))
    /\ UNCHANGED visited

Finish ==
    /\ Running
    /\ \/ Exhausted /\ op.buffer = <<>>
       \/ AtLimit /\ (Streaming \/ Exhausted)
    /\ status' = "ok"
    /\ UNCHANGED <<run, graph, op, visited, passed, rows, outcomes>>

\* The same statement on the same graph, with the other setting.
RunAgain ==
    /\ ~Running /\ todo # <<>>
    /\ outcomes' = Append(outcomes, Outcome)
    /\ setting' = Head(todo) /\ todo' = Tail(todo)
    /\ graph' = g0 /\ op' = Build(g0)
    /\ visited' = <<>> /\ passed' = 0 /\ rows' = <<>> /\ status' = "running"
    /\ UNCHANGED <<stmt, g0>>

Next == NextSource \/ NextRow \/ NextSorted \/ Finish \/ RunAgain

Spec == Init /\ [][Next]_vars

-----------------------------------------------------------------------------
(* What a statement promises.                                              *)

Binding == [id : 0..(graph.next - 1), l : 0..1, v : Nat]

\* Type invariant: edges join nodes of the graph, ids come from the counter,
\* bindings name nodes handed out so far (NodeCursor, binding).
TypeOK ==
    /\ status \in {"running", "ok", "scan", "refused", "cap"}
    /\ GraphOK(graph)
    /\ rows \in Seq([a : Binding, b : Binding]) /\ Len(rows) <= stmt.limit
    /\ op.buffer \in Seq([a : Binding, b : Binding])

\* A scan returns every node that was there when it was opened, once, in id
\* order, and none of those the statement creates or moves while it runs
\* (NodeCursor: "fixes the set of nodes it returns").
EachNodeOnce ==
    /\ Len(visited) <= Len(SourceIds(g0)) /\ \A i \in DOMAIN visited : visited[i] = SourceIds(g0)[i]
    /\ status = "ok" /\ ~AtLimit => visited = SourceIds(g0)

\* A scan returns every node that was there when it was opened, once, in id
\* order; bindings name nodes handed out so far and edges join nodes of the graph
\* (NodeCursor, DetachDeleteNode).
ScansExact == TypeOK /\ EachNodeOnce

Having(g, v) == Cardinality({n \in DOMAIN g.rec : g.rec[n].l = 1 /\ g.rec[n].v = v})

\* MERGE creates a node once per value however many rows ask for it, and none
\* for a value that was there (mergeNode matches what earlier rows created).
MergeOnce ==
    stmt.write = "merge" /\ status = "ok" =>
        \A i \in DOMAIN rows : LET v == rows[i].a.v
                              IN Having(graph, v) = IF Having(g0, v) = 0 THEN 1 ELSE Having(g0, v)

\* "An index is an access path only: the rows must be identical", and so must
\* the graph the statement leaves (planPart's choice of Apply or product).
AccessPathOnly ==
    Len(outcomes) = 1 /\ ~Running /\ setting.cap = 0 => Outcome = outcomes[1]

\* WithMaxRows only ever refuses: a statement within the cap ends as it would
\* without one, one beyond it fails and leaves nothing (Run).
CapOnly ==
    Len(outcomes) = 1 /\ ~Running /\ setting.cap # 0 /\ outcomes[1].status = "ok" =>
        IF Len(outcomes[1].rows) <= setting.cap THEN Outcome = outcomes[1]
        ELSE status = "cap" /\ graph = g0

\* applySetClauses refreshes "the bound nodes after each mutation so downstream
\* operators see the new values": two variables bound to one node agree.
AliasRefreshed ==
    \A i \in DOMAIN rows : rows[i].a.id = rows[i].b.id => rows[i].a = rows[i].b

\* The writes of a statement do not disturb its own scan (NodeCursor: "writes
\* made later in the same transaction are not seen").
ScanUnaffected == status # "scan"
=============================================================================
