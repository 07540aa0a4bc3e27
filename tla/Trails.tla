------------------------------- MODULE Trails -------------------------------
(***************************************************************************)
(* varExpand: the rows of a variable-length pattern -[:T*min..max]-.  From   *)
(* one node, every trail (no relationship twice) whose length is within the *)
(* bounds becomes a row.  One step is one depth of the search.  Hits are    *)
(* sequences, as rows are: a trail listed twice is two rows.  Edges are     *)
(* those of the types asked for, each type named once.                      *)
(***************************************************************************)
EXTENDS Integers, Sequences, FiniteSets, SequencesExt

CONSTANTS Node,
          MaxEdge,            \* number of edges of a graph
          Dirs,               \* directions a pattern may have
          LoopDirs,           \* those also tried on graphs with self-loops
          Hops,               \* <<min, max>> of a pattern; negative: not given
          varExpandMaxDepth   \* depth searched when no maximum is given

VARIABLES edge,               \* the graph: edge id -> <<source, destination>>
          from, dir, hops,    \* the pattern, from a bound node
          d,                  \* depth reached
          frontier,           \* trails of length d: [node, edges]
          hits,               \* rows found so far
          done

vars == <<edge, from, dir, hops, d, frontier, hits, done>>

Trail(n, edges) == [node |-> n, edges |-> edges]
Earlier(p, q) == p[1] < q[1] \/ (p[1] = q[1] /\ p[2] <= q[2])

minH == IF hops[1] < 0 THEN 1 ELSE hops[1]
maxH == IF hops[2] < 0 THEN varExpandMaxDepth ELSE hops[2]

Init ==
    /\ edge \in [1..MaxEdge -> Node \X Node]
    /\ \A i \in 1..MaxEdge - 1 : Earlier(edge[i], edge[i + 1])
    /\ from \in Node /\ dir \in Dirs /\ hops \in Hops
    /\ dir \in LoopDirs \/ \A e \in 1..MaxEdge : edge[e][1] # edge[e][2]
    /\ d = 0
    /\ frontier = <<Trail(from, <<>>)>>
    /\ hits = IF minH <= 0 THEN <<Trail(from, <<>>)>> ELSE <<>>
    /\ done = (maxH = 0)

\* The edges at n in key order, as <<edge, other end>>: outgoing, then incoming.
OutEdges(n) == SelectSeq([e \in 1..MaxEdge |-> <<e, edge[e][2]>>], LAMBDA h : edge[h[1]][1] = n)
InEdges(n) == SelectSeq([e \in 1..MaxEdge |-> <<e, edge[e][1]>>], LAMBDA h : edge[h[1]][2] = n)

neighbors(n) ==
    (IF dir \in {"out", "both"} THEN OutEdges(n) ELSE <<>>)
        \o (IF dir \in {"in", "both"} THEN InEdges(n) ELSE <<>>)

\* Mutant of containsEdge: only the last relationship is looked at.
containsEdge_Last(edges, e) == edges # <<>> /\ Last(edges) = e

containsEdge(edges, e) == e \in ToSet(edges)

\* The trails one relationship longer than t.
Longer(t) ==
    LET new == SelectSeq(neighbors(t.node), LAMBDA h : ~containsEdge(t.edges, h[1]))
    IN [i \in DOMAIN new |-> Trail(new[i][2], Append(t.edges, new[i][1]))]

\* One round of the loop in bfs.
Deepen ==
    LET next == FlattenSeq([i \in DOMAIN frontier |-> Longer(frontier[i])])
    IN /\ ~done
       /\ d' = d + 1
       /\ hits' = IF d + 1 >= minH THEN hits \o next ELSE hits
       /\ frontier' = next
       /\ done' = (next = <<>> \/ d + 1 = maxH)
       /\ UNCHANGED <<edge, from, dir, hops>>

Next == Deepen

Spec == Init /\ [][Next]_vars

----------------------------------------------------------------------------
(* Properties.                                                             *)

\* Trails of the frontier have the depth reached and end at nodes.
TypeOK ==
    /\ d \in 0..varExpandMaxDepth
    /\ \A i \in DOMAIN frontier : frontier[i].node \in Node /\ Len(frontier[i].edges) = d
    /\ done \in BOOLEAN

\* Where a relationship leads from n in the pattern's direction.
Across(n, e) ==
    {m \in Node : \/ dir # "in" /\ edge[e] = <<n, m>>
                  \/ dir # "out" /\ edge[e] = <<m, n>>}

\* Does this sequence of relationships lead from n to m?
Leads(n, edges, m) ==
    \E nodes \in [1..Len(edges) + 1 -> Node] :
        /\ nodes[1] = n /\ nodes[Len(edges) + 1] = m
        /\ \A i \in DOMAIN edges : nodes[i + 1] \in Across(nodes[i], edges[i])

\* The trails the pattern has, by trying every arrangement of relationships.
AllTrails ==
    {t \in [node : Node, edges : {s \in SeqOf(1..MaxEdge, MaxEdge) : IsInjective(s)}] :
        Len(t.edges) \in minH..maxH /\ Leads(from, t.edges, t.node)}

\* "Yields every path within [MinHops, MaxHops]": the rows are the trails of
\* the pattern, none missing and none that repeats a relationship.
TrailsExact == done => ToSet(hits) = AllTrails

\* "Each path produces one output row."
OneRowPerTrail == IsInjective(hits)
=============================================================================
