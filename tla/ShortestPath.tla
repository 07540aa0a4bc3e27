---------------------------- MODULE ShortestPath ----------------------------
(***************************************************************************)
(* graph.ShortestPaths: a bidirectional breadth-first search that advances  *)
(* the side with the smaller frontier by a whole layer, stops at the first  *)
(* layer that meets the other side, and joins the walks recorded by the     *)
(* two.  One step is one layer.  The edges are those of the types asked     *)
(* for; the order neighbors lists them in only decides which of several     *)
(* shortest paths is returned when one is wanted, so predecessors are sets. *)
(***************************************************************************)
EXTENDS Integers, Sequences, FiniteSets, SequencesExt

CONSTANTS Node,             \* node identifiers
          MaxEdge,          \* number of edges of a graph
          HopBounds,        \* values of MaxHops; negative: unbounded
          Ends              \* pairs of endpoints searched for

VARIABLES edge,             \* the graph: edge id -> <<source, destination>>
          spec,             \* the PathSpec, and the endpoints
          fwd, bwd,         \* the two sides
          done, paths       \* has the search returned, and what

vars == <<edge, spec, fwd, bwd, done, paths>>

newSide(start, out, in) ==
    [depth |-> [n \in {start} |-> 0], preds |-> [n \in Node |-> {}], frontier |-> {start},
     level |-> 0, out |-> out, in |-> in]

Pairs == Node \X Node
Earlier(p, q) == p[1] < q[1] \/ (p[1] = q[1] /\ p[2] <= q[2])

\* A path is its nodes and its edges; the empty path has one node.
Path(nodes, rels) == [nodes |-> nodes, rels |-> rels]

\* What is answered without a search.
NoSearch == spec.src = spec.dst \/ spec.maxHops = 0
Immediate == IF spec.src = spec.dst /\ spec.minHops = 0 THEN {Path(<<spec.src>>, <<>>)} ELSE {}

\* Graphs are listed with their edges in order, one per renaming of edges.
Init ==
    /\ edge \in [1..MaxEdge -> Pairs]
    /\ \A i \in 1..MaxEdge - 1 : Earlier(edge[i], edge[i + 1])
    /\ \E ends \in Ends, dir \in {"out", "in", "both"}, min \in 0..1, max \in HopBounds, all \in BOOLEAN :
          /\ spec = [src |-> ends[1], dst |-> ends[2], minHops |-> min, maxHops |-> max, all |-> all,
                     out |-> dir # "in", in |-> dir # "out"]
          /\ min = 1 \/ ends[1] = ends[2]
    /\ fwd = newSide(spec.src, spec.out, spec.in)
    /\ bwd = newSide(spec.dst, spec.in, spec.out)
    /\ done = NoSearch /\ paths = Immediate

----------------------------------------------------------------------------

\* <<edge, node reached>> from n: outgoing, incoming or both.
neighbors(n, out, in) ==
    {<<e, edge[e][2]>> : e \in {x \in 1..MaxEdge : out /\ edge[x][1] = n}}
        \cup {<<e, edge[e][1]>> : e \in {x \in 1..MaxEdge : in /\ edge[x][2] = n}}

\* The <<from, edge, to>> the next layer goes through: not a self-loop, and not
\* back to a node of an earlier layer.
Layer(s) ==
    {x \in UNION {{<<n, h[1], h[2]>> : h \in neighbors(n, s.out, s.in)} : n \in s.frontier} :
        x[3] \notin DOMAIN s.depth}

expand(s) ==
    LET next == {x[3] : x \in Layer(s)}
    IN [s EXCEPT !.level = @ + 1,
                 !.depth = [n \in DOMAIN @ \cup next |-> IF n \in DOMAIN @ THEN @[n] ELSE s.level + 1],
                 !.preds = [n \in Node |-> @[n] \cup {<<x[1], x[2]>> : x \in {y \in Layer(s) : y[3] = n}}],
                 !.frontier = next]

\* Nodes of the new layer the other side has, at the smallest distance.
Meeting(side, other) ==
    LET both == side.frontier \cap DOMAIN other.depth
    IN {m \in both : \A k \in both : other.depth[m] <= other.depth[k]}

\* Walks from the side's start to m, start first, by their number of edges.
walks(s, m) ==
    LET upTo[k \in 0..Cardinality(Node)] ==
          [n \in DOMAIN s.depth |->
             IF s.depth[n] # k THEN {}
             ELSE IF s.preds[n] = {} THEN {Path(<<n>>, <<>>)}
             ELSE UNION {{Path(Append(w.nodes, n), Append(w.rels, p[2])) : w \in upTo[k - 1][p[1]]}
                           : p \in s.preds[n]}]
    IN upTo[s.depth[m]][m]

\* A walk from src to m, then a walk from dst to m backwards.
concat(head, tail) ==
    Path(head.nodes \o Tail(Reverse(tail.nodes)), head.rels \o Reverse(tail.rels))

joinPaths(f, b, meet) ==
    UNION {{concat(h, t) : h \in walks(f, m), t \in walks(b, m)} : m \in meet}

\* Mutant of TooLong: one layer too many.
TooLong_OneMore == spec.maxHops > 0 /\ fwd.level + bwd.level > spec.maxHops

TooLong == spec.maxHops > 0 /\ fwd.level + bwd.level + 1 > spec.maxHops

\* One layer, from the smaller frontier, and what the search returns after it.
Search(backward) ==
    LET side == IF backward THEN bwd ELSE fwd
        other == IF backward THEN fwd ELSE bwd
        new == expand(side)
        f == IF backward THEN other ELSE new
        b == IF backward THEN new ELSE other
        meet == Meeting(new, other)
    IN /\ ~done
       /\ fwd.frontier # {} /\ bwd.frontier # {} /\ ~TooLong
       /\ backward <=> Cardinality(bwd.frontier) < Cardinality(fwd.frontier)
       /\ fwd' = f /\ bwd' = b
       /\ done' = (meet # {})
       /\ \/ (meet = {} \/ spec.all) /\ paths' = joinPaths(f, b, meet)
          \/ ~spec.all /\ \E p \in joinPaths(f, b, meet) : paths' = {p}
       /\ UNCHANGED <<edge, spec>>

\* Mutant of NoPath: only the forward side is looked at.
NoPath_ForwardOnly ==
    /\ ~done
    /\ fwd.frontier = {} \/ TooLong
    /\ done' = TRUE
    /\ UNCHANGED <<edge, spec, fwd, bwd, paths>>

\* A side has nowhere to go, or the hops are used up.
NoPath ==
    /\ ~done
    /\ fwd.frontier = {} \/ bwd.frontier = {} \/ TooLong
    /\ done' = TRUE
    /\ UNCHANGED <<edge, spec, fwd, bwd, paths>>

Next == (\E backward \in BOOLEAN : Search(backward)) \/ NoPath

Fairness == WF_vars(Next)

Spec == Init /\ [][Next]_vars /\ Fairness

----------------------------------------------------------------------------
(* Properties.                                                             *)

\* Each side knows nodes and their distances.
TypeOK ==
    /\ edge \in [1..MaxEdge -> Pairs]
    /\ \A s \in {fwd, bwd} : /\ s.level \in Nat /\ s.frontier \subseteq DOMAIN s.depth
                             /\ \A n \in DOMAIN s.depth : n \in Node /\ s.depth[n] \in 0..s.level

\* The walks of k edges from src, as the definition of a path has them.
WalksOf(k) ==
    LET of[i \in 0..k] ==
          IF i = 0 THEN {Path(<<spec.src>>, <<>>)}
          ELSE UNION {{Path(Append(w.nodes, h[2]), Append(w.rels, h[1])) :
                         h \in neighbors(Last(w.nodes), spec.out, spec.in)} : w \in of[i - 1]}
    IN of[k]

Between(k) == {w \in WalksOf(k) : Last(w.nodes) = spec.dst}

\* The shortest paths there are, by trying every length up to the hop bound.
\* No shortest path is longer than the number of nodes less one.
AllShortest ==
    LET bound == IF spec.maxHops < 0 THEN Cardinality(Node) - 1 ELSE spec.maxHops
        lengths == {k \in (IF spec.src = spec.dst THEN 0..0 ELSE 1..bound) : Between(k) # {}}
    IN IF lengths = {} \/ (spec.src = spec.dst /\ spec.minHops = 1) THEN {}
       ELSE Between(CHOOSE k \in lengths : \A j \in lengths : k <= j)

\* ShortestPaths returns every shortest path within MaxHops when All is set,
\* one of them when it is not, and none only when there is none, although
\* neither side of the search ever sees the whole graph.
ShortestExact ==
    done => IF spec.all THEN paths = AllShortest
            ELSE /\ paths \subseteq AllShortest
                 /\ Cardinality(paths) = IF AllShortest = {} THEN 0 ELSE 1

\* The loop ends: each layer takes new nodes, until the sides meet or one of
\* them has no more.
SearchEnds == <>done
=============================================================================
