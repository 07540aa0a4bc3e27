------------------------------ MODULE MCGraph ------------------------------
(* A small instance of Graph: an integer, the equal float, NaN and a list; *)
(* two labels, two relationship types.                                     *)
EXTENDS Graph

CONSTANTS one, oneFloat, nan, list, A, B, k

MCuniqueValue == [v \in {one, oneFloat, nan, Nil} |->
                     CASE v \in {one, oneFloat} -> one [] v = nan -> NoForm [] OTHER -> Nil]

PropValues(records) == {records[x].props[k] : x \in DOMAIN records}
LabelsUsed == UNION {node[n].labels : n \in DOMAIN node} \cup {x[1] : x \in index}

\* States are explored along three lines that cross in the small ones: nodes
\* with every value and one label; with one value, two labels and at most
\* one constraint; without labels, and edges.
NodesOnly == lastEdge = 0 /\ relIndex = {}
ManyValues == NodesOnly /\ B \notin LabelsUsed
ManyLabels == NodesOnly /\ PropValues(node) \subseteq {Nil, one} /\ (unique = {} \/ \E x \in Label \X Key : unique = {x})
Edges == LabelsUsed = {} /\ PropValues(node) \subseteq {Nil} /\ PropValues(edge) \subseteq {Nil, one, list}
Focus == ManyValues \/ ManyLabels \/ Edges
=============================================================================
