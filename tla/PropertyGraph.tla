--------------------------- MODULE PropertyGraph ---------------------------
(***************************************************************************)
(* What a caller of the graph layer is promised: a property graph whose    *)
(* statements change nodes and edges and never leave it illegal, that is,  *)
(* with two nodes equal under a unique constraint or an edge without its   *)
(* end.  There are no index keys here: Graph implements this with them.    *)
(***************************************************************************)
EXTENDS Integers

CONSTANTS Label, Key, Type, Scalar, Composite, Nil, uniqueValue, NoForm,
          MaxNode, MaxEdge

NodeId == 1..MaxNode
EdgeId == 1..MaxEdge
Props == [Key -> Scalar \cup Composite \cup {Nil}]

VARIABLES node, edge, unique, lastNode, lastEdge

vars == <<node, edge, unique, lastNode, lastEdge>>

Init ==
    /\ node = [n \in {} |-> Nil]
    /\ edge = [e \in {} |-> Nil]
    /\ unique = {}
    /\ lastNode = 0 /\ lastEdge = 0

\* Equal as Cypher compares scalars; NaN, null, lists and maps equal nothing.
Equal(v, w) ==
    /\ v \in Scalar /\ w \in Scalar
    /\ uniqueValue[v] = uniqueValue[w]
    /\ uniqueValue[v] # NoForm

Legal ==
    /\ \A l \in Label, k \in Key, n, m \in DOMAIN node :
           /\ <<l, k>> \in unique
           /\ l \in node[n].labels \cap node[m].labels
           /\ Equal(node[n].props[k], node[m].props[k])
           => n = m
    /\ \A e \in DOMAIN edge : {edge[e].src, edge[e].dst} \subseteq DOMAIN node

\* The record of a live node becomes rec.
Rewrite(n, rec) ==
    /\ n \in DOMAIN node
    /\ node' = [node EXCEPT ![n] = rec]
    /\ UNCHANGED <<edge, unique, lastNode, lastEdge>>

Create(labels, props) ==
    /\ lastNode < MaxNode
    /\ lastNode' = lastNode + 1
    /\ node' = [n \in DOMAIN node \cup {lastNode'} |->
                   IF n = lastNode' THEN [labels |-> labels, props |-> props] ELSE node[n]]
    /\ UNCHANGED <<edge, unique, lastEdge>>

Connect(type, src, dst, props) ==
    /\ lastEdge < MaxEdge
    /\ lastEdge' = lastEdge + 1
    /\ edge' = [e \in DOMAIN edge \cup {lastEdge'} |->
                   IF e = lastEdge'
                   THEN [type |-> type, src |-> src, dst |-> dst, props |-> props]
                   ELSE edge[e]]
    /\ UNCHANGED <<node, unique, lastNode>>

\* Nodes ns and edges es disappear.
Delete(ns, es) ==
    /\ node' = [n \in DOMAIN node \ ns |-> node[n]]
    /\ edge' = [e \in DOMAIN edge \ es |-> edge[e]]
    /\ UNCHANGED <<unique, lastNode, lastEdge>>

Incident(n) == {e \in DOMAIN edge : n \in {edge[e].src, edge[e].dst}}

Constrain(pairs) ==
    /\ unique' = pairs
    /\ UNCHANGED <<node, edge, lastNode, lastEdge>>

Statement ==
    \/ \E ls \in SUBSET Label, ps \in Props : Create(ls, ps)
    \/ \E n \in DOMAIN node :
           \/ \E ps \in Props : Rewrite(n, [node[n] EXCEPT !.props = ps])
           \/ \E ls \in SUBSET Label : Rewrite(n, [node[n] EXCEPT !.labels = ls])
           \/ Delete({n}, {})
           \/ Delete({n}, Incident(n))
    \/ \E t \in Type, s, d \in NodeId, ps \in Props : Connect(t, s, d, ps)
    \/ \E e \in DOMAIN edge : Delete({}, {e})
    \/ \E l \in Label, k \in Key :
           \/ Constrain(unique \cup {<<l, k>>})
           \/ Constrain(unique \ {<<l, k>>})

\* A statement that would leave the graph illegal is refused.
Next == Statement /\ Legal'

Spec == Init /\ [][Next]_vars
=============================================================================
