------------------------------- MODULE Graph -------------------------------
(***************************************************************************)
(* The graph layer of intreccio (internal/graph): node and edge records    *)
(* and the key families derived from them.  Every operation runs inside a  *)
(* storage transaction and rolls back on error, so here it is one atomic   *)
(* step: an error return is a step that does not happen.  Concurrent       *)
(* transactions are the subject of Isolation, an operation whose error     *)
(* the caller swallows that of Tx.                                         *)
(*                                                                         *)
(* A key family is the set, or the function, its keys spell:               *)
(*   n, e  node and edge        functions on the live identifiers          *)
(*   l     labelIx              pairs <<label, node>>                      *)
(*   p     propIx               <<label, key, value>> to the nodes listed  *)
(*   u     owner                <<label, key, canonical value>> to a node  *)
(*   o, i  outAdj, inAdj        <<src, type, dst, edge>> and its mirror    *)
(*   r     relIx                <<type, key, value>> to the edges listed   *)
(*   X, U, Y  index, unique (with ownsIndex), relIndex: the registries     *)
(* Dictionary identifiers stand for the names they intern.                 *)
(***************************************************************************)
EXTENDS Integers

CONSTANTS Label, Key, Type,     \* interned names
          Scalar, Composite,    \* property values: indexable, and lists or maps
          Nil,                  \* Go's nil, Cypher's null
          uniqueValue,          \* canonical form of a scalar, NoForm for NaN
          Form, NoForm,
          MaxNode, MaxEdge      \* bounds on the identifier counters

NodeId == 1..MaxNode
EdgeId == 1..MaxEdge
NoOwner == 0

Value == Scalar \cup Composite
Indexable == Scalar \cup {Nil}

ASSUME ValueAssumption ==
    /\ Nil \notin Value
    /\ Scalar \cap Composite = {}
    /\ NoForm \notin Form \cup {Nil}
    /\ Nil \notin Form

ASSUME FormAssumption ==
    /\ uniqueValue \in [Indexable -> Form \cup {Nil, NoForm}]
    /\ \A v \in Indexable : uniqueValue[v] = Nil <=> v = Nil

ASSUME BoundAssumption == MaxNode \in Nat /\ MaxEdge \in Nat

VARIABLES node, edge, labelIx, propIx, owner, outAdj, inAdj, relIx,
          index, unique, ownsIndex, relIndex, lastNode, lastEdge

nodeVars == <<node, labelIx, propIx, owner>>
edgeVars == <<edge, outAdj, inAdj, relIx>>
registryVars == <<index, unique, ownsIndex, relIndex>>
vars == <<node, edge, labelIx, propIx, owner, outAdj, inAdj, relIx,
          index, unique, ownsIndex, relIndex, lastNode, lastEdge>>

Props == [Key -> Value \cup {Nil}]      \* Nil: the key is not in the record
NodeRecord == [labels : SUBSET Label, props : Props]
EdgeRecord == [type : Type, src : NodeId, dst : NodeId, props : Props]

Entry == Label \X Key \X Indexable
Claim == Label \X Key \X (Form \cup {Nil})
RelEntry == Type \X Key \X Indexable

Init ==
    /\ node = [n \in {} |-> Nil]
    /\ edge = [e \in {} |-> Nil]
    /\ labelIx = {}
    /\ propIx = [x \in Entry |-> {}]
    /\ owner = [c \in Claim |-> NoOwner]
    /\ outAdj = {} /\ inAdj = {}
    /\ relIx = [x \in RelEntry |-> {}]
    /\ index = {} /\ unique = {} /\ ownsIndex = {} /\ relIndex = {}
    /\ lastNode = 0 /\ lastEdge = 0

----------------------------------------------------------------------------
(* Property index and unique owners of one node.                           *)

\* The entries of a record under the labels in ls and the keys in ks.
EntriesOf(rec, ls, ks) ==
    {x \in Entry : x[1] \in ls /\ x[2] \in ks /\ x[3] = rec.props[x[2]] /\ x[3] # Nil}

\* putPropEntry and delPropEntry act on indexable values of indexed pairs ...
Indexed(x) == <<x[1], x[2]>> \in index

\* ... and claim or release the canonical value of unique pairs.
Claims(x, c) ==
    /\ Indexed(x)
    /\ <<x[1], x[2]>> \in unique
    /\ c = <<x[1], x[2], uniqueValue[x[3]]>>

\* The owners left once node n gave up the entries del.
Released(n, del) ==
    [c \in Claim |-> IF owner[c] = n /\ \E x \in del : Claims(x, c)
                     THEN NoOwner ELSE owner[c]]

\* delPropEntry of every entry in del, then putPropEntry of every entry in
\* put.  One pair has at most one entry in each, so the pairs, which the code
\* visits in record order, do not interact.  Another owner is
\* ErrConstraintViolation.
UpdatePropEntries(n, del, put) ==
    /\ \A x \in put, c \in Claim :
           Claims(x, c) => Released(n, del)[c] \in {NoOwner, n}
    /\ propIx' = [x \in Entry |->
           (propIx[x] \ (IF x \in del /\ Indexed(x) THEN {n} ELSE {}))
               \cup (IF x \in put /\ Indexed(x) THEN {n} ELSE {})]
    /\ owner' = [c \in Claim |-> IF \E x \in put : Claims(x, c)
                                 THEN n ELSE Released(n, del)[c]]

putNodeRecord(n, rec) ==
    node' = [m \in DOMAIN node \cup {n} |-> IF m = n THEN rec ELSE node[m]]

----------------------------------------------------------------------------
(* Node operations.                                                        *)

\* Mutant of CreateNode: the counter is read but not stored.
CreateNode_CounterNotStored(labels, props) ==
    /\ lastNode < MaxNode
    /\ LET n == lastNode + 1
           rec == [labels |-> labels, props |-> props]
       IN /\ putNodeRecord(n, rec)
          /\ labelIx' = labelIx \cup (labels \X {n})
          /\ UpdatePropEntries(n, {}, EntriesOf(rec, labels, Key))
    /\ UNCHANGED <<edgeVars, registryVars, lastNode, lastEdge>>

CreateNode(labels, props) ==
    /\ lastNode < MaxNode
    /\ lastNode' = lastNode + 1
    /\ LET n == lastNode + 1
           rec == [labels |-> labels, props |-> props]
       IN /\ putNodeRecord(n, rec)
          /\ labelIx' = labelIx \cup (labels \X {n})
          /\ UpdatePropEntries(n, {}, EntriesOf(rec, labels, Key))
    /\ UNCHANGED <<edgeVars, registryVars, lastEdge>>

\* SET n.k = v.  A null value deletes the property from the record, but the
\* loop over the labels still puts an entry for it.
SetProperty(n, k, v) ==
    /\ n \in DOMAIN node
    /\ LET rec == node[n]
           put == {x \in Entry : x[1] \in rec.labels /\ x[2] = k /\ x[3] = v}
       IN /\ UpdatePropEntries(n, EntriesOf(rec, rec.labels, {k}), put)
          /\ putNodeRecord(n, [rec EXCEPT !.props[k] = v])
    /\ UNCHANGED <<labelIx, edgeVars, registryVars, lastNode, lastEdge>>

\* REMOVE n.k.
RemoveProperty(n, k) ==
    /\ n \in DOMAIN node
    /\ node[n].props[k] # Nil
    /\ UpdatePropEntries(n, EntriesOf(node[n], node[n].labels, {k}), {})
    /\ putNodeRecord(n, [node[n] EXCEPT !.props[k] = Nil])
    /\ UNCHANGED <<labelIx, edgeVars, registryVars, lastNode, lastEdge>>

\* SET n:A:B.
AddLabels(n, labels) ==
    /\ n \in DOMAIN node
    /\ LET added == labels \ node[n].labels
       IN /\ added # {}
          /\ labelIx' = labelIx \cup (added \X {n})
          /\ UpdatePropEntries(n, {}, EntriesOf(node[n], added, Key))
          /\ putNodeRecord(n, [node[n] EXCEPT !.labels = @ \cup added])
    /\ UNCHANGED <<edgeVars, registryVars, lastNode, lastEdge>>

\* REMOVE n:A:B.
RemoveLabels(n, labels) ==
    /\ n \in DOMAIN node
    /\ LET removed == labels \cap node[n].labels
       IN /\ labelIx' = labelIx \ (removed \X {n})
          /\ UpdatePropEntries(n, EntriesOf(node[n], removed, Key), {})
          /\ putNodeRecord(n, [node[n] EXCEPT !.labels = @ \ removed])
    /\ UNCHANGED <<edgeVars, registryVars, lastNode, lastEdge>>

\* Mutant of sameValue: query equality, under which 1 and 1.0 are the same.
sameValue_QueryEqual(a, b) == {a, b} \subseteq Indexable /\ uniqueValue[a] = uniqueValue[b]

\* sameValue: the same stored value, bits included; lists and maps never are.
sameValue(a, b) == a = b /\ a \in Indexable

\* SET n = map and SET n += map; the map gives desired[k] for k \in given.
SetNodeProperties(n, given, desired, replace) ==
    /\ n \in DOMAIN node
    /\ LET rec == node[n]
           touched == IF replace THEN Key ELSE given
           after == [rec EXCEPT !.props = [k \in Key |->
                        IF k \in given THEN desired[k]
                        ELSE IF replace THEN Nil ELSE rec.props[k]]]
           changed == {k \in touched : ~sameValue(rec.props[k], after.props[k])}
       IN /\ UpdatePropEntries(n, EntriesOf(rec, rec.labels, changed),
                                  EntriesOf(after, rec.labels, Key))
          /\ putNodeRecord(n, after)
    /\ UNCHANGED <<labelIx, edgeVars, registryVars, lastNode, lastEdge>>

\* The edges the two adjacency prefixes of n list.
OutEdges(n) == {e \in EdgeId : \E t \in Type, m \in NodeId : <<n, t, m, e>> \in outAdj}
InEdges(n) == {e \in EdgeId : \E t \in Type, m \in NodeId : <<n, t, m, e>> \in inAdj}
\* Mutant of hasIncidentEdges: only the out prefix is looked at.
hasIncidentEdges_OutOnly(n) == OutEdges(n) # {}

hasIncidentEdges(n) == OutEdges(n) \cup InEdges(n) # {}

\* delNodeIndexes, then the record.
removeNode(n) ==
    /\ labelIx' = labelIx \ (node[n].labels \X {n})
    /\ UpdatePropEntries(n, EntriesOf(node[n], node[n].labels, Key), {})
    /\ node' = [m \in DOMAIN node \ {n} |-> node[m]]
    /\ UNCHANGED <<registryVars, lastNode, lastEdge>>

DeleteNode(n) ==
    /\ n \in DOMAIN node
    /\ ~hasIncidentEdges(n)
    /\ removeNode(n)
    /\ UNCHANGED edgeVars

----------------------------------------------------------------------------
(* Edge operations.  Edges are immutable: they are created and deleted.    *)

RelIndexed(x) == <<x[1], x[2]>> \in relIndex

RelEntriesOf(rec) ==
    {x \in RelEntry : x[1] = rec.type /\ x[3] = rec.props[x[2]] /\ x[3] # Nil}

outKey(e, rec) == <<rec.src, rec.type, rec.dst, e>>
inKey(e, rec) == <<rec.dst, rec.type, rec.src, e>>

CreateEdge(type, src, dst, props) ==
    /\ {src, dst} \subseteq DOMAIN node
    /\ lastEdge < MaxEdge
    /\ lastEdge' = lastEdge + 1
    /\ LET e == lastEdge + 1
           rec == [type |-> type, src |-> src, dst |-> dst, props |-> props]
       IN /\ edge' = [f \in DOMAIN edge \cup {e} |-> IF f = e THEN rec ELSE edge[f]]
          /\ outAdj' = outAdj \cup {outKey(e, rec)}
          /\ inAdj' = inAdj \cup {inKey(e, rec)}
          /\ relIx' = [x \in RelEntry |->
                 relIx[x] \cup (IF x \in RelEntriesOf(rec) /\ RelIndexed(x) THEN {e} ELSE {})]
    /\ UNCHANGED <<nodeVars, registryVars, lastNode>>

\* DeleteEdge of every edge in es; each must exist.
deleteEdges(es) ==
    /\ es \subseteq DOMAIN edge
    /\ edge' = [f \in DOMAIN edge \ es |-> edge[f]]
    /\ outAdj' = outAdj \ {outKey(e, edge[e]) : e \in es}
    /\ inAdj' = inAdj \ {inKey(e, edge[e]) : e \in es}
    /\ relIx' = [x \in RelEntry |->
           relIx[x] \ {e \in es : x \in RelEntriesOf(edge[e]) /\ RelIndexed(x)}]

\* Mutant of DeleteEdge: deleting the newest edge gives its identifier back.
DeleteEdge_ReturnsId(e) ==
    /\ deleteEdges({e})
    /\ lastEdge' = IF e = lastEdge THEN lastEdge - 1 ELSE lastEdge
    /\ UNCHANGED <<nodeVars, registryVars, lastNode>>

DeleteEdge(e) ==
    /\ deleteEdges({e})
    /\ UNCHANGED <<nodeVars, registryVars, lastNode, lastEdge>>

\* Deletes what the adjacency of n lists; DeleteNode then scans it again.
DetachDeleteNode(n) ==
    /\ n \in DOMAIN node
    /\ deleteEdges(OutEdges(n) \cup InEdges(n))
    /\ ~hasIncidentEdges(n)'
    /\ removeNode(n)

----------------------------------------------------------------------------
(* Indexes and constraints: the pair they are on.  Names are in Schema.    *)

NodesByLabel(l) == {n \in NodeId : <<l, n>> \in labelIx}

\* forEachLabelValue reads the record of every node listed under the label.
LabelReadable(l) == NodesByLabel(l) \subseteq DOMAIN node

\* The owner entries of one pair; putting and deleting them never reads p.
Holders(c) ==
    {n \in NodesByLabel(c[1]) :
        /\ node[n].props[c[2]] \in Scalar
        /\ uniqueValue[node[n].props[c[2]]] = c[3]}

\* BuildIndex adds an entry for every labelled node with an indexable value.
backfilled(l, k) ==
    [x \in Entry |-> IF x[1] = l /\ x[2] = k /\ x[3] # Nil
                     THEN propIx[x] \cup {n \in NodesByLabel(l) : node[n].props[k] = x[3]}
                     ELSE propIx[x]]

CreateIndex(l, k) ==
    /\ <<l, k>> \notin index
    /\ LabelReadable(l)
    /\ index' = index \cup {<<l, k>>}
    /\ propIx' = backfilled(l, k)
    /\ UNCHANGED <<node, labelIx, owner, edgeVars, unique, ownsIndex, relIndex,
                   lastNode, lastEdge>>

withoutEntries(l, k) ==
    [x \in Entry |-> IF x[1] = l /\ x[2] = k THEN {} ELSE propIx[x]]

\* DROP INDEX refuses an index that backs a constraint.
DropIndex(l, k) ==
    /\ <<l, k>> \in index
    /\ <<l, k>> \notin unique
    /\ index' = index \ {<<l, k>>}
    /\ propIx' = withoutEntries(l, k)
    /\ UNCHANGED <<node, labelIx, owner, edgeVars, unique, ownsIndex, relIndex,
                   lastNode, lastEdge>>

\* Builds the index when it is missing, then claims the current values in
\* node order; a value somebody else holds is ErrConstraintViolation.
AddUniqueConstraint(l, k) ==
    /\ <<l, k>> \notin unique
    /\ LabelReadable(l)
    /\ \A c \in Claim : c[1] = l /\ c[2] = k =>
           \A n \in Holders(c) : Holders(c) = {n} /\ owner[c] \in {NoOwner, n}
    /\ unique' = unique \cup {<<l, k>>}
    /\ owner' = [c \in Claim |-> IF c[1] = l /\ c[2] = k /\ Holders(c) # {}
                                 THEN CHOOSE n \in Holders(c) : TRUE ELSE owner[c]]
    /\ index' = index \cup {<<l, k>>}
    /\ IF <<l, k>> \in index
       THEN UNCHANGED <<propIx, ownsIndex>>
       ELSE propIx' = backfilled(l, k) /\ ownsIndex' = ownsIndex \cup {<<l, k>>}
    /\ UNCHANGED <<node, labelIx, edgeVars, relIndex, lastNode, lastEdge>>

\* Mutant of DropUniqueConstraint: the u keys stay.
DropUniqueConstraint_KeepsOwners(l, k) ==
    /\ <<l, k>> \in unique
    /\ unique' = unique \ {<<l, k>>}
    /\ ownsIndex' = ownsIndex \ {<<l, k>>}
    /\ IF <<l, k>> \in ownsIndex
       THEN propIx' = withoutEntries(l, k) /\ index' = index \ {<<l, k>>}
       ELSE UNCHANGED <<propIx, index>>
    /\ UNCHANGED <<node, labelIx, owner, edgeVars, relIndex, lastNode, lastEdge>>

DropUniqueConstraint(l, k) ==
    /\ <<l, k>> \in unique
    /\ unique' = unique \ {<<l, k>>}
    /\ ownsIndex' = ownsIndex \ {<<l, k>>}
    /\ owner' = [c \in Claim |-> IF c[1] = l /\ c[2] = k THEN NoOwner ELSE owner[c]]
    /\ IF <<l, k>> \in ownsIndex
       THEN propIx' = withoutEntries(l, k) /\ index' = index \ {<<l, k>>}
       ELSE UNCHANGED <<propIx, index>>
    /\ UNCHANGED <<node, labelIx, edgeVars, relIndex, lastNode, lastEdge>>

BuildRelIndex(t, k) ==
    /\ <<t, k>> \notin relIndex
    /\ relIndex' = relIndex \cup {<<t, k>>}
    /\ relIx' = [x \in RelEntry |->
           IF x[1] = t /\ x[2] = k
           THEN relIx[x] \cup {e \in DOMAIN edge : x \in RelEntriesOf(edge[e])}
           ELSE relIx[x]]
    /\ UNCHANGED <<nodeVars, edge, outAdj, inAdj, index, unique, ownsIndex,
                   lastNode, lastEdge>>

DropRelIndexEntries(t, k) ==
    /\ <<t, k>> \in relIndex
    /\ relIndex' = relIndex \ {<<t, k>>}
    /\ relIx' = [x \in RelEntry |-> IF x[1] = t /\ x[2] = k THEN {} ELSE relIx[x]]
    /\ UNCHANGED <<nodeVars, edge, outAdj, inAdj, index, unique, ownsIndex,
                   lastNode, lastEdge>>

----------------------------------------------------------------------------
NodeStep ==
    \/ \E ls \in SUBSET Label, ps \in Props : CreateNode(ls, ps)
    \/ \E n \in NodeId, k \in Key :
           \/ \E v \in Value \cup {Nil} : SetProperty(n, k, v)
           \/ RemoveProperty(n, k)
    \/ \E n \in NodeId, ls \in SUBSET Label : AddLabels(n, ls) \/ RemoveLabels(n, ls)
    \/ \E n \in NodeId, ks \in SUBSET Key, ps \in Props, b \in BOOLEAN :
           SetNodeProperties(n, ks, ps, b)
    \/ \E n \in NodeId : DeleteNode(n) \/ DetachDeleteNode(n)

EdgeStep ==
    \/ \E t \in Type, s, d \in NodeId, ps \in Props : CreateEdge(t, s, d, ps)
    \/ \E e \in EdgeId : DeleteEdge(e)

SchemaStep ==
    \/ \E l \in Label, k \in Key :
           \/ CreateIndex(l, k)
           \/ DropIndex(l, k)
           \/ AddUniqueConstraint(l, k)
           \/ DropUniqueConstraint(l, k)
    \/ \E t \in Type, k \in Key : BuildRelIndex(t, k) \/ DropRelIndexEntries(t, k)

Next == NodeStep \/ EdgeStep \/ SchemaStep

Spec == Init /\ [][Next]_vars

----------------------------------------------------------------------------
(* What the layer promises.                                                *)

TypeOK ==
    /\ DOMAIN node \subseteq NodeId /\ node \in [DOMAIN node -> NodeRecord]
    /\ DOMAIN edge \subseteq EdgeId /\ edge \in [DOMAIN edge -> EdgeRecord]
    /\ labelIx \subseteq Label \X NodeId
    /\ propIx \in [Entry -> SUBSET NodeId]
    /\ owner \in [Claim -> NodeId \cup {NoOwner}]
    /\ outAdj \subseteq NodeId \X Type \X NodeId \X EdgeId
    /\ inAdj \subseteq NodeId \X Type \X NodeId \X EdgeId
    /\ relIx \in [RelEntry -> SUBSET EdgeId]
    /\ index \subseteq Label \X Key
    /\ unique \subseteq Label \X Key
    /\ ownsIndex \subseteq Label \X Key
    /\ relIndex \subseteq Type \X Key
    /\ lastNode \in 0..MaxNode /\ lastEdge \in 0..MaxEdge
    /\ \A n \in DOMAIN node : n <= lastNode
    /\ \A e \in DOMAIN edge : e <= lastEdge

\* Node n carries label l and the non-null value v under k.
Has(n, l, k, v) ==
    /\ n \in DOMAIN node
    /\ l \in node[n].labels
    /\ node[n].props[k] = v
    /\ v # Nil

\* The label index lists exactly the labels of the live records
\* (putNodeIndexes, AddLabels, RemoveLabels, delNodeIndexes).
LabelIndexExact ==
    \A l \in Label, n \in NodeId :
        <<l, n>> \in labelIx <=> n \in DOMAIN node /\ l \in node[n].labels

\* For every value a record can hold, a p prefix lists exactly the nodes that
\* hold it, on indexed pairs, and nothing on the others: whatever order of
\* SET, REMOVE, label changes, CREATE INDEX and DROP INDEX led here.  Entries
\* for null are the subject of NoNullEntries.
PropIndexExact ==
    \A x \in Entry : x[3] # Nil =>
        \A n \in NodeId : n \in propIx[x] <=> Indexed(x) /\ Has(n, x[1], x[2], x[3])

\* A property that is not set has no index entry and owns no value.  This is
\* what crud.go's Invariant #1 implies for SET n.k = null, and what
\* SetProperty does not keep.
NoNullEntries ==
    /\ \A x \in Entry : x[3] = Nil => propIx[x] = {}
    /\ \A c \in Claim : c[3] = Nil => owner[c] = NoOwner

\* The node holds c under a unique constraint.
HoldsClaim(n, c) ==
    /\ <<c[1], c[2]>> \in unique
    /\ \E v \in Scalar : uniqueValue[v] = c[3] /\ Has(n, c[1], c[2], v)

\* Under a unique constraint, and only there, the owner of a canonical value
\* is the node that holds it: claims are released by every path that takes
\* the value away and taken by every path that gives it.
OwnersExact ==
    \A c \in Claim : c[3] # Nil =>
        \A n \in NodeId : owner[c] = n <=> HoldsClaim(n, c)

\* No two nodes hold equal values under a unique constraint, whichever way
\* they got label and value, before or after the constraint was created.
UniqueValues ==
    \A c \in Claim, n, m \in NodeId :
        c[3] # Nil /\ HoldsClaim(n, c) /\ HoldsClaim(m, c) => n = m

\* Edge e is live and goes from s to d with type t.
Joins(e, s, t, d) ==
    e \in DOMAIN edge /\ edge[e].src = s /\ edge[e].type = t /\ edge[e].dst = d

\* Both adjacency views list exactly the live edges (Invariant #4), so a
\* traversal sees the same edges in either direction.
AdjacencyExact ==
    \A s, d \in NodeId, t \in Type, e \in EdgeId :
        /\ <<s, t, d, e>> \in outAdj <=> Joins(e, s, t, d)
        /\ <<d, t, s, e>> \in inAdj <=> Joins(e, s, t, d)

\* Every edge joins two live nodes: DeleteNode refuses a node with edges and
\* DETACH DELETE removes them all, self-loops included.
NoDanglingEdges ==
    \A e \in DOMAIN edge : edge[e].src \in DOMAIN node /\ edge[e].dst \in DOMAIN node

\* A relationship index lists exactly the live edges with the value.
RelIndexExact ==
    \A x \in RelEntry : \A e \in EdgeId :
        e \in relIx[x] <=> /\ RelIndexed(x)
                           /\ e \in DOMAIN edge
                           /\ x \in RelEntriesOf(edge[e])

\* A constraint always has the index putPropEntry looks for before it claims,
\* and only constraints own indexes: DROP INDEX cannot take it away.
ConstraintsBacked == unique \subseteq index /\ ownsIndex \subseteq unique

\* Whatever order of SET, REMOVE, label changes, deletions and index
\* statements led here, every index lists what the records say: the l, p and
\* relationship-index keys of putNodeIndexes, putPropEntry, putRelPropEntry.
IndexesExact == LabelIndexExact /\ PropIndexExact /\ RelIndexExact

\* A unique constraint holds, and what keeps it holding is in place: exact
\* owners (claimValue, delPropEntry) and an index nothing can drop.
ConstraintsKept == UniqueValues /\ OwnersExact /\ ConstraintsBacked

\* Edges hang on live nodes, and a traversal finds them from both ends
\* (CreateEdge, DeleteNode, DetachDeleteNode).
EdgesListed == NoDanglingEdges /\ AdjacencyExact

\* The counters never go back, and an identifier that was given out and is
\* gone does not come back ...
IdsKept ==
    /\ lastNode' >= lastNode /\ lastEdge' >= lastEdge
    /\ \A n \in NodeId : n <= lastNode /\ n \notin DOMAIN node => n \notin DOMAIN node'
    /\ \A e \in EdgeId : e <= lastEdge /\ e \notin DOMAIN edge => e \notin DOMAIN edge'

\* ... in any step: nextCounter only counts up, so a stale identifier a caller
\* still holds can never denote a newer node or edge.
IdsNeverReused == [][IdsKept]_vars

----------------------------------------------------------------------------
Abstract == INSTANCE PropertyGraph

\* The key families implement the property graph: every operation of crud.go
\* and unique.go is one of its statements, and none leaves the graph illegal,
\* although no operation ever looks at the whole graph.
RefinesPropertyGraph == Abstract!Spec
=============================================================================
