---------------------------- MODULE EngineProofs ----------------------------
(***************************************************************************)
(* The graph's records and indexes (Graph), for every set of labels, keys, *)
(* types and values and every bound; and the names of a query (Scopes),    *)
(* for every set of clauses.                                               *)
(*                                                                         *)
(* All node operations change the indexes through UpdatePropEntries, so    *)
(* two lemmas about it carry the argument for Graph: an operation only has *)
(* to show that the entries it deletes and puts are the difference between *)
(* the old record and the new one.                                         *)
(***************************************************************************)
EXTENDS Graph, Scopes, TLAPS

USE DEF NoOwner

\* The inductive invariant.  UniqueValues is not inductive without the exact
\* owners, and those need the index behind every constraint.
Inv ==
    /\ TypeOK
    /\ LabelIndexExact
    /\ PropIndexExact
    /\ OwnersExact
    /\ AdjacencyExact
    /\ NoDanglingEdges
    /\ RelIndexExact
    /\ ConstraintsBacked

----------------------------------------------------------------------------
\* A step rewrites the record of n at most.
OthersKept(n) ==
    \A m \in NodeId \ {n} :
        /\ m \in DOMAIN node' <=> m \in DOMAIN node
        /\ m \in DOMAIN node => node'[m] = node[m]

\* The entries of n after the step are the old ones without del, and put.
Delta(n, del, put) ==
    /\ del \subseteq Entry /\ put \subseteq Entry
    /\ \A x \in del : Has(n, x[1], x[2], x[3])
    /\ \A x \in Entry : x[3] # Nil =>
           (Has(n, x[1], x[2], x[3])' <=> x \in put \/ (Has(n, x[1], x[2], x[3]) /\ x \notin del))

\* UpdatePropEntries keeps the types of the two tables.
LEMMA UpdateTypes ==
    ASSUME TypeOK, NEW n \in NodeId, NEW del, NEW put, UpdatePropEntries(n, del, put)
    PROVE  propIx' \in [Entry -> SUBSET NodeId] /\ owner' \in [Claim -> NodeId \cup {NoOwner}]
  BY Zenon DEF TypeOK, UpdatePropEntries, Released

\* A node that the step does not rewrite has what it had.
LEMMA OthersHave ==
    ASSUME NEW n \in NodeId, OthersKept(n), NEW m \in NodeId, m # n
    PROVE  \A l, k, v : Has(m, l, k, v)' <=> Has(m, l, k, v)
  BY Zenon DEF OthersKept, Has

\* delPropEntry of the entries lost and putPropEntry of the entries gained
\* keep the property index exact.
LEMMA UpdateKeepsPropIndex ==
    ASSUME TypeOK, PropIndexExact, NEW n \in NodeId, NEW del, NEW put,
           UpdatePropEntries(n, del, put), UNCHANGED index,
           OthersKept(n), Delta(n, del, put)
    PROVE  PropIndexExact'
<1> SUFFICES ASSUME NEW x \in Entry, x[3] # Nil, NEW m \in NodeId
             PROVE  m \in propIx'[x] <=> Indexed(x) /\ Has(m, x[1], x[2], x[3])'
  BY Zenon DEF PropIndexExact, Indexed
<1>1. m \in propIx[x] <=> Indexed(x) /\ Has(m, x[1], x[2], x[3])
  BY Zenon DEF PropIndexExact
<1>2. CASE m # n
  <2>1. m \in propIx'[x] <=> m \in propIx[x]
    BY Zenon, <1>2 DEF UpdatePropEntries
  <2> QED BY Zenon, <1>1, <1>2, <2>1, OthersHave
<1>3. CASE m = n
  <2>1. n \in propIx'[x] <=> (Indexed(x) /\ x \in put) \/ (n \in propIx[x] /\ ~(x \in del /\ Indexed(x)))
    BY Zenon DEF UpdatePropEntries
  <2> QED BY Zenon, <1>1, <1>3, <2>1 DEF Delta
<1> QED BY Zenon, <1>2, <1>3

\* The same update keeps the owners exact: a claim on a value somebody else
\* holds is refused, and a value the node keeps is not released.
LEMMA UpdateKeepsOwners ==
    ASSUME TypeOK, OwnersExact, ConstraintsBacked, NEW n \in NodeId, NEW del, NEW put,
           UpdatePropEntries(n, del, put), UNCHANGED <<index, unique>>,
           OthersKept(n), Delta(n, del, put)
    PROVE  OwnersExact'
<1> SUFFICES ASSUME NEW c \in Claim, c[3] # Nil, NEW m \in NodeId
             PROVE  owner'[c] = m <=> HoldsClaim(m, c)'
  BY Zenon DEF OwnersExact
<1>1. owner[c] = m <=> HoldsClaim(m, c)
  BY Zenon DEF OwnersExact
<1>n. owner[c] = n <=> HoldsClaim(n, c)
  BY Zenon DEF OwnersExact
<1>2. n # NoOwner /\ m # NoOwner
  BY BoundAssumption DEF NodeId
<1>3. \A x \in put : Claims(x, c) => Released(n, del)[c] \in {NoOwner, n}
  BY Zenon DEF UpdatePropEntries
<1>4. owner'[c] = IF \E x \in put : Claims(x, c) THEN n ELSE Released(n, del)[c]
  BY Zenon DEF UpdatePropEntries
<1>5. Released(n, del)[c] = IF owner[c] = n /\ \E x \in del : Claims(x, c) THEN NoOwner ELSE owner[c]
  BY Zenon DEF Released
<1>6. CASE m # n
  <2>1. HoldsClaim(m, c)' <=> HoldsClaim(m, c)
    BY Zenon, <1>6, OthersHave DEF HoldsClaim
  <2> QED BY Zenon, <1>1, <1>2, <1>3, <1>4, <1>5, <1>6, <2>1
<1>7. CASE m = n
  <2>1. \A v \in Scalar : uniqueValue[v] = c[3] /\ <<c[1], c[2]>> \in unique
            => <<c[1], c[2], v>> \in Entry /\ Claims(<<c[1], c[2], v>>, c)
    BY DEF Entry, Claim, Claims, Indexed, Indexable, ConstraintsBacked
  <2>2. \A x \in Entry : Claims(x, c) =>
            /\ x[3] \in Scalar /\ x[3] # Nil /\ uniqueValue[x[3]] = c[3]
            /\ <<c[1], c[2]>> \in unique /\ x[1] = c[1] /\ x[2] = c[2]
    BY FormAssumption DEF Entry, Claim, Claims, Indexed, Indexable
  <2>3. ASSUME \E x \in put : Claims(x, c)
        PROVE  HoldsClaim(n, c)'
    <3>1. PICK x \in put : Claims(x, c)
      BY Zenon, <2>3
    <3>2. x \in Entry
      BY Zenon DEF Delta
    <3> QED BY Zenon, <2>2, <3>1, <3>2 DEF Delta, HoldsClaim
  <2>4. ASSUME Released(n, del)[c] = n
        PROVE  HoldsClaim(n, c)'
    <3>1. owner[c] = n /\ ~ \E x \in del : Claims(x, c)
      BY Zenon, <1>2, <1>5, <2>4
    <3>2. PICK v \in Scalar : uniqueValue[v] = c[3] /\ Has(n, c[1], c[2], v)
      BY Zenon, <1>n, <3>1 DEF HoldsClaim
    <3>3. <<c[1], c[2]>> \in unique
      BY Zenon, <1>n, <3>1 DEF HoldsClaim
    <3>4. <<c[1], c[2], v>> \in Entry \ del /\ v # Nil
      BY Zenon, <2>1, <3>1, <3>2, <3>3 DEF Has
    <3>5. Has(n, c[1], c[2], v)'
      BY Zenon, <3>2, <3>4 DEF Delta
    <3> QED BY Zenon, <3>2, <3>3, <3>5 DEF HoldsClaim
  <2>5. ASSUME HoldsClaim(n, c)'
        PROVE  owner'[c] = n
    <3>1. PICK v \in Scalar : uniqueValue[v] = c[3] /\ Has(n, c[1], c[2], v)'
      BY Zenon, <2>5 DEF HoldsClaim
    <3>2. <<c[1], c[2]>> \in unique
      BY Zenon, <2>5 DEF HoldsClaim
    <3> DEFINE x == <<c[1], c[2], v>>
    <3>3. x \in Entry /\ Claims(x, c) /\ v # Nil
      BY Zenon, <2>1, <3>1, <3>2 DEF Has
    <3>4. CASE x \in put
      BY Zenon, <1>4, <3>3, <3>4
    <3>5. CASE x \notin put
      <4>1. Has(n, c[1], c[2], v) /\ x \notin del
        BY Zenon, <3>1, <3>3, <3>5 DEF Delta
      <4>2. owner[c] = n
        BY Zenon, <1>n, <3>1, <3>2, <4>1 DEF HoldsClaim
      <4>3. ASSUME NEW y \in del, Claims(y, c)
            PROVE  FALSE
        <5>1. y \in Entry /\ Has(n, y[1], y[2], y[3])
          BY Zenon DEF Delta
        <5>2. y[1] = c[1] /\ y[2] = c[2] /\ y[3] = v
          BY Zenon, <2>2, <4>1, <4>3, <5>1 DEF Has
        <5>3. y = x
          BY <5>1, <5>2 DEF Entry
        <5> QED BY Zenon, <4>1, <5>3
      <4> QED BY Zenon, <1>4, <1>5, <4>2, <4>3
    <3> QED BY Zenon, <3>4, <3>5
  <2> QED BY Zenon, <1>4, <1>7, <2>3, <2>4, <2>5
<1> QED BY Zenon, <1>6, <1>7

----------------------------------------------------------------------------
(* One step per operation.                                                 *)

\* An identifier of the label index is that of n, or untouched.
LabelsOf(n, ls) ==
    /\ labelIx' \subseteq Label \X NodeId
    /\ \A l \in Label, m \in NodeId :
           <<l, m>> \in labelIx' <=> IF m = n THEN l \in ls ELSE <<l, m>> \in labelIx

\* Operations that leave the edges alone leave the adjacency exact.
LEMMA AdjacencyKept ==
    ASSUME AdjacencyExact, UNCHANGED edgeVars
    PROVE  AdjacencyExact'
<1>1. edge' = edge /\ outAdj' = outAdj /\ inAdj' = inAdj
  BY Zenon DEF edgeVars
<1> SUFFICES ASSUME NEW s \in NodeId, NEW d \in NodeId, NEW t \in Type, NEW e \in EdgeId
             PROVE  /\ <<s, t, d, e>> \in outAdj' <=> Joins(e, s, t, d)'
                    /\ <<d, t, s, e>> \in inAdj' <=> Joins(e, s, t, d)'
  BY Zenon DEF AdjacencyExact
<1>2. Joins(e, s, t, d)' <=> Joins(e, s, t, d)
  BY Zenon, <1>1 DEF Joins
<1> QED BY Zenon, <1>1, <1>2 DEF AdjacencyExact

\* Every operation that stores a record for node n, old or new, and brings the
\* label index and the entries in line with it, keeps the invariant.
LEMMA StoreKeepsInv ==
    ASSUME Inv, NEW n \in NodeId, NEW rec \in NodeRecord, NEW del, NEW put,
           putNodeRecord(n, rec), LabelsOf(n, rec.labels),
           UpdatePropEntries(n, del, put), Delta(n, del, put),
           UNCHANGED edgeVars, UNCHANGED registryVars, UNCHANGED lastEdge,
           lastNode' \in 0..MaxNode, lastNode <= lastNode', n <= lastNode'
    PROVE  Inv'
<1> USE DEF Inv
<1>1. OthersKept(n)
  BY Zenon DEF OthersKept, putNodeRecord
<1>2. DOMAIN node' = DOMAIN node \cup {n} /\ node'[n] = rec
  BY Zenon DEF putNodeRecord
<1>3. TypeOK'
  <2>1. node' \in [DOMAIN node' -> NodeRecord] /\ DOMAIN node' \subseteq NodeId
    BY Zenon, <1>2 DEF TypeOK, putNodeRecord
  <2>2. \A m \in DOMAIN node' : m <= lastNode'
    BY <1>2, BoundAssumption DEF TypeOK, NodeId
  <2> QED BY Zenon, <2>1, <2>2, UpdateTypes DEF TypeOK, edgeVars, registryVars, LabelsOf
<1>4. LabelIndexExact'
  BY Zenon, <1>1, <1>2 DEF LabelIndexExact, LabelsOf, OthersKept
<1>5. PropIndexExact'
  BY Zenon, <1>1, UpdateKeepsPropIndex DEF registryVars
<1>6. OwnersExact'
  BY Zenon, <1>1, UpdateKeepsOwners DEF registryVars
<1>7. AdjacencyExact'
  BY Zenon, AdjacencyKept
<1>8. NoDanglingEdges'
  BY Zenon, <1>2 DEF NoDanglingEdges, edgeVars
<1>9. RelIndexExact'
  BY Zenon DEF RelIndexExact, RelIndexed, RelEntriesOf, edgeVars, registryVars
<1>10. ConstraintsBacked'
  BY Zenon DEF ConstraintsBacked, registryVars
<1> QED BY Zenon, <1>3, <1>4, <1>5, <1>6, <1>7, <1>8, <1>9, <1>10

\* The entries of a record are those of its labels and non-null scalars.
LEMMA EntriesHave ==
    ASSUME NEW n \in DOMAIN node, NEW ks \in SUBSET Key, NEW ls \in SUBSET Label,
           ls \subseteq node[n].labels
    PROVE  \A x \in Entry : x \in EntriesOf(node[n], ls, ks) <=>
               x[1] \in ls /\ x[2] \in ks /\ Has(n, x[1], x[2], x[3])
  BY Zenon DEF EntriesOf, Has

\* CreateNode keeps the invariant.
LEMMA CreateNodeKeepsInv ==
    ASSUME Inv, NEW labels \in SUBSET Label, NEW props \in Props, CreateNode(labels, props)
    PROVE  Inv'
<1>0. PICK n \in NodeId : n = lastNode + 1
  BY BoundAssumption DEF Inv, TypeOK, NodeId, CreateNode
<1> DEFINE rec == [labels |-> labels, props |-> props]
           put == EntriesOf(rec, labels, Key)
<1>1. n \notin DOMAIN node /\ n <= lastNode' /\ lastNode' \in 0..MaxNode
  BY <1>0, BoundAssumption DEF Inv, TypeOK, NodeId, CreateNode
<1>2. rec \in NodeRecord
  BY Zenon DEF NodeRecord
<1>3. putNodeRecord(n, rec) /\ UpdatePropEntries(n, {}, put)
  BY Zenon, <1>0 DEF CreateNode
<1>4. LabelsOf(n, rec.labels)
  BY Zenon, <1>0, <1>1 DEF LabelsOf, CreateNode, Inv, TypeOK, LabelIndexExact
<1>5. Delta(n, {}, put)
  <2>1. node'[n] = rec /\ n \in DOMAIN node'
    BY Zenon, <1>3 DEF putNodeRecord
  <2>2. \A x \in Entry : ~Has(n, x[1], x[2], x[3])
    BY Zenon, <1>1 DEF Has
  <2>3. \A x \in Entry : Has(n, x[1], x[2], x[3])' <=> x \in put
    BY <2>1 DEF Has, EntriesOf, Entry
  <2> QED BY Zenon, <2>2, <2>3 DEF Delta, EntriesOf
<1>6. UNCHANGED <<edgeVars, registryVars, lastEdge>> /\ lastNode <= lastNode'
  BY DEF CreateNode, Inv, TypeOK
<1> QED BY Zenon, <1>1, <1>2, <1>3, <1>4, <1>5, <1>6, StoreKeepsInv

\* The operations that rewrite the record of a live node.
LEMMA RewriteKeepsInv ==
    ASSUME Inv, NEW n \in DOMAIN node, NEW rec \in NodeRecord, NEW del, NEW put,
           putNodeRecord(n, rec), LabelsOf(n, rec.labels),
           UpdatePropEntries(n, del, put), Delta(n, del, put),
           UNCHANGED edgeVars, UNCHANGED registryVars, UNCHANGED <<lastNode, lastEdge>>
    PROVE  Inv'
<1>1. n \in NodeId /\ n <= lastNode' /\ lastNode' \in 0..MaxNode /\ lastNode <= lastNode'
  BY BoundAssumption DEF Inv, TypeOK
<1> QED BY Zenon, <1>1, StoreKeepsInv

\* SetProperty keeps the invariant.
LEMMA SetPropertyKeepsInv ==
    ASSUME Inv, NEW n \in NodeId, NEW k \in Key, NEW v \in Value \cup {Nil}, SetProperty(n, k, v)
    PROVE  Inv'
<1> DEFINE rec == [node[n] EXCEPT !.props[k] = v]
           del == EntriesOf(node[n], node[n].labels, {k})
           put == {x \in Entry : x[1] \in node[n].labels /\ x[2] = k /\ x[3] = v}
<1>1. n \in DOMAIN node /\ node[n] \in NodeRecord
  BY Zenon DEF SetProperty, Inv, TypeOK
<1>2. rec \in NodeRecord /\ rec.labels = node[n].labels
      /\ \A j \in Key : rec.props[j] = IF j = k THEN v ELSE node[n].props[j]
  BY Zenon, <1>1 DEF NodeRecord, Props
<1>3. putNodeRecord(n, rec) /\ UpdatePropEntries(n, del, put)
  BY Zenon DEF SetProperty
<1>4. LabelsOf(n, rec.labels)
  BY Zenon, <1>1, <1>2 DEF LabelsOf, SetProperty, Inv, TypeOK, LabelIndexExact
<1>5. Delta(n, del, put)
  <2>1. node'[n] = rec /\ n \in DOMAIN node'
    BY Zenon, <1>3 DEF putNodeRecord
  <2>2. node[n].labels \subseteq Label
    BY Zenon, <1>1 DEF NodeRecord
  <2>3. \A x \in Entry : x \in del <=> x[2] = k /\ Has(n, x[1], x[2], x[3])
    BY <1>1, <2>2, EntriesHave DEF Has, Entry
  <2>4. \A x \in Entry : x[3] # Nil => (Has(n, x[1], x[2], x[3])'
            <=> x \in put \/ (Has(n, x[1], x[2], x[3]) /\ x[2] # k))
    BY Zenon, <1>1, <1>2, <2>1 DEF Has, Entry
  <2> QED BY Zenon, <2>3, <2>4 DEF Delta, EntriesOf
<1> QED BY Zenon, <1>1, <1>2, <1>3, <1>4, <1>5, RewriteKeepsInv DEF SetProperty

\* RemoveProperty keeps the invariant.
LEMMA RemovePropertyKeepsInv ==
    ASSUME Inv, NEW n \in NodeId, NEW k \in Key, RemoveProperty(n, k)
    PROVE  Inv'
<1> DEFINE rec == [node[n] EXCEPT !.props[k] = Nil]
           del == EntriesOf(node[n], node[n].labels, {k})
<1>1. n \in DOMAIN node /\ node[n] \in NodeRecord
  BY Zenon DEF RemoveProperty, Inv, TypeOK
<1>2. rec \in NodeRecord /\ rec.labels = node[n].labels
      /\ \A j \in Key : rec.props[j] = IF j = k THEN Nil ELSE node[n].props[j]
  BY Zenon, <1>1 DEF NodeRecord, Props
<1>3. putNodeRecord(n, rec) /\ UpdatePropEntries(n, del, {})
  BY Zenon DEF RemoveProperty
<1>4. LabelsOf(n, rec.labels)
  BY Zenon, <1>1, <1>2 DEF LabelsOf, RemoveProperty, Inv, TypeOK, LabelIndexExact
<1>5. Delta(n, del, {})
  <2>1. node'[n] = rec /\ n \in DOMAIN node'
    BY Zenon, <1>3 DEF putNodeRecord
  <2>2. node[n].labels \subseteq Label
    BY Zenon, <1>1 DEF NodeRecord
  <2>3. \A x \in Entry : x \in del <=> x[2] = k /\ Has(n, x[1], x[2], x[3])
    BY <1>1, <2>2, EntriesHave DEF Has, Entry
  <2>4. \A x \in Entry : x[3] # Nil => (Has(n, x[1], x[2], x[3])'
            <=> Has(n, x[1], x[2], x[3]) /\ x[2] # k)
    BY Zenon, <1>1, <1>2, <2>1 DEF Has, Entry
  <2> QED BY Zenon, <2>3, <2>4 DEF Delta, EntriesOf
<1> QED BY Zenon, <1>1, <1>2, <1>3, <1>4, <1>5, RewriteKeepsInv DEF RemoveProperty

\* AddLabels keeps the invariant.
LEMMA AddLabelsKeepsInv ==
    ASSUME Inv, NEW n \in NodeId, NEW labels \in SUBSET Label, AddLabels(n, labels)
    PROVE  Inv'
<1> DEFINE added == labels \ node[n].labels
           rec == [node[n] EXCEPT !.labels = @ \cup added]
           put == EntriesOf(node[n], added, Key)
<1>1. n \in DOMAIN node /\ node[n] \in NodeRecord
  BY Zenon DEF AddLabels, Inv, TypeOK
<1>2. rec \in NodeRecord /\ rec.labels = node[n].labels \cup added /\ rec.props = node[n].props
  BY Zenon, <1>1 DEF NodeRecord
<1>3. putNodeRecord(n, rec) /\ UpdatePropEntries(n, {}, put)
  BY Zenon DEF AddLabels
<1>4. LabelsOf(n, rec.labels)
  BY Zenon, <1>1, <1>2 DEF LabelsOf, AddLabels, Inv, TypeOK, LabelIndexExact
<1>5. Delta(n, {}, put)
  <2>1. node'[n] = rec /\ n \in DOMAIN node'
    BY Zenon, <1>3 DEF putNodeRecord
  <2>2. \A x \in Entry : x[3] # Nil => (Has(n, x[1], x[2], x[3])'
            <=> x \in put \/ Has(n, x[1], x[2], x[3]))
    BY Zenon, <1>1, <1>2, <2>1 DEF Has, Entry, EntriesOf
  <2> QED BY Zenon, <2>2 DEF Delta, EntriesOf
<1> QED BY Zenon, <1>1, <1>2, <1>3, <1>4, <1>5, RewriteKeepsInv DEF AddLabels

\* RemoveLabels keeps the invariant.
LEMMA RemoveLabelsKeepsInv ==
    ASSUME Inv, NEW n \in NodeId, NEW labels \in SUBSET Label, RemoveLabels(n, labels)
    PROVE  Inv'
<1> DEFINE removed == labels \cap node[n].labels
           rec == [node[n] EXCEPT !.labels = @ \ removed]
           del == EntriesOf(node[n], removed, Key)
<1>1. n \in DOMAIN node /\ node[n] \in NodeRecord
  BY Zenon DEF RemoveLabels, Inv, TypeOK
<1>2. rec \in NodeRecord /\ rec.labels = node[n].labels \ removed /\ rec.props = node[n].props
  BY Zenon, <1>1 DEF NodeRecord
<1>3. putNodeRecord(n, rec) /\ UpdatePropEntries(n, del, {})
  BY Zenon DEF RemoveLabels
<1>4. LabelsOf(n, rec.labels)
  BY Zenon, <1>1, <1>2 DEF LabelsOf, RemoveLabels, Inv, TypeOK, LabelIndexExact
<1>5. Delta(n, del, {})
  <2>1. node'[n] = rec /\ n \in DOMAIN node'
    BY Zenon, <1>3 DEF putNodeRecord
  <2>3. \A x \in Entry : x \in del <=> x[1] \in removed /\ Has(n, x[1], x[2], x[3])
    BY <1>1, EntriesHave DEF Has, Entry
  <2>4. \A x \in Entry : x[3] # Nil => (Has(n, x[1], x[2], x[3])'
            <=> Has(n, x[1], x[2], x[3]) /\ x[1] \notin removed)
    BY Zenon, <1>1, <1>2, <2>1 DEF Has, Entry
  <2> QED BY Zenon, <2>3, <2>4 DEF Delta, EntriesOf
<1> QED BY Zenon, <1>1, <1>2, <1>3, <1>4, <1>5, RewriteKeepsInv DEF RemoveLabels

\* SetNodeProperties keeps the invariant.
LEMMA SetNodePropertiesKeepsInv ==
    ASSUME Inv, NEW n \in NodeId, NEW given \in SUBSET Key, NEW desired \in Props,
           NEW replace \in BOOLEAN, SetNodeProperties(n, given, desired, replace)
    PROVE  Inv'
<1> DEFINE touched == IF replace THEN Key ELSE given
           props == [k \in Key |-> IF k \in given THEN desired[k]
                                   ELSE IF replace THEN Nil ELSE node[n].props[k]]
           rec == [node[n] EXCEPT !.props = props]
           changed == {k \in touched : ~sameValue(node[n].props[k], rec.props[k])}
           del == EntriesOf(node[n], node[n].labels, changed)
           put == EntriesOf(rec, node[n].labels, Key)
<1>1. n \in DOMAIN node /\ node[n] \in NodeRecord
  BY Zenon DEF SetNodeProperties, Inv, TypeOK
<1>2. rec \in NodeRecord /\ rec.labels = node[n].labels /\ rec.props = props
  BY Zenon, <1>1 DEF NodeRecord, Props
<1>3. putNodeRecord(n, rec) /\ UpdatePropEntries(n, del, put)
  BY Zenon DEF SetNodeProperties
<1>4. LabelsOf(n, rec.labels)
  BY Zenon, <1>1, <1>2 DEF LabelsOf, SetNodeProperties, Inv, TypeOK, LabelIndexExact
<1>5. Delta(n, del, put)
  <2>1. node'[n] = rec /\ n \in DOMAIN node'
    BY Zenon, <1>3 DEF putNodeRecord
  <2>2. node[n].labels \subseteq Label /\ changed \subseteq Key
    BY Zenon, <1>1 DEF NodeRecord
  <2>3. \A x \in Entry : x \in del <=> x[2] \in changed /\ Has(n, x[1], x[2], x[3])
    <3> HIDE DEF changed
    <3> QED BY <1>1, <2>2, EntriesHave DEF Has, Entry
  <2>4. \A x \in Entry : Has(n, x[1], x[2], x[3])' <=> x \in put
    BY Zenon, <1>2, <2>1 DEF Has, Entry, EntriesOf
  <2>5. \A x \in Entry : Has(n, x[1], x[2], x[3]) /\ x[2] \notin changed
            => rec.props[x[2]] = node[n].props[x[2]]
    <3> SUFFICES ASSUME NEW k \in Key, k \notin changed
                 PROVE  props[k] = node[n].props[k]
      BY Zenon, <1>2 DEF Has, Entry
    <3>1. CASE k \in touched
      BY Zenon, <1>2, <3>1 DEF sameValue
    <3>2. CASE k \notin touched
      BY Zenon, <3>2
    <3> QED BY Zenon, <3>1, <3>2
  <2>6. \A x \in Entry : Has(n, x[1], x[2], x[3]) /\ x \notin del => x \in put
    BY Zenon, <2>3, <2>5 DEF EntriesOf, Has, Entry
  <2> QED BY Zenon, <2>3, <2>4, <2>6 DEF Delta, EntriesOf
<1> QED BY Zenon, <1>1, <1>2, <1>3, <1>4, <1>5, RewriteKeepsInv DEF SetNodeProperties

\* What taking a node away does to the node tables.
LEMMA RemoveNodeKeeps ==
    ASSUME Inv, NEW n \in DOMAIN node, removeNode(n)
    PROVE  /\ DOMAIN node' = DOMAIN node \ {n}
           /\ node' \in [DOMAIN node' -> NodeRecord]
           /\ labelIx' \subseteq Label \X NodeId
           /\ propIx' \in [Entry -> SUBSET NodeId]
           /\ owner' \in [Claim -> NodeId \cup {NoOwner}]
           /\ LabelIndexExact' /\ PropIndexExact' /\ OwnersExact' /\ ConstraintsBacked'
<1> USE DEF Inv
<1> DEFINE del == EntriesOf(node[n], node[n].labels, Key)
<1>1. n \in NodeId /\ node[n] \in NodeRecord
  BY Zenon DEF TypeOK
<1>2. DOMAIN node' = DOMAIN node \ {n} /\ node' \in [DOMAIN node' -> NodeRecord]
  BY Zenon DEF removeNode, TypeOK
<1>3. UpdatePropEntries(n, del, {})
  BY Zenon DEF removeNode
<1>4. OthersKept(n)
  BY Zenon DEF OthersKept, removeNode
<1>5. Delta(n, del, {})
  <2>1. node[n].labels \subseteq Label
    BY Zenon, <1>1 DEF NodeRecord
  <2>2. \A x \in Entry : x \in del <=> Has(n, x[1], x[2], x[3])
    BY <2>1, EntriesHave DEF Has, Entry
  <2>3. \A x \in Entry : ~Has(n, x[1], x[2], x[3])'
    BY Zenon, <1>2 DEF Has
  <2> QED BY Zenon, <2>2, <2>3 DEF Delta, EntriesOf
<1>6. LabelIndexExact'
  <2> SUFFICES ASSUME NEW l \in Label, NEW m \in NodeId
               PROVE  <<l, m>> \in labelIx' <=> m \in DOMAIN node' /\ l \in node'[m].labels
    BY Zenon DEF LabelIndexExact
  <2>1. <<l, m>> \in labelIx <=> m \in DOMAIN node /\ l \in node[m].labels
    BY Zenon DEF LabelIndexExact
  <2>2. <<l, m>> \in labelIx' <=> <<l, m>> \in labelIx /\ ~(l \in node[n].labels /\ m = n)
    BY Zenon DEF removeNode
  <2> QED BY Zenon, <1>2, <1>4, <2>1, <2>2 DEF OthersKept
<1>7. PropIndexExact'
  BY Zenon, <1>1, <1>3, <1>4, <1>5, UpdateKeepsPropIndex DEF removeNode, registryVars
<1>8. OwnersExact'
  BY Zenon, <1>1, <1>3, <1>4, <1>5, UpdateKeepsOwners DEF removeNode, registryVars
<1>9. labelIx' \subseteq Label \X NodeId
  BY Zenon DEF removeNode, TypeOK
<1> QED BY Zenon, <1>1, <1>2, <1>3, <1>6, <1>7, <1>8, <1>9, UpdateTypes
        DEF removeNode, registryVars, ConstraintsBacked

\* The incident edges the adjacency lists are all there are.
LEMMA IncidentEdges ==
    ASSUME Inv, NEW n \in NodeId
    PROVE  OutEdges(n) \cup InEdges(n)
               = {e \in DOMAIN edge : edge[e].src = n \/ edge[e].dst = n}
<1> USE DEF Inv
<1>1. ASSUME NEW e \in DOMAIN edge
      PROVE  e \in EdgeId /\ edge[e].src \in NodeId /\ edge[e].dst \in NodeId /\ edge[e].type \in Type
             /\ <<edge[e].src, edge[e].type, edge[e].dst, e>> \in outAdj
             /\ <<edge[e].dst, edge[e].type, edge[e].src, e>> \in inAdj
  BY DEF TypeOK, EdgeRecord, AdjacencyExact, Joins
<1>2. \A e \in EdgeId : e \in OutEdges(n) <=> e \in DOMAIN edge /\ edge[e].src = n
  <2> SUFFICES ASSUME NEW e \in EdgeId
               PROVE  e \in OutEdges(n) <=> e \in DOMAIN edge /\ edge[e].src = n
    BY Zenon
  <2>1. \A t \in Type, m \in NodeId : <<n, t, m, e>> \in outAdj <=> Joins(e, n, t, m)
    BY Zenon DEF AdjacencyExact
  <2>2. e \in OutEdges(n) <=> \E t \in Type, m \in NodeId : Joins(e, n, t, m)
    BY Zenon, <2>1 DEF OutEdges
  <2> QED BY Zenon, <1>1, <2>2 DEF Joins
<1>3. \A e \in EdgeId : e \in InEdges(n) <=> e \in DOMAIN edge /\ edge[e].dst = n
  <2> SUFFICES ASSUME NEW e \in EdgeId
               PROVE  e \in InEdges(n) <=> e \in DOMAIN edge /\ edge[e].dst = n
    BY Zenon
  <2>1. \A t \in Type, m \in NodeId : <<n, t, m, e>> \in inAdj <=> Joins(e, m, t, n)
    BY Zenon DEF AdjacencyExact
  <2>2. e \in InEdges(n) <=> \E t \in Type, m \in NodeId : Joins(e, m, t, n)
    BY Zenon, <2>1 DEF InEdges
  <2> QED BY Zenon, <1>1, <2>2 DEF Joins
<1> QED BY Zenon, <1>1, <1>2, <1>3 DEF OutEdges, InEdges

\* What taking edges away does to the edge tables.
LEMMA DeleteEdgesKeeps ==
    ASSUME Inv, NEW es, deleteEdges(es), UNCHANGED relIndex
    PROVE  /\ DOMAIN edge' = DOMAIN edge \ es
           /\ \A e \in DOMAIN edge' : edge'[e] = edge[e]
           /\ edge' \in [DOMAIN edge' -> EdgeRecord]
           /\ outAdj' \subseteq outAdj /\ inAdj' \subseteq inAdj
           /\ relIx' \in [RelEntry -> SUBSET EdgeId]
           /\ AdjacencyExact' /\ RelIndexExact'
<1> USE DEF Inv
<1>1. DOMAIN edge' = DOMAIN edge \ es /\ \A e \in DOMAIN edge' : edge'[e] = edge[e]
  BY Zenon DEF deleteEdges
<1>2. edge' \in [DOMAIN edge' -> EdgeRecord]
  BY Zenon DEF deleteEdges, TypeOK
<1>3. relIx' \in [RelEntry -> SUBSET EdgeId]
  BY Zenon DEF deleteEdges, TypeOK
<1>4. AdjacencyExact'
  <2> SUFFICES ASSUME NEW s \in NodeId, NEW d \in NodeId, NEW t \in Type, NEW e \in EdgeId
               PROVE  /\ <<s, t, d, e>> \in outAdj' <=> Joins(e, s, t, d)'
                      /\ <<d, t, s, e>> \in inAdj' <=> Joins(e, s, t, d)'
    BY Zenon DEF AdjacencyExact
  <2>1. <<s, t, d, e>> \in outAdj <=> Joins(e, s, t, d)
    BY Zenon DEF AdjacencyExact
  <2>2. <<d, t, s, e>> \in inAdj <=> Joins(e, s, t, d)
    BY Zenon DEF AdjacencyExact
  <2>3. Joins(e, s, t, d)' <=> Joins(e, s, t, d) /\ e \notin es
    BY Zenon, <1>1 DEF Joins
  <2>4. <<s, t, d, e>> \in outAdj' <=> <<s, t, d, e>> \in outAdj /\ ~(e \in es /\ Joins(e, s, t, d))
    BY Zenon DEF deleteEdges, outKey, Joins
  <2>5. <<d, t, s, e>> \in inAdj' <=> <<d, t, s, e>> \in inAdj /\ ~(e \in es /\ Joins(e, s, t, d))
    BY Zenon DEF deleteEdges, inKey, Joins
  <2> QED BY Zenon, <2>1, <2>2, <2>3, <2>4, <2>5
<1>5. RelIndexExact'
  <2> SUFFICES ASSUME NEW x \in RelEntry, NEW e \in EdgeId
               PROVE  e \in relIx'[x] <=> /\ RelIndexed(x)
                                          /\ e \in DOMAIN edge'
                                          /\ x \in RelEntriesOf(edge'[e])
    BY Zenon DEF RelIndexExact, RelIndexed, RelEntriesOf
  <2>1. e \in relIx[x] <=> RelIndexed(x) /\ e \in DOMAIN edge /\ x \in RelEntriesOf(edge[e])
    BY Zenon DEF RelIndexExact
  <2>2. e \in relIx'[x] <=> e \in relIx[x] /\ ~(e \in es /\ x \in RelEntriesOf(edge[e]) /\ RelIndexed(x))
    BY Zenon DEF deleteEdges
  <2> QED BY Zenon, <1>1, <2>1, <2>2
<1> QED BY Zenon, <1>1, <1>2, <1>3, <1>4, <1>5 DEF deleteEdges

\* DeleteNode keeps the invariant.
LEMMA DeleteNodeKeepsInv ==
    ASSUME Inv, NEW n \in NodeId, DeleteNode(n)
    PROVE  Inv'
<1> USE DEF Inv
<1>1. n \in DOMAIN node /\ removeNode(n) /\ UNCHANGED edgeVars
  BY Zenon DEF DeleteNode
<1>2. \A e \in DOMAIN edge : edge[e].src # n /\ edge[e].dst # n
  BY Zenon, IncidentEdges DEF DeleteNode, hasIncidentEdges
<1>3. TypeOK'
  BY Zenon, <1>1, RemoveNodeKeeps DEF TypeOK, removeNode, registryVars, edgeVars
<1>4. NoDanglingEdges'
  BY Zenon, <1>1, <1>2, RemoveNodeKeeps DEF NoDanglingEdges, edgeVars
<1>5. RelIndexExact'
  BY Zenon, <1>1 DEF RelIndexExact, RelIndexed, RelEntriesOf, edgeVars, removeNode, registryVars
<1> QED BY Zenon, <1>1, <1>3, <1>4, <1>5, RemoveNodeKeeps, AdjacencyKept

\* DetachDeleteNode keeps the invariant.
LEMMA DetachDeleteNodeKeepsInv ==
    ASSUME Inv, NEW n \in NodeId, DetachDeleteNode(n)
    PROVE  Inv'
<1> USE DEF Inv
<1> DEFINE es == OutEdges(n) \cup InEdges(n)
<1>1. n \in DOMAIN node /\ removeNode(n) /\ deleteEdges(es) /\ UNCHANGED relIndex
  BY Zenon DEF DetachDeleteNode, removeNode, registryVars
<1> HIDE DEF es
<1>2. \A e \in DOMAIN edge \ es : edge[e].src # n /\ edge[e].dst # n
  BY Zenon, IncidentEdges DEF es
<1>3. /\ DOMAIN edge' = DOMAIN edge \ es
      /\ \A e \in DOMAIN edge' : edge'[e] = edge[e]
      /\ edge' \in [DOMAIN edge' -> EdgeRecord]
      /\ outAdj' \subseteq outAdj /\ inAdj' \subseteq inAdj
      /\ relIx' \in [RelEntry -> SUBSET EdgeId]
      /\ AdjacencyExact' /\ RelIndexExact'
  BY Zenon, <1>1, DeleteEdgesKeeps
<1>4. TypeOK'
  BY Zenon, <1>1, <1>3, RemoveNodeKeeps DEF TypeOK, removeNode, registryVars
<1>5. NoDanglingEdges'
  BY Zenon, <1>1, <1>2, <1>3, RemoveNodeKeeps DEF NoDanglingEdges
<1> QED BY Zenon, <1>1, <1>3, <1>4, <1>5, RemoveNodeKeeps

\* The node tables as they were stay exact.
LEMMA NodeTablesKept ==
    ASSUME LabelIndexExact, PropIndexExact, OwnersExact, ConstraintsBacked,
           UNCHANGED nodeVars, UNCHANGED <<index, unique, ownsIndex>>
    PROVE  LabelIndexExact' /\ PropIndexExact' /\ OwnersExact' /\ ConstraintsBacked'
<1>1. \A m, l, k, v : Has(m, l, k, v)' <=> Has(m, l, k, v)
  BY Zenon DEF Has, nodeVars
<1>2. LabelIndexExact'
  BY Zenon DEF LabelIndexExact, nodeVars
<1>3. PropIndexExact'
  BY Zenon, <1>1 DEF PropIndexExact, Indexed, nodeVars
<1>4. OwnersExact'
  <2>1. \A n, c : HoldsClaim(n, c)' <=> HoldsClaim(n, c)
    BY Zenon, <1>1 DEF HoldsClaim
  <2> QED BY Zenon, <2>1 DEF OwnersExact, nodeVars
<1> QED BY Zenon, <1>2, <1>3, <1>4 DEF ConstraintsBacked

\* CreateEdge keeps the invariant.
LEMMA CreateEdgeKeepsInv ==
    ASSUME Inv, NEW type \in Type, NEW src \in NodeId, NEW dst \in NodeId, NEW props \in Props,
           CreateEdge(type, src, dst, props)
    PROVE  Inv'
<1> USE DEF Inv
<1>0. PICK e \in EdgeId : e = lastEdge + 1
  BY BoundAssumption DEF TypeOK, EdgeId, CreateEdge
<1> DEFINE rec == [type |-> type, src |-> src, dst |-> dst, props |-> props]
<1>1. e \notin DOMAIN edge /\ lastEdge' = e
  BY <1>0, BoundAssumption DEF TypeOK, EdgeId, CreateEdge
<1>2. /\ DOMAIN edge' = DOMAIN edge \cup {e}
      /\ edge'[e] = rec
      /\ \A f \in DOMAIN edge : edge'[f] = edge[f]
  BY Zenon, <1>0, <1>1 DEF CreateEdge
<1>3. rec \in EdgeRecord
  BY Zenon DEF EdgeRecord
<1>4. /\ outAdj' = outAdj \cup {<<src, type, dst, e>>}
      /\ inAdj' = inAdj \cup {<<dst, type, src, e>>}
  BY Zenon, <1>0 DEF CreateEdge, outKey, inKey
<1>5. relIx' = [x \in RelEntry |->
          relIx[x] \cup (IF x \in RelEntriesOf(rec) /\ RelIndexed(x) THEN {e} ELSE {})]
  BY Zenon, <1>0 DEF CreateEdge
<1>6. TypeOK'
  <2>1. edge' \in [DOMAIN edge' -> EdgeRecord] /\ DOMAIN edge' \subseteq EdgeId
    BY Zenon, <1>0, <1>2, <1>3 DEF TypeOK, CreateEdge
  <2>2. lastEdge' \in 0..MaxEdge /\ \A f \in DOMAIN edge' : f <= lastEdge'
    BY <1>0, <1>1, <1>2, BoundAssumption DEF TypeOK, EdgeId
  <2>3. relIx' \in [RelEntry -> SUBSET EdgeId]
    BY Zenon, <1>5 DEF TypeOK
  <2>4. outAdj' \subseteq NodeId \X Type \X NodeId \X EdgeId
        /\ inAdj' \subseteq NodeId \X Type \X NodeId \X EdgeId
    BY <1>4 DEF TypeOK
  <2> QED BY Zenon, <2>1, <2>2, <2>3, <2>4 DEF TypeOK, CreateEdge, nodeVars, registryVars
<1>7. AdjacencyExact'
  <2> SUFFICES ASSUME NEW s \in NodeId, NEW d \in NodeId, NEW t \in Type, NEW f \in EdgeId
               PROVE  /\ <<s, t, d, f>> \in outAdj' <=> Joins(f, s, t, d)'
                      /\ <<d, t, s, f>> \in inAdj' <=> Joins(f, s, t, d)'
    BY Zenon DEF AdjacencyExact
  <2>1. <<s, t, d, f>> \in outAdj <=> Joins(f, s, t, d)
    BY Zenon DEF AdjacencyExact
  <2>2. <<d, t, s, f>> \in inAdj <=> Joins(f, s, t, d)
    BY Zenon DEF AdjacencyExact
  <2>3. Joins(f, s, t, d)' <=> Joins(f, s, t, d) \/ (f = e /\ s = src /\ t = type /\ d = dst)
    BY <1>1, <1>2 DEF Joins
  <2> QED BY Zenon, <1>4, <2>1, <2>2, <2>3
<1>8. RelIndexExact'
  <2> SUFFICES ASSUME NEW x \in RelEntry, NEW f \in EdgeId
               PROVE  f \in relIx'[x] <=> /\ RelIndexed(x)
                                          /\ f \in DOMAIN edge'
                                          /\ x \in RelEntriesOf(edge'[f])
    BY Zenon DEF RelIndexExact, RelIndexed, RelEntriesOf, CreateEdge, registryVars
  <2>1. f \in relIx[x] <=> RelIndexed(x) /\ f \in DOMAIN edge /\ x \in RelEntriesOf(edge[f])
    BY Zenon DEF RelIndexExact
  <2>2. f \in relIx'[x] <=> f \in relIx[x] \/ (f = e /\ x \in RelEntriesOf(rec) /\ RelIndexed(x))
    BY Zenon, <1>5
  <2> QED BY Zenon, <1>1, <1>2, <2>1, <2>2
<1>9. NoDanglingEdges'
  BY Zenon, <1>2 DEF NoDanglingEdges, CreateEdge, nodeVars
<1>10. UNCHANGED nodeVars /\ UNCHANGED <<index, unique, ownsIndex>>
  BY Zenon DEF CreateEdge, registryVars
<1> QED BY Zenon, <1>6, <1>7, <1>8, <1>9, <1>10, NodeTablesKept

\* DeleteEdge keeps the invariant.
LEMMA DeleteEdgeKeepsInv ==
    ASSUME Inv, NEW e \in EdgeId, DeleteEdge(e)
    PROVE  Inv'
<1> USE DEF Inv
<1>1. deleteEdges({e}) /\ UNCHANGED nodeVars /\ UNCHANGED registryVars
      /\ UNCHANGED <<lastNode, lastEdge>>
  BY Zenon DEF DeleteEdge
<1>2. /\ DOMAIN edge' = DOMAIN edge \ {e}
      /\ \A f \in DOMAIN edge' : edge'[f] = edge[f]
      /\ edge' \in [DOMAIN edge' -> EdgeRecord]
      /\ outAdj' \subseteq outAdj /\ inAdj' \subseteq inAdj
      /\ relIx' \in [RelEntry -> SUBSET EdgeId]
      /\ AdjacencyExact' /\ RelIndexExact'
  BY Zenon, <1>1, DeleteEdgesKeeps DEF registryVars
<1>3. TypeOK'
  BY Zenon, <1>1, <1>2 DEF TypeOK, nodeVars, registryVars
<1>4. NoDanglingEdges'
  BY Zenon, <1>1, <1>2 DEF NoDanglingEdges, nodeVars
<1> QED BY Zenon, <1>1, <1>2, <1>3, <1>4, NodeTablesKept DEF registryVars

----------------------------------------------------------------------------
(* Indexes and constraints.                                                *)

\* The backfill lists what the records hold, the other pairs keep theirs.
LEMMA BackfillExact ==
    ASSUME Inv, NEW l \in Label, NEW k \in Key, <<l, k>> \notin index,
           index' = index \cup {<<l, k>>}, propIx' = backfilled(l, k), UNCHANGED node
    PROVE  propIx' \in [Entry -> SUBSET NodeId] /\ PropIndexExact'
<1> USE DEF Inv
<1>1. propIx' \in [Entry -> SUBSET NodeId]
  BY Zenon DEF backfilled, NodesByLabel, TypeOK
<1> SUFFICES ASSUME NEW x \in Entry, x[3] # Nil, NEW m \in NodeId
             PROVE  m \in propIx'[x] <=> Indexed(x)' /\ Has(m, x[1], x[2], x[3])'
  BY Zenon, <1>1 DEF PropIndexExact, Indexed
<1>2. m \in propIx[x] <=> Indexed(x) /\ Has(m, x[1], x[2], x[3])
  BY Zenon DEF PropIndexExact
<1>3. Has(m, x[1], x[2], x[3])' <=> Has(m, x[1], x[2], x[3])
  BY Zenon DEF Has
<1>4. CASE x[1] = l /\ x[2] = k
  <2>1. Indexed(x)' /\ ~Indexed(x)
    BY Zenon, <1>4 DEF Indexed
  <2>2. m \in propIx'[x] <=> m \in propIx[x] \/ (<<l, m>> \in labelIx /\ node[m].props[k] = x[3])
    BY Zenon, <1>4 DEF backfilled, NodesByLabel
  <2>3. Has(m, l, k, x[3]) <=> <<l, m>> \in labelIx /\ node[m].props[k] = x[3]
    BY Zenon DEF Has, LabelIndexExact
  <2> QED BY Zenon, <1>2, <1>3, <1>4, <2>1, <2>2, <2>3
<1>5. CASE ~(x[1] = l /\ x[2] = k)
  <2>1. Indexed(x)' <=> Indexed(x)
    BY Zenon, <1>5 DEF Indexed
  <2>2. propIx'[x] = propIx[x]
    BY Zenon, <1>5 DEF backfilled
  <2> QED BY Zenon, <1>2, <1>3, <2>1, <2>2
<1> QED BY Zenon, <1>4, <1>5

\* Dropping the entries of a pair with its registration leaves no entry.
LEMMA DropExact ==
    ASSUME Inv, NEW l \in Label, NEW k \in Key,
           index' = index \ {<<l, k>>}, propIx' = withoutEntries(l, k), UNCHANGED node
    PROVE  propIx' \in [Entry -> SUBSET NodeId] /\ PropIndexExact'
<1> USE DEF Inv
<1>1. propIx' \in [Entry -> SUBSET NodeId]
  BY Zenon DEF withoutEntries, TypeOK
<1> SUFFICES ASSUME NEW x \in Entry, x[3] # Nil, NEW m \in NodeId
             PROVE  m \in propIx'[x] <=> Indexed(x)' /\ Has(m, x[1], x[2], x[3])'
  BY Zenon, <1>1 DEF PropIndexExact, Indexed
<1>2. m \in propIx[x] <=> Indexed(x) /\ Has(m, x[1], x[2], x[3])
  BY Zenon DEF PropIndexExact
<1>3. Has(m, x[1], x[2], x[3])' <=> Has(m, x[1], x[2], x[3])
  BY Zenon DEF Has
<1>4. Indexed(x)' <=> Indexed(x) /\ ~(x[1] = l /\ x[2] = k)
  BY Zenon DEF Indexed
<1>5. propIx'[x] = IF x[1] = l /\ x[2] = k THEN {} ELSE propIx[x]
  BY Zenon DEF withoutEntries
<1> QED BY Zenon, <1>2, <1>3, <1>4, <1>5

\* Schema steps leave the records, the label index and the edges alone.
LEMMA SchemaFrame ==
    ASSUME Inv, UNCHANGED <<node, labelIx, lastNode, lastEdge>>, UNCHANGED edgeVars,
           UNCHANGED relIndex
    PROVE  /\ LabelIndexExact' /\ AdjacencyExact' /\ NoDanglingEdges' /\ RelIndexExact'
           /\ (/\ propIx' \in [Entry -> SUBSET NodeId]
               /\ owner' \in [Claim -> NodeId \cup {NoOwner}]
               /\ index' \subseteq Label \X Key
               /\ unique' \subseteq Label \X Key
               /\ ownsIndex' \subseteq Label \X Key) => TypeOK'
<1> USE DEF Inv
<1>1. LabelIndexExact' /\ NoDanglingEdges'
  BY Zenon DEF LabelIndexExact, NoDanglingEdges, edgeVars
<1>2. RelIndexExact'
  BY Zenon DEF RelIndexExact, RelIndexed, RelEntriesOf, edgeVars
<1>3. AdjacencyExact'
  BY Zenon, AdjacencyKept
<1> QED BY Zenon, <1>1, <1>2, <1>3 DEF TypeOK, edgeVars

\* With the registry of constraints and the records unchanged, so are the owners.
LEMMA OwnersKept ==
    ASSUME OwnersExact, UNCHANGED <<node, owner, unique>>
    PROVE  OwnersExact'
<1>1. \A n, c : HoldsClaim(n, c)' <=> HoldsClaim(n, c)
  BY Zenon DEF HoldsClaim, Has
<1> QED BY Zenon, <1>1 DEF OwnersExact

\* CreateIndex keeps the invariant.
LEMMA CreateIndexKeepsInv ==
    ASSUME Inv, NEW l \in Label, NEW k \in Key, CreateIndex(l, k)
    PROVE  Inv'
<1>1. propIx' \in [Entry -> SUBSET NodeId] /\ PropIndexExact'
  BY Zenon, BackfillExact DEF CreateIndex
<1>2. OwnersExact'
  BY Zenon, OwnersKept DEF Inv, CreateIndex
<1>3. ConstraintsBacked'
  BY Zenon DEF Inv, ConstraintsBacked, CreateIndex
<1>4. index' \subseteq Label \X Key
  BY DEF Inv, TypeOK, CreateIndex
<1> QED BY Zenon, <1>1, <1>2, <1>3, <1>4, SchemaFrame DEF Inv, TypeOK, CreateIndex

\* DropIndex keeps the invariant.
LEMMA DropIndexKeepsInv ==
    ASSUME Inv, NEW l \in Label, NEW k \in Key, DropIndex(l, k)
    PROVE  Inv'
<1>1. propIx' \in [Entry -> SUBSET NodeId] /\ PropIndexExact'
  BY Zenon, DropExact DEF DropIndex
<1>2. OwnersExact'
  BY Zenon, OwnersKept DEF Inv, DropIndex
<1>3. ConstraintsBacked'
  BY Zenon DEF Inv, ConstraintsBacked, DropIndex
<1>4. index' \subseteq Label \X Key
  BY Zenon DEF Inv, TypeOK, DropIndex
<1> QED BY Zenon, <1>1, <1>2, <1>3, <1>4, SchemaFrame DEF Inv, TypeOK, DropIndex

\* AddUniqueConstraint keeps the invariant.
LEMMA AddUniqueConstraintKeepsInv ==
    ASSUME Inv, NEW l \in Label, NEW k \in Key, AddUniqueConstraint(l, k)
    PROVE  Inv'
<1> USE DEF Inv
<1>1. propIx' \in [Entry -> SUBSET NodeId] /\ PropIndexExact'
  <2>1. CASE <<l, k>> \in index
    <3>1. UNCHANGED <<index, propIx, node>>
      BY Zenon, <2>1 DEF AddUniqueConstraint
    <3> QED BY Zenon, <3>1 DEF TypeOK, PropIndexExact, Indexed, Has
  <2>2. CASE <<l, k>> \notin index
    BY Zenon, <2>2, BackfillExact DEF AddUniqueConstraint
  <2> QED BY Zenon, <2>1, <2>2
<1>2. ASSUME NEW c \in Claim, c[1] = l, c[2] = k
      PROVE  \A n \in NodeId : n \in Holders(c) <=>
                 \E v \in Scalar : uniqueValue[v] = c[3] /\ Has(n, l, k, v)
  <2>1. \A n \in NodeId : <<l, n>> \in labelIx <=> n \in DOMAIN node /\ l \in node[n].labels
    BY Zenon DEF LabelIndexExact
  <2>2. \A v \in Scalar : v # Nil
    BY Zenon, ValueAssumption DEF Value
  <2> QED BY Zenon, <1>2, <2>1, <2>2 DEF Holders, NodesByLabel, Has
<1>3. ASSUME NEW c \in Claim, c[1] = l, c[2] = k, NEW n \in Holders(c)
      PROVE  Holders(c) = {n} /\ owner'[c] = n
  <2>1. Holders(c) = {n}
    BY Zenon, <1>3 DEF AddUniqueConstraint
  <2> QED BY Zenon, <1>3, <2>1 DEF AddUniqueConstraint
<1>4. ASSUME NEW c \in Claim, ~(c[1] = l /\ c[2] = k) \/ Holders(c) = {}
      PROVE  owner'[c] = owner[c]
  BY Zenon, <1>4 DEF AddUniqueConstraint
<1>5. owner' \in [Claim -> NodeId \cup {NoOwner}]
  <2>1. \A c \in Claim : owner'[c] \in NodeId \cup {NoOwner}
    BY <1>3, <1>4 DEF TypeOK, Holders, NodesByLabel
  <2> QED BY Zenon, <2>1 DEF AddUniqueConstraint
<1>6. OwnersExact'
  <2> SUFFICES ASSUME NEW c \in Claim, c[3] # Nil, NEW n \in NodeId
               PROVE  owner'[c] = n <=> HoldsClaim(n, c)'
    BY Zenon DEF OwnersExact
  <2>1. owner[c] = n <=> HoldsClaim(n, c)
    BY Zenon DEF OwnersExact
  <2>2. \A v : Has(n, c[1], c[2], v)' <=> Has(n, c[1], c[2], v)
    BY Zenon DEF Has, AddUniqueConstraint
  <2>3. CASE c[1] = l /\ c[2] = k
    <3>1. HoldsClaim(n, c)' <=> n \in Holders(c)
      <4>1. <<c[1], c[2]>> \in unique'
        BY Zenon, <2>3 DEF AddUniqueConstraint
      <4> QED BY Zenon, <1>2, <2>2, <2>3, <4>1 DEF HoldsClaim
    <3>2. owner[c] # n
      BY Zenon, <2>1, <2>3 DEF HoldsClaim, AddUniqueConstraint
    <3>3. CASE Holders(c) = {}
      BY Zenon, <1>4, <3>1, <3>2, <3>3
    <3>4. CASE Holders(c) # {}
      <4>1. PICK m \in Holders(c) : TRUE
        BY Zenon, <3>4
      <4> QED BY Zenon, <1>3, <2>3, <3>1, <4>1
    <3> QED BY Zenon, <3>3, <3>4
  <2>4. CASE ~(c[1] = l /\ c[2] = k)
    <3>1. <<c[1], c[2]>> \in unique' <=> <<c[1], c[2]>> \in unique
      BY Zenon, <2>4 DEF AddUniqueConstraint
    <3>2. HoldsClaim(n, c)' <=> HoldsClaim(n, c)
      BY Zenon, <2>2, <3>1 DEF HoldsClaim
    <3> QED BY Zenon, <1>4, <2>1, <2>4, <3>2
  <2> QED BY Zenon, <2>3, <2>4
<1>7. ConstraintsBacked' /\ index' \subseteq Label \X Key /\ unique' \subseteq Label \X Key
      /\ ownsIndex' \subseteq Label \X Key
  BY DEF ConstraintsBacked, TypeOK, AddUniqueConstraint
<1> QED BY Zenon, <1>1, <1>5, <1>6, <1>7, SchemaFrame DEF AddUniqueConstraint

\* DropUniqueConstraint keeps the invariant.
LEMMA DropUniqueConstraintKeepsInv ==
    ASSUME Inv, NEW l \in Label, NEW k \in Key, DropUniqueConstraint(l, k)
    PROVE  Inv'
<1> USE DEF Inv
<1>1. propIx' \in [Entry -> SUBSET NodeId] /\ PropIndexExact'
  <2>1. CASE <<l, k>> \in ownsIndex
    BY Zenon, <2>1, DropExact DEF DropUniqueConstraint
  <2>2. CASE <<l, k>> \notin ownsIndex
    <3>1. UNCHANGED <<index, propIx, node>>
      BY Zenon, <2>2 DEF DropUniqueConstraint
    <3> QED BY Zenon, <3>1 DEF TypeOK, PropIndexExact, Indexed, Has
  <2> QED BY Zenon, <2>1, <2>2
<1>2. owner' \in [Claim -> NodeId \cup {NoOwner}]
  BY Zenon DEF DropUniqueConstraint, TypeOK
<1>3. OwnersExact'
  <2> SUFFICES ASSUME NEW c \in Claim, c[3] # Nil, NEW n \in NodeId
               PROVE  owner'[c] = n <=> HoldsClaim(n, c)'
    BY Zenon DEF OwnersExact
  <2>1. owner[c] = n <=> HoldsClaim(n, c)
    BY Zenon DEF OwnersExact
  <2>2. \A v : Has(n, c[1], c[2], v)' <=> Has(n, c[1], c[2], v)
    BY Zenon DEF Has, DropUniqueConstraint
  <2>3. <<c[1], c[2]>> \in unique' <=> <<c[1], c[2]>> \in unique /\ ~(c[1] = l /\ c[2] = k)
    BY Zenon DEF DropUniqueConstraint
  <2>4. HoldsClaim(n, c)' <=> HoldsClaim(n, c) /\ ~(c[1] = l /\ c[2] = k)
    BY Zenon, <2>2, <2>3 DEF HoldsClaim
  <2>5. owner'[c] = IF c[1] = l /\ c[2] = k THEN NoOwner ELSE owner[c]
    BY Zenon DEF DropUniqueConstraint
  <2>6. n # NoOwner
    BY BoundAssumption DEF NodeId
  <2> QED BY Zenon, <2>1, <2>4, <2>5, <2>6
<1>4. ConstraintsBacked' /\ index' \subseteq Label \X Key /\ unique' \subseteq Label \X Key
      /\ ownsIndex' \subseteq Label \X Key
  BY Zenon DEF ConstraintsBacked, TypeOK, DropUniqueConstraint
<1> QED BY Zenon, <1>1, <1>2, <1>3, <1>4, SchemaFrame DEF DropUniqueConstraint

\* Relationship indexes: the backfill and the drop.
LEMMA RelIndexStepKeepsInv ==
    ASSUME Inv, NEW t \in Type, NEW k \in Key,
           BuildRelIndex(t, k) \/ DropRelIndexEntries(t, k)
    PROVE  Inv'
<1> USE DEF Inv
<1>1. UNCHANGED nodeVars /\ UNCHANGED <<edge, outAdj, inAdj, index, unique, ownsIndex, lastNode, lastEdge>>
  BY Zenon DEF BuildRelIndex, DropRelIndexEntries
<1>2. relIx' \in [RelEntry -> SUBSET EdgeId] /\ relIndex' \subseteq Type \X Key
  BY DEF BuildRelIndex, DropRelIndexEntries, TypeOK
<1>3. TypeOK'
  BY Zenon, <1>1, <1>2 DEF TypeOK, nodeVars
<1>4. RelIndexExact'
  <2> SUFFICES ASSUME NEW x \in RelEntry, NEW e \in EdgeId
               PROVE  e \in relIx'[x] <=> /\ RelIndexed(x)'
                                          /\ e \in DOMAIN edge
                                          /\ x \in RelEntriesOf(edge[e])
    BY Zenon, <1>1 DEF RelIndexExact, RelIndexed, RelEntriesOf
  <2>1. e \in relIx[x] <=> RelIndexed(x) /\ e \in DOMAIN edge /\ x \in RelEntriesOf(edge[e])
    BY Zenon DEF RelIndexExact
  <2>2. CASE BuildRelIndex(t, k)
    <3>1. RelIndexed(x)' <=> RelIndexed(x) \/ (x[1] = t /\ x[2] = k)
      BY Zenon, <2>2 DEF BuildRelIndex, RelIndexed
    <3>2. e \in relIx'[x] <=> \/ e \in relIx[x]
                              \/ /\ x[1] = t /\ x[2] = k
                                 /\ e \in DOMAIN edge /\ x \in RelEntriesOf(edge[e])
      BY Zenon, <2>2 DEF BuildRelIndex
    <3> QED BY Zenon, <2>1, <3>1, <3>2
  <2>3. CASE DropRelIndexEntries(t, k)
    <3>1. RelIndexed(x)' <=> RelIndexed(x) /\ ~(x[1] = t /\ x[2] = k)
      BY Zenon, <2>3 DEF DropRelIndexEntries, RelIndexed
    <3>2. relIx'[x] = IF x[1] = t /\ x[2] = k THEN {} ELSE relIx[x]
      BY Zenon, <2>3 DEF DropRelIndexEntries
    <3> QED BY Zenon, <2>1, <3>1, <3>2
  <2> QED BY Zenon, <2>2, <2>3
<1>5. AdjacencyExact'
  <2>1. \A e, s, u, d : Joins(e, s, u, d)' <=> Joins(e, s, u, d)
    BY Zenon, <1>1 DEF Joins
  <2> QED BY Zenon, <1>1, <2>1 DEF AdjacencyExact
<1>6. NoDanglingEdges'
  BY Zenon, <1>1 DEF NoDanglingEdges, nodeVars
<1> QED BY Zenon, <1>1, <1>3, <1>4, <1>5, <1>6, NodeTablesKept

----------------------------------------------------------------------------
(* The theorems.                                                           *)

\* An empty database satisfies it.
LEMMA InitInv == Init => Inv
<1> SUFFICES ASSUME Init PROVE Inv
  BY Zenon
<1> USE DEF Init
<1>1. TypeOK
  BY BoundAssumption DEF TypeOK
<1>2. LabelIndexExact /\ NoDanglingEdges /\ ConstraintsBacked
  BY Zenon DEF LabelIndexExact, NoDanglingEdges, ConstraintsBacked
<1>3. PropIndexExact /\ RelIndexExact
  BY Zenon DEF PropIndexExact, RelIndexExact, Has
<1>4. OwnersExact
  BY BoundAssumption DEF OwnersExact, HoldsClaim, NodeId
<1>5. AdjacencyExact
  BY Zenon DEF AdjacencyExact, Joins
<1> QED BY Zenon, <1>1, <1>2, <1>3, <1>4, <1>5 DEF Inv

\* Every step keeps it.
LEMMA NextInv == Inv /\ [Next]_vars => Inv'
<1> SUFFICES ASSUME Inv, [Next]_vars PROVE Inv'
  BY Zenon
<1>1. CASE NodeStep
  BY Zenon, <1>1, CreateNodeKeepsInv, SetPropertyKeepsInv, RemovePropertyKeepsInv, AddLabelsKeepsInv,
     RemoveLabelsKeepsInv, SetNodePropertiesKeepsInv, DeleteNodeKeepsInv,
     DetachDeleteNodeKeepsInv DEF NodeStep
<1>2. CASE EdgeStep
  BY Zenon, <1>2, CreateEdgeKeepsInv, DeleteEdgeKeepsInv DEF EdgeStep
<1>3. CASE SchemaStep
  BY Zenon, <1>3, CreateIndexKeepsInv, DropIndexKeepsInv, AddUniqueConstraintKeepsInv,
     DropUniqueConstraintKeepsInv, RelIndexStepKeepsInv DEF SchemaStep
<1>4. CASE UNCHANGED vars
  <2>1. UNCHANGED nodeVars /\ UNCHANGED edgeVars /\ UNCHANGED registryVars
        /\ UNCHANGED <<lastNode, lastEdge>>
    BY Zenon, <1>4 DEF vars, nodeVars, edgeVars, registryVars
  <2>2. TypeOK'
    BY Zenon, <2>1 DEF Inv, TypeOK, nodeVars, edgeVars, registryVars
  <2>3. NoDanglingEdges' /\ RelIndexExact'
    BY Zenon, <2>1 DEF Inv, NoDanglingEdges, RelIndexExact, RelIndexed, RelEntriesOf,
                nodeVars, edgeVars, registryVars
  <2> QED BY Zenon, <2>1, <2>2, <2>3, NodeTablesKept, AdjacencyKept DEF Inv, registryVars
<1> QED BY Zenon, <1>1, <1>2, <1>3, <1>4 DEF Next

\* Every reachable state satisfies the inductive invariant: records and all
\* their index keys agree after any sequence of graph operations.
THEOREM Consistency == Spec => []Inv
  BY InitInv, NextInv, PTL DEF Spec

\* The graph layer keeps its state well formed.
THEOREM TypeCorrect == Spec => []TypeOK
<1>1. Inv => TypeOK
  BY Zenon DEF Inv
<1> QED BY <1>1, Consistency, PTL

\* Label, property and relationship indexes list exactly what the records say
\* (Invariant #1 of crud.go, for the values a record can hold).
THEOREM IndexesCorrect == Spec => []IndexesExact
<1>1. Inv => IndexesExact
  BY Zenon DEF Inv, IndexesExact
<1> QED BY <1>1, Consistency, PTL

\* The owner keys are exact, each constraint has its index, and so unique
\* constraints hold (claimValue looks at one key and never at other nodes).
THEOREM ConstraintsCorrect == Spec => []ConstraintsKept
<1>1. Inv => UniqueValues
  <2> SUFFICES ASSUME Inv, NEW c \in Claim, NEW n \in NodeId, NEW m \in NodeId,
                      c[3] # Nil, HoldsClaim(n, c), HoldsClaim(m, c)
               PROVE  n = m
    BY Zenon DEF UniqueValues
  <2>1. owner[c] = n /\ owner[c] = m
    BY Zenon DEF Inv, OwnersExact
  <2> QED BY Zenon, <2>1
<1>2. Inv => OwnersExact /\ ConstraintsBacked
  BY Zenon DEF Inv
<1>3. Inv => ConstraintsKept
  BY Zenon, <1>1, <1>2 DEF ConstraintsKept
<1> QED BY <1>3, Consistency, PTL

\* Every edge joins two live nodes and is listed by both of them.
THEOREM EdgesAttached == Spec => []EdgesListed
<1>1. Inv => EdgesListed
  BY Zenon DEF Inv, EdgesListed
<1> QED BY <1>1, Consistency, PTL

\* Identifiers are never given out twice.
THEOREM IdsFresh == Spec => IdsNeverReused
<1>1. Inv /\ [Next]_vars => [IdsKept]_vars
  <2> SUFFICES ASSUME Inv, Next PROVE IdsKept
    BY Zenon
  <2>0. lastNode' >= lastNode /\ lastEdge' >= lastEdge
    <3>1. lastNode \in Nat /\ lastEdge \in Nat
      BY BoundAssumption DEF Inv, TypeOK
    <3>2. ASSUME NEW ls, NEW ps, CreateNode(ls, ps)
          PROVE  lastNode' = lastNode + 1 /\ lastEdge' = lastEdge
      BY Zenon, <3>2 DEF CreateNode
    <3>3. ASSUME NEW t, NEW src, NEW d, NEW ps, CreateEdge(t, src, d, ps)
          PROVE  lastNode' = lastNode /\ lastEdge' = lastEdge + 1
      BY Zenon, <3>3 DEF CreateEdge
    <3>4. ASSUME NEW n, NEW k, NEW v, SetProperty(n, k, v) \/ RemoveProperty(n, k)
          PROVE  UNCHANGED <<lastNode, lastEdge>>
      BY Zenon, <3>4 DEF SetProperty, RemoveProperty
    <3>5. ASSUME NEW n, NEW ls, AddLabels(n, ls) \/ RemoveLabels(n, ls)
          PROVE  UNCHANGED <<lastNode, lastEdge>>
      BY Zenon, <3>5 DEF AddLabels, RemoveLabels
    <3>6. ASSUME NEW n, NEW ks, NEW ps, NEW b, SetNodeProperties(n, ks, ps, b)
          PROVE  UNCHANGED <<lastNode, lastEdge>>
      BY Zenon, <3>6 DEF SetNodeProperties
    <3>7. ASSUME NEW n, DeleteNode(n) \/ DetachDeleteNode(n) \/ DeleteEdge(n)
          PROVE  UNCHANGED <<lastNode, lastEdge>>
      BY Zenon, <3>7 DEF DeleteNode, DetachDeleteNode, DeleteEdge, removeNode
    <3>8. CASE SchemaStep
      <4>1. ASSUME NEW l, NEW k, CreateIndex(l, k) \/ DropIndex(l, k)
                       \/ AddUniqueConstraint(l, k) \/ DropUniqueConstraint(l, k)
                       \/ BuildRelIndex(l, k) \/ DropRelIndexEntries(l, k)
            PROVE  UNCHANGED <<lastNode, lastEdge>>
        BY Zenon, <4>1 DEF CreateIndex, DropIndex, AddUniqueConstraint, DropUniqueConstraint,
           BuildRelIndex, DropRelIndexEntries
      <4> QED BY <3>1, <3>8, <4>1 DEF SchemaStep
    <3>9. CASE NodeStep
      BY <3>1, <3>2, <3>4, <3>5, <3>6, <3>7, <3>9 DEF NodeStep
    <3>10. CASE EdgeStep
      BY <3>1, <3>3, <3>7, <3>10 DEF EdgeStep
    <3> QED BY Zenon, <3>1, <3>8, <3>9, <3>10 DEF Next
  <2>1. ASSUME NEW n \in NodeId, n <= lastNode, n \notin DOMAIN node
        PROVE  n \notin DOMAIN node'
    <3>1. CASE NodeStep
      <4>1. ASSUME NEW labels, NEW props, CreateNode(labels, props)
            PROVE  n \notin DOMAIN node'
        <5>1. lastNode + 1 # n
          BY <2>1 DEF NodeId, Inv, TypeOK
        <5> QED BY Zenon, <2>1, <4>1, <5>1 DEF CreateNode, putNodeRecord
      <4>2. ASSUME NEW m \in DOMAIN node, NEW rec, putNodeRecord(m, rec)
            PROVE  n \notin DOMAIN node'
        BY Zenon, <2>1, <4>2 DEF putNodeRecord
      <4>3. ASSUME NEW m, removeNode(m)
            PROVE  n \notin DOMAIN node'
        BY Zenon, <2>1, <4>3 DEF removeNode
      <4>4. ASSUME NEW m \in NodeId, NEW k, NEW v, SetProperty(m, k, v) \/ RemoveProperty(m, k)
            PROVE  n \notin DOMAIN node'
        BY Zenon, <4>2, <4>4 DEF SetProperty, RemoveProperty
      <4>5. ASSUME NEW m \in NodeId, NEW ls, AddLabels(m, ls) \/ RemoveLabels(m, ls)
            PROVE  n \notin DOMAIN node'
        BY Zenon, <4>2, <4>5 DEF AddLabels, RemoveLabels
      <4>6. ASSUME NEW m \in NodeId, NEW ks, NEW ps, NEW b, SetNodeProperties(m, ks, ps, b)
            PROVE  n \notin DOMAIN node'
        BY Zenon, <4>2, <4>6 DEF SetNodeProperties
      <4>7. ASSUME NEW m \in NodeId, DeleteNode(m) \/ DetachDeleteNode(m)
            PROVE  n \notin DOMAIN node'
        BY Zenon, <4>3, <4>7 DEF DeleteNode, DetachDeleteNode
      <4> QED BY Zenon, <3>1, <4>1, <4>4, <4>5, <4>6, <4>7 DEF NodeStep
    <3>2. CASE EdgeStep \/ SchemaStep
      BY ZenonT(30), <2>1, <3>2 DEF EdgeStep, SchemaStep, CreateEdge, DeleteEdge, CreateIndex, DropIndex,
         AddUniqueConstraint, DropUniqueConstraint, BuildRelIndex, DropRelIndexEntries, nodeVars
    <3> QED BY Zenon, <3>1, <3>2 DEF Next
  <2>2. ASSUME NEW e \in EdgeId, e <= lastEdge, e \notin DOMAIN edge
        PROVE  e \notin DOMAIN edge'
    <3>1. CASE NodeStep
      BY ZenonT(30), <2>2, <3>1 DEF NodeStep, CreateNode, SetProperty, RemoveProperty, AddLabels, RemoveLabels,
         SetNodeProperties, DeleteNode, DetachDeleteNode, deleteEdges, edgeVars
    <3>2. CASE EdgeStep
      <4>1. lastEdge + 1 # e
        BY <2>2 DEF EdgeId, Inv, TypeOK
      <4>2. ASSUME NEW t, NEW s, NEW d, NEW ps, CreateEdge(t, s, d, ps)
            PROVE  e \notin DOMAIN edge'
        BY Zenon, <2>2, <4>1, <4>2 DEF CreateEdge
      <4>3. ASSUME NEW f, DeleteEdge(f)
            PROVE  e \notin DOMAIN edge'
        BY Zenon, <2>2, <4>3 DEF DeleteEdge, deleteEdges
      <4> QED BY Zenon, <3>2, <4>2, <4>3 DEF EdgeStep
    <3>3. CASE SchemaStep
      BY Zenon, <2>2, <3>3 DEF SchemaStep, CreateIndex, DropIndex, AddUniqueConstraint,
         DropUniqueConstraint, BuildRelIndex, DropRelIndexEntries, edgeVars
    <3> QED BY Zenon, <3>1, <3>2, <3>3 DEF Next
  <2> QED BY Zenon, <2>0, <2>1, <2>2 DEF IdsKept
<1> QED BY <1>1, Consistency, PTL DEF Spec, IdsNeverReused

----------------------------------------------------------------------------
(* Refinement.                                                             *)

\* Exact owners and attached edges make the state a legal graph.
LEMMA InvLegal == Inv => Abstract!Legal
<1> SUFFICES ASSUME Inv PROVE Abstract!Legal
  BY Zenon
<1> USE DEF Inv
<1>1. ASSUME NEW l \in Label, NEW k \in Key, NEW n \in DOMAIN node, NEW m \in DOMAIN node,
             <<l, k>> \in unique, l \in node[n].labels \cap node[m].labels,
             Abstract!Equal(node[n].props[k], node[m].props[k])
      PROVE  n = m
  <2> DEFINE v == node[n].props[k]
             w == node[m].props[k]
             c == <<l, k, uniqueValue[v]>>
  <2>1. v \in Scalar /\ w \in Scalar /\ uniqueValue[v] = uniqueValue[w] /\ uniqueValue[v] # NoForm
    BY Zenon, <1>1 DEF Abstract!Equal
  <2>2. v # Nil /\ w # Nil
    BY Zenon, <2>1, ValueAssumption DEF Value
  <2>3. c \in Claim /\ c[3] # Nil
    BY Zenon, <2>1, <2>2, FormAssumption DEF Claim, Indexable
  <2>4. HoldsClaim(n, c) /\ HoldsClaim(m, c)
    BY Zenon, <1>1, <2>1, <2>2 DEF HoldsClaim, Has
  <2>5. n \in NodeId /\ m \in NodeId
    BY Zenon DEF TypeOK
  <2> QED BY Zenon, <2>3, <2>4, <2>5 DEF OwnersExact
<1>2. \A e \in DOMAIN edge : {edge[e].src, edge[e].dst} \subseteq DOMAIN node
  BY Zenon DEF NoDanglingEdges
<1> QED BY Zenon, <1>1, <1>2 DEF Abstract!Legal

\* Storing the record of a live node is the abstract rewrite.
LEMMA StoreIsRewrite ==
    ASSUME NEW n \in DOMAIN node, NEW rec, putNodeRecord(n, rec), node = [m \in DOMAIN node |-> node[m]],
           UNCHANGED <<edge, unique, lastNode, lastEdge>>
    PROVE  Abstract!Rewrite(n, rec)
<1>1. node' = [node EXCEPT ![n] = rec]
  BY Zenon DEF putNodeRecord
<1> QED BY Zenon, <1>1 DEF Abstract!Rewrite

\* A step on nodes is a statement of the property graph, or not seen.
LEMMA NodeStepRefines == Inv /\ NodeStep => Abstract!Statement \/ UNCHANGED Abstract!vars
<1> SUFFICES ASSUME Inv, NodeStep PROVE Abstract!Statement \/ UNCHANGED Abstract!vars
  BY Zenon
<1> USE DEF Inv
<1>0. DOMAIN node \subseteq NodeId /\ node = [m \in DOMAIN node |-> node[m]]
      /\ edge = [e \in DOMAIN edge |-> edge[e]]
      /\ (\A n \in DOMAIN node : node[n] \in NodeRecord)
  BY Zenon DEF TypeOK
<1>p. Props = [Key -> Scalar \cup Composite \cup {Nil}] /\ Props = Abstract!Props
  BY Zenon DEF Props, Value, Abstract!Props
<1>1. ASSUME NEW ls \in SUBSET Label, NEW ps \in Props, CreateNode(ls, ps)
      PROVE  Abstract!Statement
  <2>1. Abstract!Create(ls, ps)
    BY Zenon, <1>1 DEF CreateNode, putNodeRecord, Abstract!Create, edgeVars, registryVars
  <2> QED BY Zenon, <1>p, <2>1 DEF Abstract!Statement
<1>2. ASSUME NEW n \in DOMAIN node, NEW ps \in Props,
             putNodeRecord(n, [node[n] EXCEPT !.props = ps]),
             UNCHANGED <<edge, unique, lastNode, lastEdge>>
      PROVE  Abstract!Statement
  <2>1. Abstract!Rewrite(n, [node[n] EXCEPT !.props = ps])
    BY Zenon, <1>0, <1>2, StoreIsRewrite
  <2> QED BY Zenon, <1>p, <2>1 DEF Abstract!Statement
<1>3. ASSUME NEW n \in DOMAIN node, NEW ls \in SUBSET Label,
             putNodeRecord(n, [node[n] EXCEPT !.labels = ls]),
             UNCHANGED <<edge, unique, lastNode, lastEdge>>
      PROVE  Abstract!Statement
  <2>1. Abstract!Rewrite(n, [node[n] EXCEPT !.labels = ls])
    BY Zenon, <1>0, <1>3, StoreIsRewrite
  <2> QED BY Zenon, <2>1 DEF Abstract!Statement
<1>4. ASSUME NEW n \in NodeId, NEW k \in Key, NEW v \in Value \cup {Nil}, SetProperty(n, k, v)
      PROVE  Abstract!Statement
  <2> DEFINE ps == [node[n].props EXCEPT ![k] = v]
  <2>1. n \in DOMAIN node /\ node[n] \in NodeRecord
    BY Zenon, <1>0, <1>4 DEF SetProperty
  <2>2. ps \in Props /\ [node[n] EXCEPT !.props[k] = v] = [node[n] EXCEPT !.props = ps]
    BY Zenon, <2>1 DEF NodeRecord, Props
  <2>3. putNodeRecord(n, [node[n] EXCEPT !.props = ps]) /\ UNCHANGED <<edge, unique, lastNode, lastEdge>>
    BY Zenon, <1>4, <2>2 DEF SetProperty, edgeVars, registryVars
  <2> QED BY Zenon, <1>2, <2>1, <2>2, <2>3
<1>5. ASSUME NEW n \in NodeId, NEW k \in Key, RemoveProperty(n, k)
      PROVE  Abstract!Statement
  <2> DEFINE ps == [node[n].props EXCEPT ![k] = Nil]
  <2>1. n \in DOMAIN node /\ node[n] \in NodeRecord
    BY Zenon, <1>0, <1>5 DEF RemoveProperty
  <2>2. ps \in Props /\ [node[n] EXCEPT !.props[k] = Nil] = [node[n] EXCEPT !.props = ps]
    BY Zenon, <2>1 DEF NodeRecord, Props
  <2>3. putNodeRecord(n, [node[n] EXCEPT !.props = ps]) /\ UNCHANGED <<edge, unique, lastNode, lastEdge>>
    BY Zenon, <1>5, <2>2 DEF RemoveProperty, edgeVars, registryVars
  <2> QED BY Zenon, <1>2, <2>1, <2>2, <2>3
<1>6. ASSUME NEW n \in NodeId, NEW ls \in SUBSET Label, AddLabels(n, ls) \/ RemoveLabels(n, ls)
      PROVE  Abstract!Statement
  <2>1. n \in DOMAIN node /\ node[n] \in NodeRecord
    BY Zenon, <1>0, <1>6 DEF AddLabels, RemoveLabels
  <2>2. node[n].labels \subseteq Label
    BY Zenon, <2>1 DEF NodeRecord
  <2>3. UNCHANGED <<edge, unique, lastNode, lastEdge>>
    BY Zenon, <1>6 DEF AddLabels, RemoveLabels, edgeVars, registryVars
  <2>4. CASE AddLabels(n, ls)
    <3>1. putNodeRecord(n, [node[n] EXCEPT !.labels = node[n].labels \cup (ls \ node[n].labels)])
      BY Zenon, <2>4 DEF AddLabels
    <3> QED BY Zenon, <1>3, <2>1, <2>2, <2>3, <3>1
  <2>5. CASE RemoveLabels(n, ls)
    <3>1. putNodeRecord(n, [node[n] EXCEPT !.labels = node[n].labels \ (ls \cap node[n].labels)])
      BY Zenon, <2>5 DEF RemoveLabels
    <3> QED BY Zenon, <1>3, <2>1, <2>2, <2>3, <3>1
  <2> QED BY Zenon, <1>6, <2>4, <2>5
<1>7. ASSUME NEW n \in NodeId, NEW ks \in SUBSET Key, NEW ps \in Props, NEW b \in BOOLEAN,
             SetNodeProperties(n, ks, ps, b)
      PROVE  Abstract!Statement
  <2> DEFINE qs == [k \in Key |-> IF k \in ks THEN ps[k] ELSE IF b THEN Nil ELSE node[n].props[k]]
  <2>1. n \in DOMAIN node /\ node[n] \in NodeRecord
    BY Zenon, <1>0, <1>7 DEF SetNodeProperties
  <2>2. qs \in Props
    BY Zenon, <2>1 DEF NodeRecord, Props
  <2>3. putNodeRecord(n, [node[n] EXCEPT !.props = qs]) /\ UNCHANGED <<edge, unique, lastNode, lastEdge>>
    BY Zenon, <1>7 DEF SetNodeProperties, edgeVars, registryVars
  <2> QED BY Zenon, <1>2, <2>1, <2>2, <2>3
<1>8. ASSUME NEW n \in NodeId, DeleteNode(n)
      PROVE  Abstract!Statement
  <2>1. n \in DOMAIN node /\ node' = [m \in DOMAIN node \ {n} |-> node[m]]
        /\ UNCHANGED <<edge, unique, lastNode, lastEdge>>
    BY Zenon, <1>8 DEF DeleteNode, removeNode, edgeVars, registryVars
  <2>2. edge' = [e \in DOMAIN edge \ {} |-> edge[e]]
    BY Zenon, <1>0, <2>1
  <2>3. Abstract!Delete({n}, {})
    BY Zenon, <2>1, <2>2 DEF Abstract!Delete
  <2> QED BY Zenon, <2>1, <2>3 DEF Abstract!Statement
<1>9. ASSUME NEW n \in NodeId, DetachDeleteNode(n)
      PROVE  Abstract!Statement
  <2>1. n \in DOMAIN node /\ node' = [m \in DOMAIN node \ {n} |-> node[m]]
        /\ UNCHANGED <<unique, lastNode, lastEdge>>
    BY Zenon, <1>9 DEF DetachDeleteNode, removeNode, registryVars
  <2>2. OutEdges(n) \cup InEdges(n) = Abstract!Incident(n)
    BY Zenon, IncidentEdges DEF Abstract!Incident
  <2>3. edge' = [e \in DOMAIN edge \ Abstract!Incident(n) |-> edge[e]]
    BY Zenon, <1>9, <2>2 DEF DetachDeleteNode, deleteEdges
  <2>4. Abstract!Delete({n}, Abstract!Incident(n))
    BY Zenon, <2>1, <2>3 DEF Abstract!Delete
  <2> QED BY Zenon, <2>1, <2>4 DEF Abstract!Statement
<1> QED BY Zenon, <1>1, <1>4, <1>5, <1>6, <1>7, <1>8, <1>9 DEF NodeStep

\* A step on edges is a statement of the property graph.
LEMMA EdgeStepRefines == Inv /\ EdgeStep => Abstract!Statement
<1> SUFFICES ASSUME Inv, EdgeStep PROVE Abstract!Statement
  BY Zenon
<1>0. node = [m \in DOMAIN node |-> node[m]] /\ NodeId = Abstract!NodeId /\ Props = Abstract!Props
  BY Zenon DEF Inv, TypeOK, NodeId, Abstract!NodeId, Props, Value, Abstract!Props
<1>1. ASSUME NEW t \in Type, NEW s \in NodeId, NEW d \in NodeId, NEW ps \in Props,
             CreateEdge(t, s, d, ps)
      PROVE  Abstract!Statement
  <2>1. Abstract!Connect(t, s, d, ps)
    BY Zenon, <1>1 DEF CreateEdge, Abstract!Connect, nodeVars, registryVars
  <2> QED BY Zenon, <1>0, <2>1 DEF Abstract!Statement
<1>2. ASSUME NEW e \in EdgeId, DeleteEdge(e)
      PROVE  Abstract!Statement
  <2>1. e \in DOMAIN edge /\ edge' = [f \in DOMAIN edge \ {e} |-> edge[f]]
        /\ UNCHANGED <<node, unique, lastNode, lastEdge>>
    BY Zenon, <1>2 DEF DeleteEdge, deleteEdges, nodeVars, registryVars
  <2>2. node' = [m \in DOMAIN node \ {} |-> node[m]]
    BY Zenon, <1>0, <2>1
  <2>3. Abstract!Delete({}, {e})
    BY Zenon, <2>1, <2>2 DEF Abstract!Delete
  <2> QED BY Zenon, <2>1, <2>3 DEF Abstract!Statement
<1> QED BY Zenon, <1>1, <1>2 DEF EdgeStep

\* A schema step is a statement of the property graph, or not seen.
LEMMA SchemaStepRefines == SchemaStep => Abstract!Statement \/ UNCHANGED Abstract!vars
<1> SUFFICES ASSUME SchemaStep PROVE Abstract!Statement \/ UNCHANGED Abstract!vars
  BY Zenon
<1>1. ASSUME NEW l \in Label, NEW k \in Key,
             AddUniqueConstraint(l, k) \/ DropUniqueConstraint(l, k)
      PROVE  Abstract!Statement
  BY Zenon, <1>1 DEF AddUniqueConstraint, DropUniqueConstraint, Abstract!Statement, Abstract!Constrain, edgeVars
<1>2. ASSUME NEW l \in Label, NEW k \in Key, CreateIndex(l, k) \/ DropIndex(l, k)
      PROVE  UNCHANGED Abstract!vars
  BY Zenon, <1>2 DEF CreateIndex, DropIndex, Abstract!vars, edgeVars
<1>3. ASSUME NEW t \in Type, NEW k \in Key, BuildRelIndex(t, k) \/ DropRelIndexEntries(t, k)
      PROVE  UNCHANGED Abstract!vars
  BY Zenon, <1>3 DEF BuildRelIndex, DropRelIndexEntries, Abstract!vars, nodeVars
<1> QED BY Zenon, <1>1, <1>2, <1>3 DEF SchemaStep

\* The graph layer implements the property graph: index keys and owner keys
\* are enough to keep the whole graph legal.
THEOREM Refinement == Spec => RefinesPropertyGraph
<1>1. Init => Abstract!Init
  BY Zenon DEF Init, Abstract!Init
<1>2. Inv /\ Inv' /\ [Next]_vars => [Abstract!Next]_Abstract!vars
  <2> SUFFICES ASSUME Inv, Inv', [Next]_vars PROVE [Abstract!Next]_Abstract!vars
    BY Zenon
  <2>1. Abstract!Legal'
    BY InvLegal, PTL
  <2>2. CASE Next
    BY Zenon, <2>1, <2>2, NodeStepRefines, EdgeStepRefines, SchemaStepRefines DEF Next, Abstract!Next
  <2>3. CASE UNCHANGED vars
    BY Zenon, <2>3 DEF vars, Abstract!vars
  <2> QED BY Zenon, <2>2, <2>3
<1> QED BY <1>1, <1>2, Consistency, PTL DEF Spec, RefinesPropertyGraph, Abstract!Spec

----------------------------------------------------------------------------
(* What the analyzer accepts, rows can answer: for every set of clauses.   *)

\* Until RETURN, the analyzer's names are bound by the planner; the planner's names
\* are always those of the rows.
ScopesInv ==
    /\ last # "return" => sc \subseteq bound
    /\ row = bound
    /\ ReadsBound
    /\ ColumnsFilled

\* Reads that hold in a scope hold in a larger one (checkExpr, eval).
LEMMA SeesMonotone ==
    ASSUME NEW A, NEW B, NEW e, A \subseteq B, Sees(A, e)
    PROVE  Sees(B, e)
BY Zenon DEF Sees

\* The same for a predicate.
LEMMA HoldsMonotone ==
    ASSUME NEW A, NEW B, NEW p, A \subseteq B, Holds(A, p)
    PROVE  Holds(B, p)
BY Zenon, SeesMonotone DEF Holds

\* A value whose free names are bound can be evaluated (exprVars, eval).
LEMMA FreeNamesSuffice ==
    ASSUME NEW A, NEW e, exprVars(e) \subseteq A
    PROVE  Sees(A, e)
BY Zenon DEF exprVars, Sees

\* What part i is planned after is bound by the clause or before it.
LEMMA KnownBound ==
    ASSUME NEW m, NEW i, NEW A
    PROVE  Known(A, m, i) \subseteq A \cup AllBinds(m)
BY Zenon DEF Known, AllBinds, Earlier

\* The planner binds every name that a planned MATCH introduces: elements by
\* NameOf, the path and the relationships by planShortest, the ends of a shortest
\* path because planShortest refuses unbound ones.
LEMMA MatchBindsNames ==
    ASSUME NEW m \in [parts : Seq(Part), where : SUBSET Predicate, optional : BOOLEAN],
           Supported(m), SemaMatch(m), Plannable(m)
    PROVE  PatternVars(m) \subseteq bound \cup AllBinds(m)
<1>1. ASSUME NEW i \in DOMAIN m.parts
      PROVE  Some(m.parts[i].path) \subseteq AllBinds(m)
  BY <1>1 DEF Supported, Some, AllBinds, PartBinds
<1>2. ASSUME NEW i \in DOMAIN m.parts, NEW j \in DOMAIN m.parts[i].elems
      PROVE  Some(m.parts[i].elems[j].var) \subseteq bound \cup AllBinds(m)
  <2>1. CASE ~m.parts[i].shortest
    BY <1>2, <2>1 DEF AllBinds, PartBinds, NameOf, Anonymous, Some
  <2>2. CASE m.parts[i].shortest
    <3>1. m.parts[i] \in Part
      OBVIOUS
    <3>2. Len(m.parts[i].elems) = 3
      BY Zenon, <2>2, <1>2 DEF SemaMatch, ShortestForm
    <3>3. j \in 1..3
      BY <3>1, <3>2, <1>2 DEF Part
    <3>4. CASE j = 2
      BY <3>4, <2>2, <1>2 DEF AllBinds, PartBinds
    <3>5. CASE j \in {1, 3}
      <4>1. m.parts[i].elems[j].var \in Known(bound, m, i)
        BY Zenon, <3>5, <2>2, <1>2 DEF Plannable, Endpoints
      <4> QED BY <4>1, KnownBound DEF Some
    <3> QED BY <3>3, <3>4, <3>5
  <2> QED BY Zenon, <2>1, <2>2
<1>3. ASSUME NEW q \in Places(m)
      PROVE  Some(m.parts[q[1]].elems[q[2]].var) \subseteq bound \cup AllBinds(m)
  <2>1. PICK i \in DOMAIN m.parts : q \in {i} \X DOMAIN m.parts[i].elems
    BY Zenon, <1>3 DEF Places
  <2> QED BY Zenon, <2>1, <1>2
<1> QED BY <1>1, <1>3 DEF PatternVars

\* Optional or not, the rows after a MATCH hold what the planner has bound.
LEMMA RowsFollowPlan ==
    ASSUME NEW m, row = bound
    PROVE  RowsAfter(m) = bound \cup AllBinds(m)
BY Zenon DEF RowsAfter, NewVars

\* A MATCH keeps the invariant.
LEMMA MatchKeeps ==
    ASSUME ScopesInv, Match
    PROVE  ScopesInv'
<1>1. Open /\ last # "return" /\ sc \subseteq bound /\ row = bound
  BY Zenon DEF Match, Open, ScopesInv
<1>2. PICK m \in Matches : Supported(m)
           /\ \/ Refuse("rejected")
              \/ Refuse("unplanned")
              \/ SemaMatch(m) /\ Plannable(m) /\ PlanMatch(m)
  BY Zenon DEF Match
<1>3. CASE Refuse("rejected") \/ Refuse("unplanned")
  BY Zenon, <1>3 DEF ScopesInv, Refuse, ReadsBound, ColumnsFilled
<1>4. CASE SemaMatch(m) /\ Plannable(m) /\ PlanMatch(m)
  <2> USE <1>4
  <2>1. PatternVars(m) \subseteq bound \cup AllBinds(m)
    BY Zenon, <1>2, MatchBindsNames, WellFormed
  <2>2. sc \cup PatternVars(m) \subseteq bound \cup AllBinds(m)
    BY Zenon, <2>1, <1>1
  <2>3. sc' \subseteq bound' /\ row' = bound' /\ last' = "match"
    BY Zenon, <2>2, <1>1, RowsFollowPlan DEF PlanMatch, Took
  <2>4. ASSUME NEW s \in Seeks(m) PROVE Sees(Known(row, m, s[1]), s[2])
    <3>1. PICK i \in DOMAIN m.parts : s \in {i} \X {e \in Values(m, i) : seekable(m, i, e)}
      BY Zenon, <2>4 DEF Seeks
    <3>2. s[1] = i /\ exprVars(s[2]) \subseteq Known(row, m, i)
      BY Zenon, <3>1, <1>1 DEF seekable
    <3> QED BY Zenon, <3>2, FreeNamesSuffice
  <2>5. \A e \in Inline(m) : Sees(row \cup AllBinds(m), e)
    BY Zenon, <2>2, <1>1, SeesMonotone DEF SemaMatch
  <2>6. \A p \in m.where : Holds(row \cup AllBinds(m), p)
    BY Zenon, <2>2, <1>1, HoldsMonotone DEF SemaMatch
  <2>7. misread' = misread
    BY Zenon, <2>4, <2>5, <2>6 DEF PlanMatch, Missed
  <2> QED BY Zenon, <2>3, <2>7 DEF ScopesInv, ReadsBound, ColumnsFilled
<1> QED BY Zenon, <1>2, <1>3, <1>4

\* CREATE and MERGE keep it: what they read too early is among Lenient, and what
\* ON CREATE and ON MATCH read is in the row by then.
LEMMA CreateKeeps ==
    ASSUME ScopesInv, Create \/ Merge
    PROVE  ScopesInv'
<1>1. last # "return" /\ sc \subseteq bound /\ row = bound
  BY Zenon DEF Create, Merge, Open, ScopesInv
<1>2. CASE Create
  <2>1. PICK m \in Creates :
            \/ Refuse("rejected")
            \/ /\ sc' = sc \cup PatternVars(m) /\ bound' = bound \cup PatternVars(m)
               /\ row' = row \cup PatternVars(m)
               /\ misread' = misread \cup Missed("created", CreateReads(m))
               /\ Took("write")
    BY Zenon, <1>2 DEF Create
  <2> QED BY Zenon, <2>1, <1>1 DEF ScopesInv, Refuse, Took, Missed, ReadsBound, ColumnsFilled, Lenient
<1>3. CASE Merge
  <2>1. PICK m \in Merges :
            \/ Refuse("rejected")
            \/ /\ \A e \in m.sets : Sees(sc \cup PatternVars(m), e)
               /\ sc' = sc \cup PatternVars(m) /\ bound' = bound \cup PatternVars(m)
               /\ row' = row \cup PatternVars(m)
               /\ misread' = misread \cup Missed("created", MergeRuns(m) /\ \A e \in Inline(m) : Sees(row, e))
                                     \cup Missed("set", \A e \in m.sets : Sees(row \cup PatternVars(m), e))
               /\ Took("write")
    BY Zenon, <1>3 DEF Merge
  <2>2. CASE Refuse("rejected")
    BY Zenon, <2>2 DEF ScopesInv, Refuse, ReadsBound, ColumnsFilled
  <2>3. CASE ~Refuse("rejected")
    <3>1. \A e \in m.sets : Sees(row \cup PatternVars(m), e)
      BY Zenon, <2>1, <2>3, <1>1, SeesMonotone
    <3> QED BY Zenon, <2>1, <2>3, <3>1, <1>1 DEF ScopesInv, Took, Missed, ReadsBound, ColumnsFilled, Lenient
  <2> QED BY Zenon, <2>2, <2>3
<1> QED BY Zenon, <1>2, <1>3

\* SET, REMOVE, DELETE and UNWIND keep it.
LEMMA UpdateKeeps ==
    ASSUME ScopesInv, Update \/ Unwind
    PROVE  ScopesInv'
<1>1. last # "return" /\ sc \subseteq bound /\ row = bound
  BY Zenon DEF Update, Unwind, Open, ScopesInv
<1>2. CASE Update
  <2>1. PICK e \in Updates :
            \/ Refuse("rejected")
            \/ /\ Sees(sc, e)
               /\ misread' = misread \cup Missed("set", Sees(row, e))
               /\ UNCHANGED <<sc, columns, bound, synth, row, captured>>
               /\ Took("write")
    BY Zenon, <1>2 DEF Update
  <2>2. Sees(sc, e) => Sees(row, e)
    BY Zenon, <1>1, SeesMonotone
  <2> QED BY Zenon, <2>1, <2>2, <1>1 DEF ScopesInv, Refuse, Took, Missed, ReadsBound, ColumnsFilled
<1>3. CASE Unwind
  <2>1. PICK u \in Unwinds :
            \/ Refuse("rejected")
            \/ /\ Sees(sc, u.expr)
               /\ sc' = sc \cup {u.alias} /\ bound' = bound \cup {u.alias} /\ row' = row \cup {u.alias}
               /\ misread' = misread \cup Missed("unwind", Sees(row, u.expr))
               /\ Took("unwind")
    BY Zenon, <1>3 DEF Unwind
  <2>2. Sees(sc, u.expr) => Sees(row, u.expr)
    BY Zenon, <1>1, SeesMonotone
  <2> QED BY Zenon, <2>1, <2>2, <1>1 DEF ScopesInv, Refuse, Took, Missed, ReadsBound, ColumnsFilled
<1> QED BY Zenon, <1>2, <1>3

\* What a projection asks of rows, they hold: the items before it, WHERE and WITH's
\* ORDER BY after it (project, Filter, sortValue).
LEMMA ProjectionReads ==
    ASSUME NEW p, sc \subseteq bound, row = bound, NEW tail,
           tail \subseteq Projected(p), SemaProjection(p, tail), \A e \in p.where : Sees(tail, e)
    PROVE  /\ p.star => bound \subseteq row
           /\ \A item \in p.items : Sees(row, item.expr)
           /\ \A e \in p.where : Sees(Projected(p), e)
           /\ SortReads(p)
<1>1. \A item \in p.items : Sees(row, item.expr)
  BY Zenon, SeesMonotone DEF SemaProjection
<1>2. \A e \in p.where : Sees(Projected(p), e)
  BY Zenon, SeesMonotone
<1>3. \A k \in p.sort : Sees(Projected(p), k.expr)
  BY Zenon, SeesMonotone DEF SemaProjection
<1> QED BY Zenon, <1>1, <1>2, <1>3 DEF SortReads

\* WITH keeps it.
LEMMA WithKeeps ==
    ASSUME ScopesInv, With
    PROVE  ScopesInv'
<1>1. last # "return" /\ sc \subseteq bound /\ row = bound
  BY Zenon DEF With, Open, ScopesInv
<1>2. PICK p \in Projections :
          \/ Refuse("rejected")
          \/ /\ SemaWith(p)
             /\ sc' = (IF p.star THEN sc ELSE {}) \cup Columns(p)
             /\ columns' = columns
             /\ Project(p, "with")
  BY Zenon DEF With
<1>3. CASE Refuse("rejected")
  BY Zenon, <1>3 DEF ScopesInv, Refuse, ReadsBound, ColumnsFilled
<1>4. CASE ~Refuse("rejected")
  <2> DEFINE tail == (IF p.star THEN sc ELSE {}) \cup Columns(p)
  <2>1. tail \subseteq Projected(p)
    BY Zenon, <1>1 DEF Projected
  <2>2. SemaProjection(p, tail) /\ \A e \in p.where : Sees(tail, e)
    BY Zenon, <1>2, <1>4 DEF SemaWith
  <2>3. /\ p.star => bound \subseteq row
        /\ \A item \in p.items : Sees(row, item.expr)
        /\ \A e \in p.where : Sees(Projected(p), e)
        /\ SortReads(p)
    <3> HIDE DEF tail
    <3> QED BY Zenon, <1>1, <2>1, <2>2, ProjectionReads
  <2>4. misread' \subseteq misread \cup {"count"}
    BY Zenon, <2>3, <1>2, <1>4 DEF Project, Missed
  <2>5. sc' \subseteq bound' /\ row' = bound' /\ last' = "with"
    BY Zenon, <2>1, <1>2, <1>4 DEF Project, Took
  <2> QED BY Zenon, <2>4, <2>5 DEF ScopesInv, ReadsBound, ColumnsFilled, Lenient
<1> QED BY Zenon, <1>3, <1>4

\* RETURN keeps it: only its sort keys and counts may read what rows do not hold.
LEMMA ReturnKeeps ==
    ASSUME ScopesInv, Return
    PROVE  ScopesInv'
<1>1. last # "return" /\ sc \subseteq bound /\ row = bound
  BY Zenon DEF Return, Open, ScopesInv
<1>2. PICK p \in Projections :
          \/ Refuse("rejected")
          \/ /\ p.where = {} /\ SemaReturn(p)
             /\ columns' = (IF p.star THEN sc ELSE {}) \cup Columns(p)
             /\ Project(p, "return")
  BY Zenon DEF Return
<1>3. CASE Refuse("rejected")
  BY Zenon, <1>3 DEF ScopesInv, Refuse, ReadsBound, ColumnsFilled
<1>4. CASE ~Refuse("rejected")
  <2>1. \A item \in p.items : Sees(row, item.expr)
    BY Zenon, <1>1, <1>2, <1>4, SeesMonotone DEF SemaReturn, SemaProjection
  <2>2. misread' \subseteq misread \cup {"sorted", "count"}
    BY Zenon, <2>1, <1>1, <1>2, <1>4 DEF Project, Missed
  <2>3. columns' \subseteq Projected(p) /\ row' = Projected(p) /\ bound' = Projected(p) /\ last' = "return"
    BY Zenon, <1>1, <1>2, <1>4 DEF Project, Took, Projected
  <2> QED BY Zenon, <2>2, <2>3 DEF ScopesInv, ReadsBound, ColumnsFilled, Lenient
<1> QED BY Zenon, <1>3, <1>4

\* The end of an arm keeps it.
LEMMA EndKeeps ==
    ASSUME ScopesInv, Accept \/ NextArm
    PROVE  ScopesInv'
BY Zenon DEF ScopesInv, Accept, NextArm, Refuse, ReadsBound, ColumnsFilled

\* Whatever clauses a query is made of, what the analyzer accepts rows can answer,
\* but for the places in Lenient, and every column it announces is in every row of
\* the result (sema, plan, exec).
THEOREM NamesAnswered == ScopesSpec => []Answered
<1>1. ScopesInit => ScopesInv
  BY Zenon DEF ScopesInit, ScopesInv, ReadsBound, ColumnsFilled
<1>2. ScopesInv /\ [ScopesNext]_scopesVars => ScopesInv'
  <2> SUFFICES ASSUME ScopesInv, [ScopesNext]_scopesVars PROVE ScopesInv'
    BY Zenon
  <2>1. CASE Match
    BY Zenon, <2>1, MatchKeeps
  <2>2. CASE Create \/ Merge
    BY Zenon, <2>2, CreateKeeps
  <2>3. CASE Update \/ Unwind
    BY Zenon, <2>3, UpdateKeeps
  <2>4. CASE With
    BY Zenon, <2>4, WithKeeps
  <2>5. CASE Return
    BY Zenon, <2>5, ReturnKeeps
  <2>6. CASE Accept \/ NextArm
    BY Zenon, <2>6, EndKeeps
  <2>7. CASE UNCHANGED scopesVars
    BY Zenon, <2>7 DEF scopesVars, ScopesInv, ReadsBound, ColumnsFilled
  <2> QED BY Zenon, <2>1, <2>2, <2>3, <2>4, <2>5, <2>6, <2>7 DEF ScopesNext
<1>3. ScopesInv => Answered
  BY Zenon DEF ScopesInv, Answered
<1> QED BY <1>1, <1>2, <1>3, PTL DEF ScopesSpec

=============================================================================
