--------------------------- MODULE IsolationProofs ---------------------------
(***************************************************************************)
(* Concurrent statements are serializable, and keep the graph consistent,  *)
(* for any number of clients, values, nodes, edges and retries.            *)
(***************************************************************************)
EXTENDS Isolation, TLAPS

\* The settings in which the keys a transaction has read tell whether another
\* one disturbs it.  On Badger they do not where an edge may be added to a node
\* that is being deleted, nor where the schema changes.
PhantomFree(s) ==
    \/ s.engine = "bolt"
    \/ /\ \A st \in s.statements :
              st[1] \in {"create", "merge", "set", "delete", "detach", "connect", "disconnect"}
       /\ \/ \A st \in s.statements : st[1] # "connect"
          \/ \A st \in s.statements : st[1] \notin {"delete", "detach"}

----------------------------------------------------------------------------
(* A store that holds a graph.                                             *)

Count(S, kind) == IF Has(S, Counter(kind)) THEN S[Counter(kind)] ELSE 0

Clean(S) == \A k \in DOMAIN S : S[k] # Absent
Counters(S) == Count(S, "n") \in Nat /\ Count(S, "e") \in Nat

NodeRecords(S) ==
    \A n \in Nat : /\ Has(S, NodeKey(n)) <=> Has(S, LabelKey(n))
                   /\ Has(S, NodeKey(n)) => n \in NodeId /\ n <= Count(S, "n") /\ S[NodeKey(n)] \in Value

Entries(S) ==
    \A n \in Nat, v \in Value :
        Has(S, PropKey(v, n)) <=> Has(S, IndexKey) /\ Has(S, NodeKey(n)) /\ S[NodeKey(n)] = v

Owners(S) ==
    /\ Has(S, ConstraintKey) => Has(S, IndexKey) /\ S[ConstraintKey] \in BOOLEAN
    /\ \A v \in Value : Has(S, UniqueKey(v)) =>
           /\ Has(S, ConstraintKey) /\ S[UniqueKey(v)] \in Nat
           /\ Has(S, NodeKey(S[UniqueKey(v)])) /\ S[NodeKey(S[UniqueKey(v)])] = v
    /\ \A n \in Nat : Has(S, ConstraintKey) /\ Has(S, NodeKey(n)) =>
           Has(S, UniqueKey(S[NodeKey(n)])) /\ S[UniqueKey(S[NodeKey(n)])] = n

EdgeRecords(S) ==
    /\ \A e \in Nat : Has(S, EdgeKey(e)) =>
           /\ e \in EdgeId /\ e <= Count(S, "e") /\ S[EdgeKey(e)] \in Nat \X Nat
           /\ Has(S, NodeKey(S[EdgeKey(e)][1])) /\ Has(S, NodeKey(S[EdgeKey(e)][2]))
    /\ \A n, e \in Nat :
           /\ Has(S, OutKey(n, e)) <=> Has(S, EdgeKey(e)) /\ S[EdgeKey(e)][1] = n
           /\ Has(S, InKey(n, e)) <=> Has(S, EdgeKey(e)) /\ S[EdgeKey(e)][2] = n

Sound(S) == Clean(S) /\ Counters(S) /\ NodeRecords(S) /\ Entries(S) /\ Owners(S) /\ EdgeRecords(S)

NoEdges(S) == \A e \in Nat : ~Has(S, EdgeKey(e))
Distinct(S) ==
    \A n, m \in Nat : Has(S, NodeKey(n)) /\ Has(S, NodeKey(m)) /\ S[NodeKey(n)] = S[NodeKey(m)] => n = m

----------------------------------------------------------------------------
(* The transactions.                                                       *)

\* One statement at a time on bbolt; nobody commits under it.
OneWriter ==
    Engine = "bolt" => \A c, d \in Client :
        /\ txn[c].pc # "idle" /\ txn[d].pc # "idle" => c = d
        /\ txn[c].pc # "idle" => txn[c].pc = "run" /\ txn[c].dirty = {}

\* An effect is still what the statement would do, unless a key it read was
\* written since.
Current ==
    \A c \in Client :
        Writes(c) /\ txn[c].effect.reads \cap txn[c].dirty = {} => txn[c].effect = Run(store, txn[c].st)

StoreInv ==
    /\ Sound(store)
    /\ (\A st \in Statement : st[1] # "connect") => NoEdges(store)
    /\ MergesOnly => Distinct(store)

----------------------------------------------------------------------------
(* Functions, effects and keys.                                            *)

\* A write of one key.
LEMMA PairIs ==
    ASSUME NEW k, NEW v
    PROVE  DOMAIN Pair(k, v) = {k} /\ Pair(k, v)[k] = v
BY Zenon DEF Pair

\* Where both write, the first of the two counts.
LEMMA OverIs ==
    ASSUME NEW f, NEW g
    PROVE  /\ DOMAIN Over(f, g) = DOMAIN f \cup DOMAIN g
           /\ \A k \in DOMAIN f : Over(f, g)[k] = f[k]
           /\ \A k \in DOMAIN g : k \notin DOMAIN f => Over(f, g)[k] = g[k]
BY Zenon DEF Over

\* A deletion writes the mark for absence under its keys.
LEMMA DeletionIs ==
    ASSUME NEW keys
    PROVE  DOMAIN Deletion(keys) = keys /\ \A k \in keys : Deletion(keys)[k] = Absent
BY Zenon DEF Deletion

\* The parts of an effect.
LEMMA EffectIs ==
    ASSUME NEW ok, NEW reads, NEW writes
    PROVE  /\ Effect(ok, reads, writes).ok = ok /\ Effect(ok, reads, writes).reads = reads
           /\ Effect(ok, reads, writes).writes = writes
BY Zenon DEF Effect

\* One effect after another: both have to succeed, reads add up, the later write counts.
LEMMA ThenIs ==
    ASSUME NEW a, NEW b
    PROVE  /\ Then(a, b).ok <=> a.ok /\ b.ok
           /\ Then(a, b).reads = a.reads \cup b.reads
           /\ Then(a, b).writes = Over(b.writes, a.writes)
           /\ DOMAIN Then(a, b).writes = DOMAIN a.writes \cup DOMAIN b.writes
           /\ \A k \in DOMAIN b.writes : Then(a, b).writes[k] = b.writes[k]
           /\ \A k \in DOMAIN a.writes : k \notin DOMAIN b.writes => Then(a, b).writes[k] = a.writes[k]
<1>1. /\ Then(a, b).ok = (a.ok /\ b.ok) /\ Then(a, b).reads = a.reads \cup b.reads
      /\ Then(a, b).writes = Over(b.writes, a.writes)
  BY EffectIs DEF Then
<1>2. Then(a, b).ok <=> a.ok /\ b.ok
  BY Zenon, <1>1
<1>3. /\ DOMAIN Then(a, b).writes = DOMAIN a.writes \cup DOMAIN b.writes
      /\ \A k \in DOMAIN b.writes : Then(a, b).writes[k] = b.writes[k]
      /\ \A k \in DOMAIN a.writes : k \notin DOMAIN b.writes => Then(a, b).writes[k] = a.writes[k]
  BY Zenon, <1>1 DEF Over
<1> QED BY Zenon, <1>1, <1>2, <1>3

\* The store after a commit.
LEMMA Applied ==
    ASSUME NEW S, Clean(S), NEW w
    PROVE  /\ Clean(Apply(S, w))
           /\ \A k : Has(Apply(S, w), k) <=> IF k \in DOMAIN w THEN w[k] # Absent ELSE Has(S, k)
           /\ \A k : Has(Apply(S, w), k) => Apply(S, w)[k] = IF k \in DOMAIN w THEN w[k] ELSE S[k]
<1> DEFINE M == Over(w, S)
<1>1. Apply(S, w) = [k \in {x \in DOMAIN M : M[x] # Absent} |-> M[k]]
  BY Zenon DEF Apply
<1>2. DOMAIN M = DOMAIN w \cup DOMAIN S /\ (\A k \in DOMAIN w : M[k] = w[k])
      /\ \A k \in DOMAIN S : k \notin DOMAIN w => M[k] = S[k]
  BY Zenon, OverIs
<1> HIDE DEF M
<1>3. DOMAIN Apply(S, w) = {x \in DOMAIN M : M[x] # Absent}
      /\ \A k \in {x \in DOMAIN M : M[x] # Absent} : Apply(S, w)[k] = M[k]
  BY Zenon, <1>1
<1> HIDE <1>1
<1> QED BY Zenon, <1>2, <1>3 DEF Has, Clean

\* The keys of the store.
LEMMA KeysApart ==
    /\ \A n, m : NodeKey(n) = NodeKey(m) => n = m
    /\ \A n, m : LabelKey(n) = LabelKey(m) => n = m
    /\ \A v, n, u, m : PropKey(v, n) = PropKey(u, m) => v = u /\ n = m
    /\ \A v, u : UniqueKey(v) = UniqueKey(u) => v = u
    /\ \A e, f : EdgeKey(e) = EdgeKey(f) => e = f
    /\ \A n, e, m, f : OutKey(n, e) = OutKey(m, f) => n = m /\ e = f
    /\ \A n, e, m, f : InKey(n, e) = InKey(m, f) => n = m /\ e = f
    /\ \A n, m : Counter(n) = Counter(m) => n = m
BY Zenon DEF NodeKey, LabelKey, PropKey, UniqueKey, EdgeKey, OutKey, InKey, Counter

Tag(k) == k[1]

\* The tag of each kind of key.
LEMMA Tags ==
    /\ \A n : Tag(NodeKey(n)) = "n"
    /\ \A n : Tag(LabelKey(n)) = "l"
    /\ \A v, n : Tag(PropKey(v, n)) = "p"
    /\ \A v : Tag(UniqueKey(v)) = "u"
    /\ \A e : Tag(EdgeKey(e)) = "e"
    /\ \A n, e : Tag(OutKey(n, e)) = "o"
    /\ \A n, e : Tag(InKey(n, e)) = "i"
    /\ \A n : Tag(Counter(n)) = "c"
    /\ Tag(IndexKey) = "X" /\ Tag(ConstraintKey) = "U"
BY Zenon DEF Tag, NodeKey, LabelKey, PropKey, UniqueKey, EdgeKey, OutKey, InKey, Counter, IndexKey, ConstraintKey

\* What a store has under a key, when nothing in it is Absent.
LEMMA GetIs ==
    ASSUME NEW S, Clean(S), NEW k
    PROVE  /\ Get(S, k) = Absent <=> ~Has(S, k)
           /\ Has(S, k) => Get(S, k) = S[k]
BY Zenon DEF Get, Clean, Has

\* A stored Boolean is not the mark for absence.
LEMMA TrueThere == TRUE # Absent /\ FALSE # Absent
BY Zenon, IsolationAssumption

\* claimValue takes a value that nobody has.
LEMMA ClaimIs ==
    ASSUME NEW S, Clean(S), NEW v, NEW n \in Nat
    PROVE  LET E == claimValue(S, v, n)
           IN /\ E.ok <=> (Has(S, UniqueKey(v)) => S[UniqueKey(v)] = n)
              /\ E.reads = {UniqueKey(v)}
              /\ DOMAIN E.writes = {k \in {UniqueKey(v)} : ~Has(S, k)}
              /\ ~Has(S, UniqueKey(v)) => E.writes[UniqueKey(v)] = n
<1> DEFINE owner == Get(S, UniqueKey(v))
           written == IF owner = Absent THEN Pair(UniqueKey(v), n) ELSE <<>>
<1>1. claimValue(S, v, n) = Effect(owner \in {Absent, n}, {UniqueKey(v)}, written)
  BY Zenon DEF claimValue
<1>2. claimValue(S, v, n).ok = (owner \in {Absent, n}) /\ claimValue(S, v, n).reads = {UniqueKey(v)}
      /\ claimValue(S, v, n).writes = written
  BY <1>1, EffectIs
<1>3. Absent # n
  BY Zenon, IsolationAssumption
<1>4. claimValue(S, v, n).ok <=> (Has(S, UniqueKey(v)) => S[UniqueKey(v)] = n)
  <2>1. (owner \in {Absent, n}) <=> (Has(S, UniqueKey(v)) => S[UniqueKey(v)] = n)
    BY Zenon, <1>3, GetIs
  <2> QED BY Zenon, <1>2, <2>1
<1>5. CASE Has(S, UniqueKey(v))
  <2>1. written = <<>>
    BY Zenon, <1>5, GetIs
  <2> QED BY <1>2, <1>4, <1>5, <2>1
<1>6. CASE ~Has(S, UniqueKey(v))
  <2>1. written = Pair(UniqueKey(v), n)
    BY Zenon, <1>6, GetIs
  <2>2. DOMAIN claimValue(S, v, n).writes = {UniqueKey(v)} /\ claimValue(S, v, n).writes[UniqueKey(v)] = n
    BY Zenon, <1>2, <2>1 DEF Pair
  <2> QED BY Zenon, <1>2, <1>4, <1>6, <2>2
<1> QED BY Zenon, <1>5, <1>6

\* putPropEntry writes the entry of an indexed value, and claims a unique one.
Indexed(S) == Has(S, IndexKey)
Constrained(S) == Has(S, IndexKey) /\ Has(S, ConstraintKey)

\* What putPropEntry reads and writes, and when it fails.
LEMMA PutIs ==
    ASSUME NEW S, Clean(S), NEW v, NEW n \in Nat
    PROVE  LET E == putPropEntry(S, v, n)
           IN /\ E.ok <=> (Constrained(S) /\ Has(S, UniqueKey(v)) => S[UniqueKey(v)] = n)
              /\ E.reads = {IndexKey} \cup {k \in {ConstraintKey} : Indexed(S)} \cup {k \in {UniqueKey(v)} : Constrained(S)}
              /\ DOMAIN E.writes = {k \in {PropKey(v, n)} : Indexed(S)}
                                     \cup {k \in {UniqueKey(v)} : Constrained(S) /\ ~Has(S, k)}
              /\ Indexed(S) => E.writes[PropKey(v, n)] # Absent
              /\ Constrained(S) /\ ~Has(S, UniqueKey(v)) => E.writes[UniqueKey(v)] = n
<1> DEFINE put == Effect(TRUE, {IndexKey, ConstraintKey}, Pair(PropKey(v, n), TRUE))
           claim == claimValue(S, v, n)
           E == putPropEntry(S, v, n)
<1>1. /\ put.ok /\ put.reads = {IndexKey, ConstraintKey} /\ DOMAIN put.writes = {PropKey(v, n)}
      /\ put.writes[PropKey(v, n)] # Absent
  BY Zenon, TrueThere DEF Effect, Pair
<1>2. CASE ~Indexed(S)
  <2>1. E = Effect(TRUE, {IndexKey}, <<>>)
    BY Zenon, <1>2 DEF putPropEntry, Nothing, Indexed
  <2>2. E.ok /\ E.reads = {IndexKey} /\ E.writes = <<>>
    BY <2>1 DEF Effect
  <2> HIDE DEF E
  <2> QED BY <1>2, <2>2 DEF E, Indexed, Constrained
<1>3. CASE Indexed(S) /\ ~Constrained(S)
  <2>1. E = put
    BY Zenon, <1>3 DEF putPropEntry, Indexed, Constrained
  <2> HIDE DEF E, put
  <2> QED BY Zenon, <1>1, <1>3, <2>1 DEF E
<1>4. CASE Indexed(S) /\ Constrained(S)
  <2>1. E = Then(put, claim)
    BY Zenon, <1>4 DEF putPropEntry, Indexed, Constrained
  <2>2. /\ claim.ok <=> (Has(S, UniqueKey(v)) => S[UniqueKey(v)] = n)
        /\ claim.reads = {UniqueKey(v)}
        /\ DOMAIN claim.writes = {k \in {UniqueKey(v)} : ~Has(S, k)}
        /\ ~Has(S, UniqueKey(v)) => claim.writes[UniqueKey(v)] = n
    BY ClaimIs
  <2> HIDE DEF E, put, claim
  <2>3. /\ E.ok <=> put.ok /\ claim.ok
        /\ E.reads = put.reads \cup claim.reads
        /\ DOMAIN E.writes = DOMAIN put.writes \cup DOMAIN claim.writes
        /\ \A k \in DOMAIN claim.writes : E.writes[k] = claim.writes[k]
        /\ \A k \in DOMAIN put.writes : k \notin DOMAIN claim.writes => E.writes[k] = put.writes[k]
    BY <2>1, ThenIs
  <2>4. PropKey(v, n) # UniqueKey(v)
    BY Zenon DEF PropKey, UniqueKey
  <2>5. E.ok <=> (Constrained(S) /\ Has(S, UniqueKey(v)) => S[UniqueKey(v)] = n)
    BY Zenon, <1>1, <1>4, <2>2, <2>3
  <2> QED BY Zenon, <1>1, <1>4, <2>2, <2>3, <2>4, <2>5 DEF E
<1> QED BY Zenon, <1>2, <1>3, <1>4

\* delPropEntry deletes the entry, and the owner if it is this node.
LEMMA DelIs ==
    ASSUME NEW S, Clean(S), NEW v, NEW n \in Nat
    PROVE  LET E == delPropEntry(S, v, n)
           IN /\ E.ok
              /\ E.reads = {IndexKey} \cup {k \in {ConstraintKey} : Indexed(S)} \cup {k \in {UniqueKey(v)} : Constrained(S)}
              /\ DOMAIN E.writes = {k \in {PropKey(v, n)} : Indexed(S)}
                                     \cup {k \in {UniqueKey(v)} : Constrained(S) /\ Has(S, k) /\ S[k] = n}
              /\ \A k \in DOMAIN E.writes : E.writes[k] = Absent
<1> DEFINE unique == Has(S, ConstraintKey)
           released == IF unique /\ Get(S, UniqueKey(v)) = n THEN {UniqueKey(v)} ELSE {}
           reads == {IndexKey, ConstraintKey} \cup (IF unique THEN {UniqueKey(v)} ELSE {})
           E == delPropEntry(S, v, n)
<1>1. Absent # n
  BY Zenon, IsolationAssumption
<1>2. CASE ~Indexed(S)
  <2>1. E = Effect(TRUE, {IndexKey}, <<>>)
    BY Zenon, <1>2 DEF delPropEntry, Nothing, Indexed
  <2>2. E.ok /\ E.reads = {IndexKey} /\ E.writes = <<>>
    BY <2>1 DEF Effect
  <2> HIDE DEF E
  <2> QED BY <1>2, <2>2 DEF E, Indexed, Constrained
<1>3. CASE Indexed(S)
  <2>1. E = Effect(TRUE, reads, Deletion({PropKey(v, n)} \cup released))
    BY Zenon, <1>3 DEF delPropEntry, Indexed
  <2>2. released = {k \in {UniqueKey(v)} : Constrained(S) /\ Has(S, k) /\ S[k] = n}
    BY Zenon, <1>1, <1>3, GetIs DEF Indexed, Constrained
  <2>3. reads = {IndexKey, ConstraintKey} \cup {k \in {UniqueKey(v)} : Constrained(S)}
    BY Zenon, <1>3 DEF Indexed, Constrained
  <2> HIDE DEF E, reads, released
  <2>4. /\ E.ok /\ E.reads = reads /\ DOMAIN E.writes = {PropKey(v, n)} \cup released
        /\ \A k \in DOMAIN E.writes : E.writes[k] = Absent
    BY Zenon, <2>1 DEF Effect, Deletion
  <2> QED BY Zenon, <1>3, <2>2, <2>3, <2>4 DEF E
<1> QED BY Zenon, <1>2, <1>3

\* nextCounter takes the next number.
LEMMA NextIs ==
    ASSUME NEW S, NEW kind, Count(S, kind) \in Nat
    PROVE  LET E == nextCounter(S, kind)
           IN /\ E.ok /\ E.reads = {Counter(kind)} /\ DOMAIN E.writes = {Counter(kind)}
              /\ E.writes[Counter(kind)] = Count(S, kind) + 1
<1> DEFINE new == IF Has(S, Counter(kind)) THEN S[Counter(kind)] + 1 ELSE 1
<1>1. new = Count(S, kind) + 1
  BY DEF Count
<1>2. nextCounter(S, kind) = Effect(TRUE, {Counter(kind)}, Pair(Counter(kind), new))
  BY Zenon DEF nextCounter
<1> HIDE DEF new
<1> QED BY <1>1, <1>2 DEF Effect, Pair

\* What CreateNode writes.
NewNode(S) == Count(S, "n") + 1

\* What CreateNode writes.
LEMMA CreateIs ==
    ASSUME NEW S, Sound(S), NEW v \in Value, CreateNode(S, v).ok
    PROVE  LET n == NewNode(S)
               P == putPropEntry(S, v, n)
               E == CreateNode(S, v)
           IN /\ n \in Nat /\ n \in NodeId /\ P.ok
              /\ E.reads = {Counter("n")} \cup P.reads
              /\ DOMAIN E.writes = {Counter("n"), NodeKey(n), LabelKey(n)} \cup DOMAIN P.writes
              /\ E.writes[Counter("n")] = n /\ E.writes[NodeKey(n)] = v /\ E.writes[LabelKey(n)] # Absent
              /\ \A k \in DOMAIN P.writes : E.writes[k] = P.writes[k]
<1> DEFINE n == NewNode(S)
           id == nextCounter(S, "n")
           rec == Effect(TRUE, {}, Over(Pair(NodeKey(n), v), Pair(LabelKey(n), TRUE)))
           P == putPropEntry(S, v, n)
           E == CreateNode(S, v)
<1>1. Clean(S) /\ Count(S, "n") \in Nat
  BY Zenon DEF Sound, Counters
<1>2. id.ok /\ id.reads = {Counter("n")} /\ DOMAIN id.writes = {Counter("n")} /\ id.writes[Counter("n")] = n
  BY Zenon, <1>1, NextIs DEF NewNode
<1>3. n \in Nat /\ n # 0
  BY <1>1 DEF NewNode
<1>4. ~Failure.ok
  BY Zenon DEF Failure, Effect
<1>5. CreateNode(S, v) = IF n > MaxNode THEN Failure ELSE Then(Then(id, rec), P)
  BY Zenon, <1>2 DEF CreateNode
<1>6. n \in NodeId /\ E = Then(Then(id, rec), P)
  <2> HIDE DEF n, id, rec, P
  <2>1. ~(n > MaxNode)
    BY Zenon, <1>4, <1>5
  <2>2. MaxNode \in Nat
    BY Zenon, IsolationAssumption
  <2>3. n \in 1..MaxNode
    BY <1>3, <2>1, <2>2
  <2> QED BY Zenon, <1>5, <2>1, <2>3 DEF NodeId
<1>7. NodeKey(n) # LabelKey(n) /\ NodeKey(n) # Counter("n") /\ LabelKey(n) # Counter("n")
  BY Zenon DEF NodeKey, LabelKey, Counter
<1>8. /\ rec.ok /\ rec.reads = {} /\ DOMAIN rec.writes = {NodeKey(n), LabelKey(n)}
      /\ rec.writes[NodeKey(n)] = v /\ rec.writes[LabelKey(n)] # Absent
  <2> HIDE DEF n
  <2> QED BY Zenon, <1>7, TrueThere DEF Effect, Over, Pair
<1> DEFINE A == Then(id, rec)
<1> HIDE DEF id, rec, E, n
<1>9. /\ A.ok /\ A.reads = {Counter("n")} /\ DOMAIN A.writes = {Counter("n"), NodeKey(n), LabelKey(n)}
      /\ A.writes[Counter("n")] = n /\ A.writes[NodeKey(n)] = v /\ A.writes[LabelKey(n)] # Absent
  <2>1. /\ A.ok <=> id.ok /\ rec.ok
        /\ A.reads = id.reads \cup rec.reads
        /\ DOMAIN A.writes = DOMAIN id.writes \cup DOMAIN rec.writes
        /\ \A k \in DOMAIN rec.writes : A.writes[k] = rec.writes[k]
        /\ \A k \in DOMAIN id.writes : k \notin DOMAIN rec.writes => A.writes[k] = id.writes[k]
    BY ThenIs
  <2> HIDE DEF A
  <2> QED BY Zenon, <1>2, <1>7, <1>8, <2>1
<1> HIDE DEF A, P
<1>10. /\ E.ok <=> A.ok /\ P.ok
       /\ E.reads = A.reads \cup P.reads
       /\ DOMAIN E.writes = DOMAIN A.writes \cup DOMAIN P.writes
       /\ \A k \in DOMAIN P.writes : E.writes[k] = P.writes[k]
       /\ \A k \in DOMAIN A.writes : k \notin DOMAIN P.writes => E.writes[k] = A.writes[k]
  BY <1>6, ThenIs DEF A
<1>11. E.ok
  BY Zenon DEF E
<1>12. \A k \in DOMAIN P.writes : k # Counter("n") /\ k # NodeKey(n) /\ k # LabelKey(n)
  <2>1. \A k \in DOMAIN P.writes : k \in {PropKey(v, n), UniqueKey(v)}
    <3>1. DOMAIN P.writes = {k \in {PropKey(v, n)} : Indexed(S)}
                              \cup {k \in {UniqueKey(v)} : Constrained(S) /\ ~Has(S, k)}
      BY Zenon, <1>1, <1>3, PutIs DEF P
    <3> QED BY Zenon, <3>1
  <2>2. \A k \in {PropKey(v, n), UniqueKey(v)} : k # Counter("n") /\ k # NodeKey(n) /\ k # LabelKey(n)
    BY DEF PropKey, UniqueKey, Counter, NodeKey, LabelKey
  <2> QED BY Zenon, <2>1, <2>2
<1>13. DOMAIN E.writes = {Counter("n"), NodeKey(n), LabelKey(n)} \cup DOMAIN P.writes
       /\ E.reads = {Counter("n")} \cup P.reads
  BY Zenon, <1>9, <1>10
<1>14. E.writes[Counter("n")] = n /\ E.writes[NodeKey(n)] = v /\ E.writes[LabelKey(n)] # Absent
  BY Zenon, <1>9, <1>10, <1>12
<1> QED BY Zenon, <1>3, <1>6, <1>10, <1>11, <1>13, <1>14 DEF n, P, E

----------------------------------------------------------------------------
(* Which parts of a store a step leaves alone.                             *)

Same(S, T, k) == (Has(T, k) <=> Has(S, k)) /\ (Has(S, k) => T[k] = S[k])

\* A store after writes, key by key.
LEMMA AppliedAt ==
    ASSUME NEW S, Clean(S), NEW w, NEW k
    PROVE  /\ k \notin DOMAIN w => Same(S, Apply(S, w), k)
           /\ k \in DOMAIN w /\ w[k] # Absent => Has(Apply(S, w), k) /\ Apply(S, w)[k] = w[k]
           /\ k \in DOMAIN w /\ w[k] = Absent => ~Has(Apply(S, w), k)
BY Zenon, Applied DEF Same

\* Edges stay where no key of theirs is written and no node goes away.
LEMMA EdgesStay ==
    ASSUME NEW S, NEW T, EdgeRecords(S), Same(S, T, Counter("e")),
           \A e \in Nat : Same(S, T, EdgeKey(e)),
           \A n, e \in Nat : Same(S, T, OutKey(n, e)) /\ Same(S, T, InKey(n, e)),
           \A n \in Nat : Has(S, NodeKey(n)) => Has(T, NodeKey(n))
    PROVE  EdgeRecords(T)
<1>1. Count(T, "e") = Count(S, "e")
  BY Zenon DEF Same, Count
<1>2. ASSUME NEW e \in Nat, Has(T, EdgeKey(e))
      PROVE  /\ e \in EdgeId /\ e <= Count(T, "e") /\ T[EdgeKey(e)] \in Nat \X Nat
             /\ Has(T, NodeKey(T[EdgeKey(e)][1])) /\ Has(T, NodeKey(T[EdgeKey(e)][2]))
  <2>1. Has(S, EdgeKey(e)) /\ T[EdgeKey(e)] = S[EdgeKey(e)]
    BY Zenon, <1>2 DEF Same
  <2>2. /\ e \in EdgeId /\ e <= Count(S, "e") /\ S[EdgeKey(e)] \in Nat \X Nat
        /\ Has(S, NodeKey(S[EdgeKey(e)][1])) /\ Has(S, NodeKey(S[EdgeKey(e)][2]))
    BY Zenon, <2>1 DEF EdgeRecords
  <2>3. S[EdgeKey(e)][1] \in Nat /\ S[EdgeKey(e)][2] \in Nat
    BY Zenon, <2>2
  <2> QED BY Zenon, <1>1, <2>1, <2>2, <2>3
<1>3. ASSUME NEW n \in Nat, NEW e \in Nat
      PROVE  /\ Has(T, OutKey(n, e)) <=> Has(T, EdgeKey(e)) /\ T[EdgeKey(e)][1] = n
             /\ Has(T, InKey(n, e)) <=> Has(T, EdgeKey(e)) /\ T[EdgeKey(e)][2] = n
  BY <1>3 DEF Same, EdgeRecords
<1> QED BY Zenon, <1>2, <1>3 DEF EdgeRecords

\* Keys with a tag that no written key has.
LEMMA Untouched ==
    ASSUME NEW S, Clean(S), NEW w, NEW tags, \A k \in DOMAIN w : Tag(k) \in tags
    PROVE  \A k : Tag(k) \notin tags => Same(S, Apply(S, w), k)
BY Zenon, AppliedAt

\* Writes that keep the nodes and touch no edge key keep the edges in order.
LEMMA EdgesUntouched ==
    ASSUME NEW S, Sound(S), NEW w, \A k \in DOMAIN w : Tag(k) \in {"n", "l", "p", "u", "X", "U"} \/ k = Counter("n"),
           \A n \in Nat : Has(S, NodeKey(n)) => Has(Apply(S, w), NodeKey(n))
    PROVE  EdgeRecords(Apply(S, w))
<1>1. Clean(S) /\ EdgeRecords(S)
  BY Zenon DEF Sound
<1>2. \A k : Tag(k) \notin {"n", "l", "p", "u", "X", "U"} /\ k # Counter("n") => Same(S, Apply(S, w), k)
  BY Zenon, <1>1, AppliedAt
<1>3. Counter("e") # Counter("n") /\ \A n : EdgeKey(n) # Counter("n") /\ \A e : OutKey(n, e) # Counter("n") /\ InKey(n, e) # Counter("n")
  BY Zenon DEF Counter, EdgeKey, OutKey, InKey
<1>4. Same(S, Apply(S, w), Counter("e")) /\ (\A e \in Nat : Same(S, Apply(S, w), EdgeKey(e)))
      /\ \A n, e \in Nat : Same(S, Apply(S, w), OutKey(n, e)) /\ Same(S, Apply(S, w), InKey(n, e))
  BY Zenon, <1>2, <1>3, Tags
<1> QED BY Zenon, <1>1, <1>4, EdgesStay

\* CREATE of a node keeps the store a graph.
LEMMA CreateKeeps ==
    ASSUME NEW S, Sound(S), NEW v \in Value, CreateNode(S, v).ok
    PROVE  Sound(Apply(S, CreateNode(S, v).writes))
<1> DEFINE n == NewNode(S)
           P == putPropEntry(S, v, n)
           w == CreateNode(S, v).writes
           T == Apply(S, w)
<1>1. /\ n \in Nat /\ n \in NodeId /\ P.ok
      /\ DOMAIN w = {Counter("n"), NodeKey(n), LabelKey(n)} \cup DOMAIN P.writes
      /\ w[Counter("n")] = n /\ w[NodeKey(n)] = v /\ w[LabelKey(n)] # Absent
      /\ \A k \in DOMAIN P.writes : w[k] = P.writes[k]
  BY CreateIs
<1>2. Clean(S) /\ Counters(S) /\ NodeRecords(S) /\ Entries(S) /\ Owners(S) /\ EdgeRecords(S)
  BY Zenon DEF Sound
<1>3. /\ Constrained(S) /\ Has(S, UniqueKey(v)) => S[UniqueKey(v)] = n
      /\ DOMAIN P.writes = {k \in {PropKey(v, n)} : Indexed(S)}
                                     \cup {k \in {UniqueKey(v)} : Constrained(S) /\ ~Has(S, k)}
      /\ Indexed(S) => P.writes[PropKey(v, n)] # Absent
      /\ Constrained(S) /\ ~Has(S, UniqueKey(v)) => P.writes[UniqueKey(v)] = n
  BY <1>1, <1>2, PutIs
<1>4. n = Count(S, "n") + 1 /\ Count(S, "n") \in Nat
  BY Zenon, <1>2 DEF NewNode, Counters
<1> HIDE DEF n, P, w
<1>5. ~Has(S, NodeKey(n)) /\ ~Has(S, LabelKey(n))
  BY <1>1, <1>2, <1>4 DEF NodeRecords
<1>6. Constrained(S) => ~Has(S, UniqueKey(v))
  BY Zenon, <1>2, <1>3, <1>5 DEF Owners
<1>7. Absent \notin Value /\ Absent # n
  BY Zenon, <1>1, IsolationAssumption
<1>8. \A k \in DOMAIN w : w[k] # Absent
  BY Zenon, <1>1, <1>3, <1>7
<1>9. /\ \A k : k \notin DOMAIN w => Same(S, T, k)
      /\ \A k \in DOMAIN w : Has(T, k) /\ T[k] = w[k]
      /\ Clean(T)
  BY Zenon, <1>2, <1>8, AppliedAt, Applied
<1>10. DOMAIN w = {Counter("n"), NodeKey(n), LabelKey(n)} \cup {k \in {PropKey(v, n)} : Indexed(S)}
                                     \cup {k \in {UniqueKey(v)} : Constrained(S)}
  BY <1>1, <1>3, <1>6
<1> HIDE DEF T
<1>11. Count(T, "n") = n /\ Count(T, "e") = Count(S, "e")
  <2>1. Has(T, Counter("n")) /\ T[Counter("n")] = n
    BY Zenon, <1>1, <1>9
  <2>2. Counter("e") \notin DOMAIN w
    BY <1>10, Tags, KeysApart
  <2> QED BY Zenon, <2>1, <2>2, <1>9 DEF Count, Same
<1>12. Same(S, T, IndexKey) /\ Same(S, T, ConstraintKey)
  BY Zenon, <1>9, <1>10, Tags
<1>13. /\ Has(T, NodeKey(n)) /\ T[NodeKey(n)] = v /\ Has(T, LabelKey(n))
       /\ \A m \in Nat : m # n => Same(S, T, NodeKey(m)) /\ Same(S, T, LabelKey(m))
  BY <1>1, <1>9, <1>10, Tags, KeysApart
<1>14. /\ Indexed(S) => Has(T, PropKey(v, n))
       /\ \A m \in Nat, u \in Value : ~(Indexed(S) /\ m = n /\ u = v) => Same(S, T, PropKey(u, m))
  BY <1>9, <1>10, Tags, KeysApart
<1>15. /\ Constrained(S) => Has(T, UniqueKey(v)) /\ T[UniqueKey(v)] = n
       /\ \A u \in Value : ~(Constrained(S) /\ u = v) => Same(S, T, UniqueKey(u))
  BY <1>1, <1>3, <1>6, <1>9, <1>10, Tags, KeysApart
<1>16. Counters(T)
  BY Zenon, <1>1, <1>2, <1>11 DEF Counters
<1>17. NodeRecords(T)
  BY <1>1, <1>2, <1>4, <1>11, <1>13 DEF NodeRecords, Same
<1>18. Entries(T)
  BY Zenon, <1>2, <1>5, <1>12, <1>13, <1>14 DEF Entries, Same, Indexed
<1>19. Owners(T)
  BY <1>1, <1>2, <1>5, <1>6, <1>12, <1>13, <1>15 DEF Owners, Same, Constrained, NodeRecords
<1>20. EdgeRecords(T)
  <2>1. \A k \in DOMAIN w : Tag(k) \in {"n", "l", "p", "u", "X", "U"} \/ k = Counter("n")
    BY <1>10, Tags
  <2>2. \A m \in Nat : Has(S, NodeKey(m)) => Has(T, NodeKey(m))
    BY Zenon, <1>13 DEF Same
  <2> QED BY Zenon, <2>1, <2>2, EdgesUntouched DEF T
<1> QED BY Zenon, <1>9, <1>16, <1>17, <1>18, <1>19, <1>20 DEF Sound, T, w

\* Writing nothing changes nothing; the way a set of writes was put together
\* does not matter.
LEMMA NothingWritten ==
    ASSUME NEW S, Sound(S), NEW w, DOMAIN w = {}
    PROVE  Sound(Apply(S, w))
<1>1. Clean(S) /\ Counters(S) /\ NodeRecords(S) /\ Entries(S) /\ Owners(S) /\ EdgeRecords(S)
  BY Zenon DEF Sound
<1> DEFINE T == Apply(S, w)
<1>2. (\A k : Same(S, T, k)) /\ Clean(T)
  BY Zenon, <1>1, AppliedAt, Applied
<1> HIDE DEF T
<1>3. Count(T, "n") = Count(S, "n") /\ Count(T, "e") = Count(S, "e")
  BY Zenon, <1>2 DEF Count, Same
<1>4. Counters(T)
  BY Zenon, <1>1, <1>3 DEF Counters
<1>5. NodeRecords(T)
  BY Zenon, <1>1, <1>2, <1>3 DEF NodeRecords, Same
<1>6. Entries(T)
  BY Zenon, <1>1, <1>2 DEF Entries, Same
<1>7. Owners(T)
  BY <1>1, <1>2 DEF Owners, Same
<1>8. EdgeRecords(T)
  BY Zenon, <1>1, <1>2, EdgesStay DEF Same
<1> QED BY Zenon, <1>2, <1>4, <1>5, <1>6, <1>7, <1>8 DEF Sound, T

\* Writes that agree key by key do the same.
LEMMA SameWrites ==
    ASSUME NEW S, NEW w, NEW x, DOMAIN w = DOMAIN x, \A k \in DOMAIN w : w[k] = x[k]
    PROVE  Apply(S, w) = Apply(S, x)
<1>1. Over(w, S) = Over(x, S)
  BY Zenon DEF Over
<1> QED BY Zenon, <1>1 DEF Apply

\* Two sets of writes, one after the other, are one.
LEMMA AppliedTwice ==
    ASSUME NEW S, Clean(S), NEW w, NEW x
    PROVE  Apply(Apply(S, w), x) = Apply(S, Over(x, w))
<1> DEFINE A == Apply(Apply(S, w), x)
           B == Apply(S, Over(x, w))
<1>1. \A k : Has(Apply(S, w), k) <=> IF k \in DOMAIN w THEN w[k] # Absent ELSE Has(S, k)
  BY Zenon, Applied
<1>2. \A k : Has(Apply(S, w), k) => Apply(S, w)[k] = IF k \in DOMAIN w THEN w[k] ELSE S[k]
  BY Zenon, Applied
<1>3. \A k : Has(A, k) <=> IF k \in DOMAIN x THEN x[k] # Absent ELSE Has(Apply(S, w), k)
  BY Zenon, Applied
<1>4. \A k : Has(A, k) => A[k] = IF k \in DOMAIN x THEN x[k] ELSE Apply(S, w)[k]
  BY Zenon, Applied
<1>5. \A k : Has(B, k) <=> IF k \in DOMAIN Over(x, w) THEN Over(x, w)[k] # Absent ELSE Has(S, k)
  BY Zenon, Applied
<1>6. \A k : Has(B, k) => B[k] = IF k \in DOMAIN Over(x, w) THEN Over(x, w)[k] ELSE S[k]
  BY Zenon, Applied
<1>7. A = [k \in DOMAIN A |-> A[k]] /\ B = [k \in DOMAIN B |-> B[k]]
  BY Zenon DEF Apply
<1>8. /\ DOMAIN Over(x, w) = DOMAIN x \cup DOMAIN w /\ (\A k \in DOMAIN x : Over(x, w)[k] = x[k])
      /\ \A k \in DOMAIN w : k \notin DOMAIN x => Over(x, w)[k] = w[k]
  BY Zenon, OverIs
<1> HIDE DEF A, B
<1>9. \A k : Has(A, k) <=> Has(B, k)
  BY Zenon, <1>1, <1>3, <1>5, <1>8
<1>10. \A k : Has(A, k) => A[k] = B[k]
  BY Zenon, <1>1, <1>2, <1>3, <1>4, <1>6, <1>8, <1>9
<1>11. DOMAIN A = DOMAIN B /\ \A k \in DOMAIN A : A[k] = B[k]
  BY Zenon, <1>9, <1>10 DEF Has
<1> QED BY Zenon, <1>7, <1>11 DEF A, B

\* mergeNode: a match writes nothing, otherwise the node is created.
Matches(S, v) == \E n \in NodesByLabel(S) : S[NodeKey(n)] = v

\* MERGE writes nothing, or what CREATE does.
LEMMA MergeIs ==
    ASSUME NEW S, NEW v, mergeNode(S, v).ok
    PROVE  LET E == mergeNode(S, v)
               C == CreateNode(S, v)
           IN /\ Readable(S)
              /\ Matches(S, v) => DOMAIN E.writes = {}
              /\ ~Matches(S, v) => /\ C.ok /\ E.reads = ScanReads(S) \cup C.reads
                                   /\ DOMAIN E.writes = DOMAIN C.writes
                                   /\ \A k \in DOMAIN E.writes : E.writes[k] = C.writes[k]
<1> DEFINE E == mergeNode(S, v)
           C == CreateNode(S, v)
           R == Nothing(ScanReads(S))
<1>1. ~Failure.ok /\ R.ok /\ R.reads = ScanReads(S) /\ R.writes = <<>>
  BY Zenon DEF Failure, Nothing, Effect
<1>2. E = IF ~Readable(S) THEN Failure ELSE IF Matches(S, v) THEN R ELSE Then(R, C)
  BY Zenon DEF mergeNode, Matches
<1>3. /\ Then(R, C).ok <=> R.ok /\ C.ok
      /\ Then(R, C).reads = R.reads \cup C.reads
      /\ DOMAIN Then(R, C).writes = DOMAIN R.writes \cup DOMAIN C.writes
      /\ \A k \in DOMAIN C.writes : Then(R, C).writes[k] = C.writes[k]
  BY ThenIs
<1>4. DOMAIN R.writes = {}
  BY <1>1
<1> HIDE DEF C, R
<1>5. Readable(S)
  BY Zenon, <1>1, <1>2
<1> HIDE DEF E
<1>6. CASE Matches(S, v)
  <2>1. E = R
    BY Zenon, <1>2, <1>5, <1>6
  <2> QED BY Zenon, <1>4, <1>5, <1>6, <2>1 DEF E
<1>7. CASE ~Matches(S, v)
  <2>1. E = Then(R, C)
    BY Zenon, <1>2, <1>5, <1>7
  <2>2. C.ok
    BY Zenon, <1>3, <2>1 DEF E
  <2>3. /\ E.reads = ScanReads(S) \cup C.reads /\ DOMAIN E.writes = DOMAIN C.writes
        /\ \A k \in DOMAIN E.writes : E.writes[k] = C.writes[k]
    BY Zenon, <1>1, <1>3, <1>4, <2>1
  <2> QED BY Zenon, <1>5, <1>7, <2>2, <2>3 DEF E, C
<1> QED BY Zenon, <1>6, <1>7

\* MERGE keeps the store a graph.
LEMMA MergeKeeps ==
    ASSUME NEW S, Sound(S), NEW v \in Value, mergeNode(S, v).ok
    PROVE  Sound(Apply(S, mergeNode(S, v).writes))
<1>1. CASE Matches(S, v)
  BY Zenon, <1>1, MergeIs, NothingWritten
<1>2. CASE ~Matches(S, v)
  <2>1. CreateNode(S, v).ok /\ Apply(S, mergeNode(S, v).writes) = Apply(S, CreateNode(S, v).writes)
    BY Zenon, <1>2, MergeIs, SameWrites
  <2> QED BY Zenon, <2>1, CreateKeeps
<1> QED BY Zenon, <1>1, <1>2

\* What SetProperty writes for a node that is there.
LEMMA SetIs ==
    ASSUME NEW S, Sound(S), NEW n \in Nat, NEW v \in Value, Has(S, NodeKey(n))
    PROVE  LET old == S[NodeKey(n)]
               D == delPropEntry(S, old, n)
               P == putPropEntry(Apply(S, D.writes), v, n)
               E == SetProperty(S, n, v)
           IN /\ old \in Value /\ Clean(Apply(S, D.writes))
              /\ E.ok <=> P.ok
              /\ E.reads = D.reads \cup P.reads \cup {NodeKey(n)}
              /\ DOMAIN E.writes = DOMAIN D.writes \cup DOMAIN P.writes \cup {NodeKey(n)}
              /\ E.writes[NodeKey(n)] = v
              /\ \A k \in DOMAIN P.writes : E.writes[k] = P.writes[k]
              /\ \A k \in DOMAIN D.writes : k \notin DOMAIN P.writes => E.writes[k] = D.writes[k]
<1> DEFINE old == S[NodeKey(n)]
           D == delPropEntry(S, old, n)
           P == putPropEntry(Apply(S, D.writes), v, n)
           R == Effect(TRUE, {NodeKey(n)}, Pair(NodeKey(n), v))
           A == Then(D, P)
           E == SetProperty(S, n, v)
<1>1. Clean(S) /\ old \in Value
  BY Zenon DEF Sound, NodeRecords
<1>2. Clean(Apply(S, D.writes))
  BY Zenon, <1>1, Applied
<1>3. E = Then(A, R)
  BY Zenon DEF SetProperty
<1>4. R.ok /\ R.reads = {NodeKey(n)} /\ DOMAIN R.writes = {NodeKey(n)} /\ R.writes[NodeKey(n)] = v
  BY Zenon DEF Effect, Pair
<1>5. D.ok /\ NodeKey(n) \notin DOMAIN D.writes
  <2>1. D.ok /\ DOMAIN D.writes = {k \in {PropKey(old, n)} : Indexed(S)}
                                     \cup {k \in {UniqueKey(old)} : Constrained(S) /\ Has(S, k) /\ S[k] = n}
    BY <1>1, DelIs
  <2>2. NodeKey(n) # PropKey(old, n) /\ NodeKey(n) # UniqueKey(old)
    BY Zenon DEF NodeKey, PropKey, UniqueKey
  <2> HIDE DEF D, old
  <2> QED BY Zenon, <2>1, <2>2
<1>6. NodeKey(n) \notin DOMAIN P.writes
  <2> DEFINE S1 == Apply(S, D.writes)
  <2>1. DOMAIN P.writes = {k \in {PropKey(v, n)} : Indexed(S1)}
                                     \cup {k \in {UniqueKey(v)} : Constrained(S1) /\ ~Has(S1, k)}
    BY Zenon, <1>2, PutIs
  <2>2. NodeKey(n) # PropKey(v, n) /\ NodeKey(n) # UniqueKey(v)
    BY Zenon DEF NodeKey, PropKey, UniqueKey
  <2> HIDE DEF P, S1
  <2> QED BY Zenon, <2>1, <2>2
<1> HIDE DEF D, P, R, E
<1>7. /\ A.ok <=> D.ok /\ P.ok
      /\ A.reads = D.reads \cup P.reads
      /\ DOMAIN A.writes = DOMAIN D.writes \cup DOMAIN P.writes
      /\ \A k \in DOMAIN P.writes : A.writes[k] = P.writes[k]
      /\ \A k \in DOMAIN D.writes : k \notin DOMAIN P.writes => A.writes[k] = D.writes[k]
  BY ThenIs
<1> HIDE DEF A
<1>8. /\ E.ok <=> A.ok /\ R.ok
      /\ E.reads = A.reads \cup R.reads
      /\ DOMAIN E.writes = DOMAIN A.writes \cup DOMAIN R.writes
      /\ \A k \in DOMAIN R.writes : E.writes[k] = R.writes[k]
      /\ \A k \in DOMAIN A.writes : k \notin DOMAIN R.writes => E.writes[k] = A.writes[k]
  BY <1>3, ThenIs
<1>9. E.ok <=> P.ok
  BY Zenon, <1>4, <1>5, <1>7, <1>8
<1>10. /\ E.reads = D.reads \cup P.reads \cup {NodeKey(n)}
       /\ DOMAIN E.writes = DOMAIN D.writes \cup DOMAIN P.writes \cup {NodeKey(n)}
  BY Zenon, <1>4, <1>7, <1>8
<1>11. /\ E.writes[NodeKey(n)] = v
       /\ \A k \in DOMAIN P.writes : E.writes[k] = P.writes[k]
       /\ \A k \in DOMAIN D.writes : k \notin DOMAIN P.writes => E.writes[k] = D.writes[k]
  BY Zenon, <1>4, <1>5, <1>6, <1>7, <1>8
<1> QED BY Zenon, <1>1, <1>2, <1>9, <1>10, <1>11 DEF D, P, E

\* The keys SetProperty writes: the entry and the owner move with the value.
LEMMA SetWrites ==
    ASSUME NEW S, Sound(S), NEW n \in Nat, NEW v \in Value, Has(S, NodeKey(n)), SetProperty(S, n, v).ok
    PROVE  LET old == S[NodeKey(n)]
               w == SetProperty(S, n, v).writes
           IN /\ old \in Value
              /\ DOMAIN w = {NodeKey(n)} \cup {k \in {PropKey(old, n), PropKey(v, n)} : Indexed(S)}
                              \cup {k \in {UniqueKey(old), UniqueKey(v)} : Constrained(S)}
              /\ w[NodeKey(n)] = v
              /\ Indexed(S) => w[PropKey(v, n)] # Absent /\ (old # v => w[PropKey(old, n)] = Absent)
              /\ Constrained(S) => w[UniqueKey(v)] = n /\ (old # v => w[UniqueKey(old)] = Absent)
              /\ Constrained(S) /\ Has(S, UniqueKey(v)) => S[UniqueKey(v)] = n
<1> DEFINE old == S[NodeKey(n)]
           D == delPropEntry(S, old, n)
           S1 == Apply(S, D.writes)
           P == putPropEntry(S1, v, n)
           w == SetProperty(S, n, v).writes
<1>1. Clean(S) /\ Owners(S)
  BY Zenon DEF Sound
<1>2. /\ old \in Value /\ Clean(S1) /\ P.ok
      /\ DOMAIN w = DOMAIN D.writes \cup DOMAIN P.writes \cup {NodeKey(n)}
      /\ w[NodeKey(n)] = v
      /\ \A k \in DOMAIN P.writes : w[k] = P.writes[k]
      /\ \A k \in DOMAIN D.writes : k \notin DOMAIN P.writes => w[k] = D.writes[k]
  BY SetIs
<1>3. /\ DOMAIN D.writes = {k \in {PropKey(old, n)} : Indexed(S)}
                                     \cup {k \in {UniqueKey(old)} : Constrained(S) /\ Has(S, k) /\ S[k] = n}
      /\ \A k \in DOMAIN D.writes : D.writes[k] = Absent
  BY <1>1, DelIs
<1>4. Constrained(S) => Has(S, UniqueKey(old)) /\ S[UniqueKey(old)] = n
  BY Zenon, <1>1 DEF Owners, Constrained
<1> HIDE DEF old, w
<1>5. DOMAIN D.writes = {k \in {PropKey(old, n)} : Indexed(S)} \cup {k \in {UniqueKey(old)} : Constrained(S)}
  BY Zenon, <1>3, <1>4
<1>6. (\A k : k \notin DOMAIN D.writes => Same(S, S1, k)) /\ \A k \in DOMAIN D.writes : ~Has(S1, k)
  BY Zenon, <1>1, <1>3, AppliedAt
<1>7. /\ Constrained(S1) /\ Has(S1, UniqueKey(v)) => S1[UniqueKey(v)] = n
      /\ DOMAIN P.writes = {k \in {PropKey(v, n)} : Indexed(S1)}
                                     \cup {k \in {UniqueKey(v)} : Constrained(S1) /\ ~Has(S1, k)}
      /\ Indexed(S1) => P.writes[PropKey(v, n)] # Absent
      /\ Constrained(S1) /\ ~Has(S1, UniqueKey(v)) => P.writes[UniqueKey(v)] = n
  BY <1>2, PutIs
<1> HIDE DEF D, S1, P
<1>8. (Indexed(S1) <=> Indexed(S)) /\ (Constrained(S1) <=> Constrained(S))
  <2>1. IndexKey \notin DOMAIN D.writes /\ ConstraintKey \notin DOMAIN D.writes
    BY Zenon, <1>5, Tags
  <2> QED BY Zenon, <1>6, <2>1 DEF Same, Indexed, Constrained
<1>9. Constrained(S) => ~Has(S1, UniqueKey(v))
  <2> SUFFICES ASSUME Constrained(S), Has(S1, UniqueKey(v)) PROVE FALSE
    BY Zenon
  <2>1. v # old
    BY Zenon, <1>5, <1>6
  <2>2. UniqueKey(v) \notin DOMAIN D.writes
    BY <1>5, <2>1, Tags, KeysApart
  <2>3. Has(S, UniqueKey(v)) /\ S[UniqueKey(v)] = n
    BY Zenon, <1>6, <1>7, <1>8, <2>2 DEF Same
  <2> QED BY Zenon, <1>1, <2>1, <2>3 DEF Owners, old
<1>10. DOMAIN P.writes = {k \in {PropKey(v, n)} : Indexed(S)} \cup {k \in {UniqueKey(v)} : Constrained(S)}
  BY Zenon, <1>7, <1>8, <1>9
<1>11. DOMAIN w = {NodeKey(n)} \cup {k \in {PropKey(old, n), PropKey(v, n)} : Indexed(S)}
                              \cup {k \in {UniqueKey(old), UniqueKey(v)} : Constrained(S)}
  BY Zenon, <1>2, <1>5, <1>10
<1>12. Indexed(S) => w[PropKey(v, n)] # Absent /\ (old # v => w[PropKey(old, n)] = Absent)
  <2> SUFFICES ASSUME Indexed(S) PROVE w[PropKey(v, n)] # Absent /\ (old # v => w[PropKey(old, n)] = Absent)
    BY Zenon
  <2>1. w[PropKey(v, n)] # Absent
    BY Zenon, <1>2, <1>7, <1>8, <1>10
  <2>2. ASSUME old # v PROVE w[PropKey(old, n)] = Absent
    <3>1. PropKey(old, n) \notin DOMAIN P.writes
      BY <1>10, <2>2, Tags, KeysApart
    <3> QED BY Zenon, <1>2, <1>3, <1>5, <3>1
  <2> QED BY Zenon, <2>1, <2>2
<1>13. Constrained(S) => w[UniqueKey(v)] = n /\ (old # v => w[UniqueKey(old)] = Absent)
  <2> SUFFICES ASSUME Constrained(S) PROVE w[UniqueKey(v)] = n /\ (old # v => w[UniqueKey(old)] = Absent)
    BY Zenon
  <2>1. w[UniqueKey(v)] = n
    BY Zenon, <1>2, <1>7, <1>8, <1>9, <1>10
  <2>2. ASSUME old # v PROVE w[UniqueKey(old)] = Absent
    <3>1. UniqueKey(old) \notin DOMAIN P.writes
      BY <1>10, <2>2, Tags, KeysApart
    <3> QED BY Zenon, <1>2, <1>3, <1>5, <3>1
  <2> QED BY Zenon, <2>1, <2>2
<1>14. Constrained(S) /\ Has(S, UniqueKey(v)) => S[UniqueKey(v)] = n
  <2> SUFFICES ASSUME Constrained(S), Has(S, UniqueKey(v)), v # old PROVE FALSE
    BY Zenon, <1>4
  <2>1. UniqueKey(v) \notin DOMAIN D.writes
    BY <1>5, Tags, KeysApart
  <2> QED BY Zenon, <1>6, <1>9, <2>1 DEF Same
<1> QED BY Zenon, <1>2, <1>11, <1>12, <1>13, <1>14 DEF old, w

\* SET keeps the store a graph.
LEMMA SetKeeps ==
    ASSUME NEW S, Sound(S), NEW n \in Nat, NEW v \in Value, SetProperty(S, n, v).ok
    PROVE  Sound(Apply(S, SetProperty(S, n, v).writes))
<1>1. CASE ~Has(S, NodeKey(n))
  <2>1. SetProperty(S, n, v).writes = <<>>
    BY Zenon, <1>1 DEF SetProperty, Nothing, Effect
  <2> QED BY <2>1, NothingWritten
<1>2. CASE Has(S, NodeKey(n))
  <2> DEFINE old == S[NodeKey(n)]
             w == SetProperty(S, n, v).writes
             T == Apply(S, w)
  <2>1. /\ old \in Value
        /\ DOMAIN w = {NodeKey(n)} \cup {k \in {PropKey(old, n), PropKey(v, n)} : Indexed(S)}
                              \cup {k \in {UniqueKey(old), UniqueKey(v)} : Constrained(S)}
        /\ w[NodeKey(n)] = v
        /\ Indexed(S) => w[PropKey(v, n)] # Absent /\ (old # v => w[PropKey(old, n)] = Absent)
        /\ Constrained(S) => w[UniqueKey(v)] = n /\ (old # v => w[UniqueKey(old)] = Absent)
        /\ Constrained(S) /\ Has(S, UniqueKey(v)) => S[UniqueKey(v)] = n
    BY <1>2, SetWrites
  <2>2. Clean(S) /\ Counters(S) /\ NodeRecords(S) /\ Entries(S) /\ Owners(S) /\ EdgeRecords(S)
    BY Zenon DEF Sound
  <2> HIDE DEF w
  <2>3. /\ \A k : k \notin DOMAIN w => Same(S, T, k)
        /\ \A k \in DOMAIN w : w[k] # Absent => Has(T, k) /\ T[k] = w[k]
        /\ \A k \in DOMAIN w : w[k] = Absent => ~Has(T, k)
        /\ Clean(T)
    BY Zenon, <2>2, AppliedAt, Applied
  <2>4. Absent \notin Value /\ Absent # n
    BY Zenon, IsolationAssumption
  <2> HIDE DEF T
  <2>5. Same(S, T, Counter("n")) /\ Same(S, T, Counter("e")) /\ Same(S, T, IndexKey) /\ Same(S, T, ConstraintKey)
    <3> HIDE DEF old
    <3> QED BY <2>1, <2>3, Tags
  <2>6. Count(T, "n") = Count(S, "n") /\ Count(T, "e") = Count(S, "e")
    BY Zenon, <2>5 DEF Count, Same
  <2>7. Has(T, NodeKey(n)) /\ T[NodeKey(n)] = v /\ \A m \in Nat : m # n => Same(S, T, NodeKey(m))
    <3> HIDE DEF old
    <3> QED BY <2>1, <2>3, <2>4, Tags, KeysApart
  <2>8. \A m \in Nat : Same(S, T, LabelKey(m))
    <3> HIDE DEF old
    <3> QED BY <2>1, <2>3, Tags
  <2>9. /\ Indexed(S) => Has(T, PropKey(v, n)) /\ (old # v => ~Has(T, PropKey(old, n)))
        /\ \A m \in Nat, u \in Value : ~(Indexed(S) /\ m = n /\ u \in {old, v}) => Same(S, T, PropKey(u, m))
    <3> HIDE DEF old
    <3> QED BY SMTT(30), <2>1, <2>3, Tags, KeysApart
  <2>10. /\ Constrained(S) => Has(T, UniqueKey(v)) /\ T[UniqueKey(v)] = n /\ (old # v => ~Has(T, UniqueKey(old)))
         /\ \A u \in Value : ~(Constrained(S) /\ u \in {old, v}) => Same(S, T, UniqueKey(u))
    <3> HIDE DEF old
    <3> QED BY <2>1, <2>3, <2>4, Tags, KeysApart
  <2>11. Counters(T)
    BY Zenon, <2>2, <2>6 DEF Counters
  <2>12. NodeRecords(T)
    BY Zenon, <1>2, <2>2, <2>6, <2>7, <2>8 DEF NodeRecords, Same
  <2>13. Entries(T)
    <3> SUFFICES ASSUME NEW m \in Nat, NEW u \in Value
                 PROVE  Has(T, PropKey(u, m)) <=> Has(T, IndexKey) /\ Has(T, NodeKey(m)) /\ T[NodeKey(m)] = u
      BY Zenon DEF Entries
    <3>1. Has(S, PropKey(u, m)) <=> Has(S, IndexKey) /\ Has(S, NodeKey(m)) /\ S[NodeKey(m)] = u
      BY Zenon, <2>2 DEF Entries
    <3>2. CASE ~Indexed(S)
      BY Zenon, <2>5, <2>9, <3>1, <3>2 DEF Indexed, Same
    <3>3. CASE Indexed(S) /\ m # n
      BY Zenon, <2>5, <2>7, <2>9, <3>1, <3>3 DEF Indexed, Same
    <3>4. CASE Indexed(S) /\ m = n
      BY Zenon, <1>2, <2>1, <2>5, <2>7, <2>9, <3>1, <3>4 DEF Indexed, Same
    <3> QED BY Zenon, <3>2, <3>3, <3>4
  <2>14. Owners(T)
    <3>1. Has(T, ConstraintKey) => Has(T, IndexKey) /\ T[ConstraintKey] \in BOOLEAN
      BY Zenon, <2>2, <2>5 DEF Owners, Same
    <3>2. Constrained(S) <=> Has(T, ConstraintKey)
      BY Zenon, <2>2, <2>5 DEF Owners, Same, Constrained
    <3>3. ASSUME NEW u \in Value, Has(T, UniqueKey(u))
          PROVE  /\ Has(T, ConstraintKey) /\ T[UniqueKey(u)] \in Nat
                 /\ Has(T, NodeKey(T[UniqueKey(u)])) /\ T[NodeKey(T[UniqueKey(u)])] = u
      <4>1. CASE Constrained(S) /\ u = v
        BY Zenon, <2>7, <2>10, <3>2, <4>1
      <4>2. CASE ~(Constrained(S) /\ u = v)
        <5>1. ~(Constrained(S) /\ u \in {old, v})
          BY Zenon, <2>10, <3>3, <4>2
        <5>2. Has(S, UniqueKey(u)) /\ T[UniqueKey(u)] = S[UniqueKey(u)]
          BY Zenon, <2>10, <3>3, <5>1 DEF Same
        <5>3. /\ Has(S, ConstraintKey) /\ S[UniqueKey(u)] \in Nat
              /\ Has(S, NodeKey(S[UniqueKey(u)])) /\ S[NodeKey(S[UniqueKey(u)])] = u
          BY Zenon, <2>2, <5>2 DEF Owners
        <5>4. S[UniqueKey(u)] # n
          BY Zenon, <2>2, <5>1, <5>3 DEF Owners, Constrained
        <5> QED BY Zenon, <2>5, <2>7, <5>2, <5>3, <5>4 DEF Same
      <4> QED BY Zenon, <4>1, <4>2
    <3>4. ASSUME NEW m \in Nat, Has(T, ConstraintKey), Has(T, NodeKey(m))
          PROVE  Has(T, UniqueKey(T[NodeKey(m)])) /\ T[UniqueKey(T[NodeKey(m)])] = m
      <4>1. CASE m = n
        BY Zenon, <2>7, <2>10, <3>2, <3>4, <4>1
      <4>2. CASE m # n
        <5>1. Has(S, NodeKey(m)) /\ T[NodeKey(m)] = S[NodeKey(m)] /\ S[NodeKey(m)] \in Value
          BY Zenon, <2>2, <2>7, <3>4, <4>2 DEF Same, NodeRecords
        <5>2. Has(S, UniqueKey(S[NodeKey(m)])) /\ S[UniqueKey(S[NodeKey(m)])] = m
          BY Zenon, <2>2, <2>5, <3>4, <5>1 DEF Owners, Same
        <5>3. S[NodeKey(m)] # old
          BY Zenon, <1>2, <2>2, <2>5, <3>4, <4>2, <5>2 DEF Owners, Same
        <5>4. S[NodeKey(m)] # v
          BY Zenon, <2>1, <3>2, <3>4, <4>2, <5>2
        <5> QED BY Zenon, <2>10, <5>1, <5>2, <5>3, <5>4 DEF Same
      <4> QED BY Zenon, <4>1, <4>2
    <3> QED BY Zenon, <3>1, <3>3, <3>4 DEF Owners
  <2>15. EdgeRecords(T)
    <3>1. \A k \in DOMAIN w : Tag(k) \in {"n", "l", "p", "u", "X", "U"} \/ k = Counter("n")
      <4> HIDE DEF old
      <4> QED BY <2>1, Tags
    <3>2. \A m \in Nat : Has(S, NodeKey(m)) => Has(T, NodeKey(m))
      BY Zenon, <2>7 DEF Same
    <3> QED BY Zenon, <3>1, <3>2, EdgesUntouched DEF T
  <2> QED BY Zenon, <2>3, <2>11, <2>12, <2>13, <2>14, <2>15 DEF Sound, T, w
<1> QED BY Zenon, <1>1, <1>2

\* What DeleteNode deletes of a node that is there and has no edges.
LEMMA DeleteIs ==
    ASSUME NEW S, Sound(S), NEW n \in Nat, Has(S, NodeKey(n)), ~hasIncidentEdges(S, n)
    PROVE  LET old == S[NodeKey(n)]
               D == delPropEntry(S, old, n)
               E == DeleteNode(S, n)
           IN /\ E.ok /\ old \in Value /\ E.reads = D.reads \cup {NodeKey(n)}
              /\ DOMAIN E.writes = {NodeKey(n), LabelKey(n)} \cup {k \in {PropKey(old, n)} : Indexed(S)}
                                     \cup {k \in {UniqueKey(old)} : Constrained(S)}
              /\ \A k \in DOMAIN E.writes : E.writes[k] = Absent
<1> DEFINE old == S[NodeKey(n)]
           D == delPropEntry(S, old, n)
           R == Effect(TRUE, {NodeKey(n)}, Deletion({NodeKey(n), LabelKey(n)}))
           E == DeleteNode(S, n)
<1>1. Clean(S) /\ Owners(S) /\ old \in Value
  BY Zenon DEF Sound, NodeRecords
<1>2. E = Then(D, R)
  BY Zenon DEF DeleteNode
<1>3. R.ok /\ R.reads = {NodeKey(n)} /\ DOMAIN R.writes = {NodeKey(n), LabelKey(n)} /\ \A k \in DOMAIN R.writes : R.writes[k] = Absent
  BY Zenon DEF Effect, Deletion
<1>4. /\ D.ok
      /\ DOMAIN D.writes = {k \in {PropKey(old, n)} : Indexed(S)}
                                     \cup {k \in {UniqueKey(old)} : Constrained(S) /\ Has(S, k) /\ S[k] = n}
      /\ \A k \in DOMAIN D.writes : D.writes[k] = Absent
  BY <1>1, DelIs
<1>5. Constrained(S) => Has(S, UniqueKey(old)) /\ S[UniqueKey(old)] = n
  BY Zenon, <1>1 DEF Owners, Constrained
<1> HIDE DEF old, D, R, E
<1>6. DOMAIN D.writes = {k \in {PropKey(old, n)} : Indexed(S)} \cup {k \in {UniqueKey(old)} : Constrained(S)}
  BY Zenon, <1>4, <1>5
<1>7. /\ E.ok <=> D.ok /\ R.ok
      /\ E.reads = D.reads \cup R.reads
      /\ DOMAIN E.writes = DOMAIN D.writes \cup DOMAIN R.writes
      /\ \A k \in DOMAIN R.writes : E.writes[k] = R.writes[k]
      /\ \A k \in DOMAIN D.writes : k \notin DOMAIN R.writes => E.writes[k] = D.writes[k]
  BY <1>2, ThenIs
<1>8. \A k \in DOMAIN E.writes : E.writes[k] = Absent
  BY Zenon, <1>3, <1>4, <1>7
<1>9. E.ok /\ E.reads = D.reads \cup {NodeKey(n)}
  BY Zenon, <1>3, <1>4, <1>7
<1>10. DOMAIN E.writes = {NodeKey(n), LabelKey(n)} \cup {k \in {PropKey(old, n)} : Indexed(S)}
                                     \cup {k \in {UniqueKey(old)} : Constrained(S)}
  BY Zenon, <1>3, <1>6, <1>7
<1> QED BY Zenon, <1>1, <1>8, <1>9, <1>10 DEF old, D, E

\* DELETE of a node keeps the store a graph.
LEMMA DeleteNodeKeeps ==
    ASSUME NEW S, Sound(S), NEW n \in Nat, DeleteNode(S, n).ok
    PROVE  Sound(Apply(S, DeleteNode(S, n).writes))
<1>1. CASE ~Has(S, NodeKey(n))
  <2>1. DeleteNode(S, n).writes = <<>>
    BY Zenon, <1>1 DEF DeleteNode, Nothing, Effect
  <2> QED BY <2>1, NothingWritten
<1>2. CASE Has(S, NodeKey(n))
  <2> DEFINE old == S[NodeKey(n)]
             w == DeleteNode(S, n).writes
             T == Apply(S, w)
  <2>1. ~hasIncidentEdges(S, n)
    <3>1. ~Failure.ok
      BY Zenon DEF Failure, Effect
    <3> QED BY Zenon, <1>2, <3>1 DEF DeleteNode
  <2>2. /\ old \in Value
        /\ DOMAIN w = {NodeKey(n), LabelKey(n)} \cup {k \in {PropKey(old, n)} : Indexed(S)}
                                     \cup {k \in {UniqueKey(old)} : Constrained(S)}
        /\ \A k \in DOMAIN w : w[k] = Absent
    BY Zenon, <1>2, <2>1, DeleteIs
  <2>3. Clean(S) /\ Counters(S) /\ NodeRecords(S) /\ Entries(S) /\ Owners(S) /\ EdgeRecords(S)
    BY Zenon DEF Sound
  <2> HIDE DEF w
  <2>4. (\A k : k \notin DOMAIN w => Same(S, T, k)) /\ (\A k \in DOMAIN w : ~Has(T, k)) /\ Clean(T)
    BY Zenon, <2>2, <2>3, AppliedAt, Applied
  <2> HIDE DEF T
  <2>5. Same(S, T, Counter("n")) /\ Same(S, T, Counter("e")) /\ Same(S, T, IndexKey) /\ Same(S, T, ConstraintKey)
    <3> HIDE DEF old
    <3> QED BY Zenon, <2>2, <2>4, Tags
  <2>6. Count(T, "n") = Count(S, "n") /\ Count(T, "e") = Count(S, "e")
    BY Zenon, <2>5 DEF Count, Same
  <2>7. /\ ~Has(T, NodeKey(n)) /\ ~Has(T, LabelKey(n))
        /\ \A m \in Nat : m # n => Same(S, T, NodeKey(m)) /\ Same(S, T, LabelKey(m))
    <3> HIDE DEF old
    <3> QED BY <2>2, <2>4, Tags, KeysApart
  <2>8. /\ Indexed(S) => ~Has(T, PropKey(old, n))
        /\ \A m \in Nat, u \in Value : ~(Indexed(S) /\ m = n /\ u = old) => Same(S, T, PropKey(u, m))
    <3> HIDE DEF old
    <3> QED BY <2>2, <2>4, Tags, KeysApart
  <2>9. /\ Constrained(S) => ~Has(T, UniqueKey(old))
        /\ \A u \in Value : ~(Constrained(S) /\ u = old) => Same(S, T, UniqueKey(u))
    <3> HIDE DEF old
    <3> QED BY <2>2, <2>4, Tags, KeysApart
  <2>10. /\ \A e \in Nat : Same(S, T, EdgeKey(e))
         /\ \A m, e \in Nat : Same(S, T, OutKey(m, e)) /\ Same(S, T, InKey(m, e))
    <3> HIDE DEF old
    <3> QED BY <2>2, <2>4, Tags
  <2>11. Counters(T)
    BY Zenon, <2>3, <2>6 DEF Counters
  <2>12. NodeRecords(T)
    BY Zenon, <2>3, <2>6, <2>7 DEF NodeRecords, Same
  <2>13. Entries(T)
    BY <2>2, <2>3, <2>5, <2>7, <2>8 DEF Entries, Same, Indexed
  <2>14. Owners(T)
    <3>1. Has(T, ConstraintKey) => Has(T, IndexKey) /\ T[ConstraintKey] \in BOOLEAN
      BY Zenon, <2>3, <2>5 DEF Owners, Same
    <3>2. ASSUME NEW u \in Value, Has(T, UniqueKey(u))
          PROVE  /\ Has(T, ConstraintKey) /\ T[UniqueKey(u)] \in Nat
                 /\ Has(T, NodeKey(T[UniqueKey(u)])) /\ T[NodeKey(T[UniqueKey(u)])] = u
      <4>1. Has(S, UniqueKey(u)) /\ T[UniqueKey(u)] = S[UniqueKey(u)] /\ ~(Constrained(S) /\ u = old)
        BY Zenon, <2>9, <3>2 DEF Same
      <4>2. /\ Has(S, ConstraintKey) /\ Has(S, IndexKey) /\ S[UniqueKey(u)] \in Nat
            /\ Has(S, NodeKey(S[UniqueKey(u)])) /\ S[NodeKey(S[UniqueKey(u)])] = u
        BY Zenon, <2>3, <4>1 DEF Owners
      <4>3. S[UniqueKey(u)] # n
        BY Zenon, <4>1, <4>2 DEF Constrained
      <4> QED BY Zenon, <2>5, <2>7, <4>1, <4>2, <4>3 DEF Same
    <3>3. ASSUME NEW m \in Nat, Has(T, ConstraintKey), Has(T, NodeKey(m))
          PROVE  Has(T, UniqueKey(T[NodeKey(m)])) /\ T[UniqueKey(T[NodeKey(m)])] = m
      <4>1. m # n /\ Has(S, NodeKey(m)) /\ T[NodeKey(m)] = S[NodeKey(m)] /\ S[NodeKey(m)] \in Value
        BY Zenon, <2>3, <2>7, <3>3 DEF Same, NodeRecords
      <4>2. Has(S, UniqueKey(S[NodeKey(m)])) /\ S[UniqueKey(S[NodeKey(m)])] = m
        BY Zenon, <2>3, <2>5, <3>3, <4>1 DEF Owners, Same
      <4>3. S[NodeKey(m)] # old
        BY Zenon, <1>2, <2>3, <2>5, <3>3, <4>1, <4>2 DEF Owners, Same
      <4> QED BY Zenon, <2>9, <4>1, <4>2, <4>3 DEF Same
    <3> QED BY Zenon, <3>1, <3>2, <3>3 DEF Owners
  <2>15. EdgeRecords(T)
    <3>1. ASSUME NEW e \in Nat, Has(T, EdgeKey(e))
          PROVE  /\ e \in EdgeId /\ e <= Count(T, "e") /\ T[EdgeKey(e)] \in Nat \X Nat
                 /\ Has(T, NodeKey(T[EdgeKey(e)][1])) /\ Has(T, NodeKey(T[EdgeKey(e)][2]))
      <4>1. Has(S, EdgeKey(e)) /\ T[EdgeKey(e)] = S[EdgeKey(e)]
        BY Zenon, <2>10, <3>1 DEF Same
      <4>2. /\ e \in EdgeId /\ e <= Count(S, "e") /\ S[EdgeKey(e)] \in Nat \X Nat
            /\ Has(S, NodeKey(S[EdgeKey(e)][1])) /\ Has(S, NodeKey(S[EdgeKey(e)][2]))
        BY Zenon, <2>3, <4>1 DEF EdgeRecords
      <4>3. S[EdgeKey(e)][1] \in Nat /\ S[EdgeKey(e)][2] \in Nat
        BY Zenon, <4>2
      <4>4. S[EdgeKey(e)][1] # n /\ S[EdgeKey(e)][2] # n
        BY Zenon, <2>1, <2>3, <4>1, <4>2 DEF EdgeRecords, hasIncidentEdges
      <4> QED BY Zenon, <2>6, <2>7, <4>1, <4>2, <4>3, <4>4 DEF Same
    <3>2. ASSUME NEW m \in Nat, NEW e \in Nat
          PROVE  /\ Has(T, OutKey(m, e)) <=> Has(T, EdgeKey(e)) /\ T[EdgeKey(e)][1] = m
                 /\ Has(T, InKey(m, e)) <=> Has(T, EdgeKey(e)) /\ T[EdgeKey(e)][2] = m
      BY <2>3, <2>10 DEF Same, EdgeRecords
    <3> QED BY Zenon, <3>1, <3>2 DEF EdgeRecords
  <2> QED BY Zenon, <2>4, <2>11, <2>12, <2>13, <2>14, <2>15 DEF Sound, T, w
<1> QED BY Zenon, <1>1, <1>2

\* Nodes, entries and owners stay where no key of theirs is written.
LEMMA NodesUntouched ==
    ASSUME NEW S, Sound(S), NEW w, \A k \in DOMAIN w : Tag(k) \in {"e", "o", "i"} \/ k = Counter("e")
    PROVE  LET T == Apply(S, w)
           IN /\ NodeRecords(T) /\ Entries(T) /\ Owners(T) /\ Clean(T)
              /\ Count(T, "n") = Count(S, "n")
              /\ \A n \in Nat : Same(S, T, NodeKey(n))
<1> DEFINE T == Apply(S, w)
<1>1. Clean(S) /\ NodeRecords(S) /\ Entries(S) /\ Owners(S)
  BY Zenon DEF Sound
<1>2. (\A k : Tag(k) \notin {"e", "o", "i"} /\ k # Counter("e") => Same(S, T, k)) /\ Clean(T)
  BY Zenon, <1>1, AppliedAt, Applied
<1>3. /\ Counter("n") # Counter("e") /\ IndexKey # Counter("e") /\ ConstraintKey # Counter("e")
      /\ \A n : NodeKey(n) # Counter("e") /\ LabelKey(n) # Counter("e") /\ UniqueKey(n) # Counter("e")
      /\ \A n, v : PropKey(v, n) # Counter("e")
  BY Zenon DEF Counter, IndexKey, ConstraintKey, NodeKey, LabelKey, UniqueKey, PropKey
<1> HIDE DEF T
<1>4. Same(S, T, Counter("n")) /\ Same(S, T, IndexKey) /\ Same(S, T, ConstraintKey)
  BY Zenon, <1>2, <1>3, Tags
<1>5. \A n : Same(S, T, NodeKey(n)) /\ Same(S, T, LabelKey(n)) /\ Same(S, T, UniqueKey(n))
  BY Zenon, <1>2, <1>3, Tags
<1>6. \A n, v : Same(S, T, PropKey(v, n))
  BY Zenon, <1>2, <1>3, Tags
<1>7. Count(T, "n") = Count(S, "n")
  BY Zenon, <1>4 DEF Count, Same
<1>8. NodeRecords(T)
  BY Zenon, <1>1, <1>5, <1>7 DEF NodeRecords, Same
<1>9. Entries(T)
  BY <1>1, <1>4, <1>5, <1>6 DEF Entries, Same
<1>10. Owners(T)
  BY <1>1, <1>4, <1>5 DEF Owners, Same
<1> QED BY Zenon, <1>2, <1>5, <1>7, <1>8, <1>9, <1>10 DEF T

KeysOf(S, e) == {EdgeKey(e), OutKey(S[EdgeKey(e)][1], e), InKey(S[EdgeKey(e)][2], e)}

\* Deleting edges with their adjacency entries.
LEMMA EdgesDeleted ==
    ASSUME NEW S, Sound(S), NEW gone, gone \subseteq Nat, \A e \in gone : Has(S, EdgeKey(e)),
           NEW w, DOMAIN w = UNION {KeysOf(S, e) : e \in gone}, \A k \in DOMAIN w : w[k] = Absent
    PROVE  LET T == Apply(S, w)
           IN /\ Sound(T) /\ \A n \in Nat : Same(S, T, NodeKey(n))
              /\ \A e \in gone : ~Has(T, EdgeKey(e))
              /\ \A e \in Nat : Has(T, EdgeKey(e)) => Has(S, EdgeKey(e)) /\ T[EdgeKey(e)] = S[EdgeKey(e)]
<1> DEFINE T == Apply(S, w)
<1>1. \A k \in DOMAIN w : Tag(k) \in {"e", "o", "i"}
  <2> SUFFICES ASSUME NEW k \in DOMAIN w PROVE Tag(k) \in {"e", "o", "i"}
    BY Zenon
  <2>1. PICK e \in gone : k \in KeysOf(S, e)
    BY Zenon
  <2> QED BY <2>1, Tags DEF KeysOf
<1>2. Clean(S) /\ Counters(S) /\ EdgeRecords(S)
  BY Zenon DEF Sound
<1>3. NodeRecords(T) /\ Entries(T) /\ Owners(T) /\ Clean(T) /\ Count(T, "n") = Count(S, "n") /\ \A n \in Nat : Same(S, T, NodeKey(n))
  BY Zenon, <1>1, NodesUntouched
<1>4. (\A k : k \notin DOMAIN w => Same(S, T, k)) /\ \A k \in DOMAIN w : ~Has(T, k)
  BY Zenon, <1>2, AppliedAt
<1> HIDE DEF T
<1>5. \A e \in gone : ~Has(T, EdgeKey(e))
  <2> SUFFICES ASSUME NEW e \in gone PROVE EdgeKey(e) \in DOMAIN w
    BY Zenon, <1>4
  <2> QED BY DEF KeysOf
<1>6. \A e \in Nat : e \notin gone => Same(S, T, EdgeKey(e))
  <2> SUFFICES ASSUME NEW e \in Nat, e \notin gone, EdgeKey(e) \in DOMAIN w PROVE FALSE
    BY Zenon, <1>4
  <2>1. PICK f \in gone : EdgeKey(e) \in KeysOf(S, f)
    OBVIOUS
  <2> QED BY <2>1, Tags, KeysApart DEF KeysOf
<1>7. \A n, e \in Nat : e \notin gone => Same(S, T, OutKey(n, e)) /\ Same(S, T, InKey(n, e))
  <2> SUFFICES ASSUME NEW n \in Nat, NEW e \in Nat, e \notin gone, OutKey(n, e) \in DOMAIN w \/ InKey(n, e) \in DOMAIN w PROVE FALSE
    BY Zenon, <1>4
  <2>1. PICK f \in gone : OutKey(n, e) \in KeysOf(S, f) \/ InKey(n, e) \in KeysOf(S, f)
    BY Zenon
  <2> QED BY <2>1, Tags, KeysApart DEF KeysOf
<1>8. \A n, e \in Nat : e \in gone => ~Has(T, OutKey(n, e)) /\ ~Has(T, InKey(n, e))
  <2> SUFFICES ASSUME NEW n \in Nat, NEW e \in Nat, e \in gone PROVE ~Has(T, OutKey(n, e)) /\ ~Has(T, InKey(n, e))
    BY Zenon
  <2>1. KeysOf(S, e) \subseteq DOMAIN w
    BY Zenon
  <2>2. OutKey(S[EdgeKey(e)][1], e) \in DOMAIN w /\ InKey(S[EdgeKey(e)][2], e) \in DOMAIN w
    BY Zenon, <2>1 DEF KeysOf
  <2>3. CASE OutKey(n, e) \in DOMAIN w /\ InKey(n, e) \in DOMAIN w
    BY Zenon, <1>4, <2>3
  <2>4. ASSUME OutKey(n, e) \notin DOMAIN w PROVE ~Has(T, OutKey(n, e))
    BY Zenon, <1>2, <1>4, <2>2, <2>4 DEF EdgeRecords, Same
  <2>5. ASSUME InKey(n, e) \notin DOMAIN w PROVE ~Has(T, InKey(n, e))
    BY Zenon, <1>2, <1>4, <2>2, <2>5 DEF EdgeRecords, Same
  <2> QED BY Zenon, <1>4, <2>3, <2>4, <2>5
<1>9. Count(T, "e") = Count(S, "e")
  <2>1. Counter("e") \notin DOMAIN w
    BY Zenon, <1>1, Tags
  <2> QED BY Zenon, <1>4, <2>1 DEF Count, Same
<1>10. Counters(T)
  BY Zenon, <1>2, <1>3, <1>9 DEF Counters
<1>11. EdgeRecords(T)
  <2>1. ASSUME NEW e \in Nat, Has(T, EdgeKey(e))
        PROVE  /\ e \in EdgeId /\ e <= Count(T, "e") /\ T[EdgeKey(e)] \in Nat \X Nat
               /\ Has(T, NodeKey(T[EdgeKey(e)][1])) /\ Has(T, NodeKey(T[EdgeKey(e)][2]))
    <3>1. Has(S, EdgeKey(e)) /\ T[EdgeKey(e)] = S[EdgeKey(e)]
      BY Zenon, <1>5, <1>6, <2>1 DEF Same
    <3>2. /\ e \in EdgeId /\ e <= Count(S, "e") /\ S[EdgeKey(e)] \in Nat \X Nat
          /\ Has(S, NodeKey(S[EdgeKey(e)][1])) /\ Has(S, NodeKey(S[EdgeKey(e)][2]))
      BY Zenon, <1>2, <3>1 DEF EdgeRecords
    <3>3. S[EdgeKey(e)][1] \in Nat /\ S[EdgeKey(e)][2] \in Nat
      BY Zenon, <3>2
    <3> QED BY Zenon, <1>3, <1>9, <3>1, <3>2, <3>3 DEF Same
  <2>2. ASSUME NEW n \in Nat, NEW e \in Nat
        PROVE  /\ Has(T, OutKey(n, e)) <=> Has(T, EdgeKey(e)) /\ T[EdgeKey(e)][1] = n
               /\ Has(T, InKey(n, e)) <=> Has(T, EdgeKey(e)) /\ T[EdgeKey(e)][2] = n
    <3>1. CASE e \in gone
      BY Zenon, <1>5, <1>8, <3>1
    <3>2. CASE e \notin gone
      BY <1>2, <1>6, <1>7, <3>2 DEF EdgeRecords, Same
    <3> QED BY Zenon, <3>1, <3>2
  <2> QED BY Zenon, <2>1, <2>2 DEF EdgeRecords
<1>12. \A e \in Nat : Has(T, EdgeKey(e)) => Has(S, EdgeKey(e)) /\ T[EdgeKey(e)] = S[EdgeKey(e)]
  BY Zenon, <1>5, <1>6 DEF Same
<1> QED BY Zenon, <1>3, <1>5, <1>10, <1>11, <1>12 DEF Sound, T

\* DELETE of an edge keeps the store a graph.
LEMMA DeleteEdgeKeeps ==
    ASSUME NEW S, Sound(S), NEW e \in Nat
    PROVE  Sound(Apply(S, DeleteEdge(S, e).writes))
<1>1. CASE ~Has(S, EdgeKey(e))
  <2>1. DeleteEdge(S, e).writes = <<>>
    BY Zenon, <1>1 DEF DeleteEdge, Nothing, Effect
  <2> QED BY <2>1, NothingWritten
<1>2. CASE Has(S, EdgeKey(e))
  <2> DEFINE w == DeleteEdge(S, e).writes
  <2>1. w = Deletion(KeysOf(S, e))
    BY Zenon, <1>2 DEF DeleteEdge, Effect, KeysOf
  <2>2. DOMAIN w = KeysOf(S, e) /\ \A k \in DOMAIN w : w[k] = Absent
    BY Zenon, <2>1 DEF Deletion
  <2> HIDE DEF w
  <2>3. DOMAIN w = UNION {KeysOf(S, f) : f \in {e}}
    BY Zenon, <2>2
  <2>4. {e} \subseteq Nat /\ \A f \in {e} : Has(S, EdgeKey(f))
    BY Zenon, <1>2
  <2> QED BY ZenonT(30), <2>2, <2>3, <2>4, EdgesDeleted DEF w
<1> QED BY Zenon, <1>1, <1>2

\* What DetachDeleteNode does to a node that is there: its edges, then the node.
EdgesOf(S, n) == {e \in EdgeId : Has(S, OutKey(n, e)) \/ Has(S, InKey(n, e))}

\* Once its edges are deleted a node has none, and can be deleted.
LEMMA DetachIs ==
    ASSUME NEW S, Sound(S), NEW n \in Nat, Has(S, NodeKey(n)),
           NEW dels, dels.writes = Deletion(UNION {KeysOf(S, e) : e \in {f \in EdgesOf(S, n) : Has(S, EdgeKey(f))}})
    PROVE  LET T == Apply(S, dels.writes)
           IN /\ \A e \in EdgesOf(S, n) : Has(S, EdgeKey(e))
              /\ Sound(T) /\ Has(T, NodeKey(n)) /\ ~hasIncidentEdges(T, n)
<1> DEFINE w == dels.writes
           T == Apply(S, w)
           gone == EdgesOf(S, n)
<1>1. EdgeRecords(S) /\ EdgeId \subseteq Nat
  BY DEF Sound, EdgeId
<1>2. gone \subseteq Nat /\ \A e \in gone : Has(S, EdgeKey(e))
  BY Zenon, <1>1 DEF EdgesOf, EdgeRecords
<1>3. {f \in gone : Has(S, EdgeKey(f))} = gone
  BY Zenon, <1>2
<1>4. DOMAIN w = UNION {KeysOf(S, e) : e \in gone} /\ \A k \in DOMAIN w : w[k] = Absent
  <2> HIDE DEF gone
  <2> QED BY Zenon, <1>3, DeletionIs DEF gone
<1> HIDE DEF w, gone
<1>5. /\ Sound(T) /\ \A m \in Nat : Same(S, T, NodeKey(m))
      /\ \A e \in gone : ~Has(T, EdgeKey(e))
      /\ \A e \in Nat : Has(T, EdgeKey(e)) => Has(S, EdgeKey(e)) /\ T[EdgeKey(e)] = S[EdgeKey(e)]
  BY Zenon, <1>2, <1>4, EdgesDeleted
<1> HIDE DEF T
<1>6. ASSUME NEW e \in EdgeId, Has(T, OutKey(n, e)) \/ Has(T, InKey(n, e)) PROVE FALSE
  <2>1. Has(T, EdgeKey(e)) /\ (T[EdgeKey(e)][1] = n \/ T[EdgeKey(e)][2] = n)
    BY Zenon, <1>1, <1>5, <1>6 DEF Sound, EdgeRecords
  <2>2. Has(S, EdgeKey(e)) /\ (S[EdgeKey(e)][1] = n \/ S[EdgeKey(e)][2] = n)
    BY Zenon, <1>1, <1>5, <2>1
  <2>3. Has(S, OutKey(n, e)) \/ Has(S, InKey(n, e))
    BY Zenon, <1>1, <2>2 DEF EdgeRecords
  <2>4. e \in gone
    BY Zenon, <2>3 DEF gone, EdgesOf
  <2> QED BY Zenon, <1>5, <2>1, <2>4
<1>7. ~hasIncidentEdges(T, n)
  BY Zenon, <1>6 DEF hasIncidentEdges
<1> QED BY Zenon, <1>2, <1>5, <1>7 DEF Same, T, w, gone

\* DETACH DELETE keeps the store a graph.
LEMMA DetachKeeps ==
    ASSUME NEW S, Sound(S), NEW n \in Nat, DetachDeleteNode(S, n).ok
    PROVE  Sound(Apply(S, DetachDeleteNode(S, n).writes))
<1>1. CASE ~Has(S, NodeKey(n))
  <2>1. DetachDeleteNode(S, n) = Nothing({NodeKey(n)})
    BY Zenon, <1>1 DEF DetachDeleteNode
  <2>2. DetachDeleteNode(S, n).writes = <<>>
    BY <2>1 DEF Nothing, Effect
  <2> QED BY <2>2, NothingWritten
<1>2. CASE Has(S, NodeKey(n))
  <2> DEFINE edges == EdgesOf(S, n)
             listed == {OutKey(n, e) : e \in EdgeId} \cup {InKey(n, e) : e \in EdgeId}
             dels == Effect(\A e \in edges : Has(S, EdgeKey(e)),
                            (listed \cap DOMAIN S) \cup {EdgeKey(e) : e \in edges},
                            Deletion(UNION {KeysOf(S, e) : e \in {f \in edges : Has(S, EdgeKey(f))}}))
             T == Apply(S, dels.writes)
             D == DeleteNode(T, n)
  <2>1. DetachDeleteNode(S, n) = Then(dels, D)
    BY <1>2, Zenon DEF DetachDeleteNode, EdgesOf, KeysOf
  <2>2. dels.writes = Deletion(UNION {KeysOf(S, e) : e \in {f \in EdgesOf(S, n) : Has(S, EdgeKey(f))}})
    BY Zenon DEF Effect
  <2> HIDE DEF dels
  <2>3. Sound(T)
    BY Zenon, <1>2, <2>2, DetachIs
  <2>4. Clean(S)
    BY Zenon DEF Sound
  <2>5. D.ok /\ DetachDeleteNode(S, n).writes = Over(D.writes, dels.writes)
    BY <2>1, ThenIs
  <2>6. Sound(Apply(T, D.writes))
    BY Zenon, <2>3, <2>5, DeleteNodeKeeps
  <2> HIDE DEF D
  <2>7. Apply(T, D.writes) = Apply(S, Over(D.writes, dels.writes))
    BY <2>4, AppliedTwice
  <2> QED BY Zenon, <2>5, <2>6, <2>7
<1> QED BY Zenon, <1>1, <1>2

\* What CreateEdge writes.
NewEdge(S) == Count(S, "e") + 1

\* What CreateEdge writes.
LEMMA ConnectIs ==
    ASSUME NEW S, Sound(S), NEW src \in Nat, NEW dst \in Nat, CreateEdge(S, src, dst).ok,
           {NodeKey(src), NodeKey(dst)} \subseteq DOMAIN S
    PROVE  LET e == NewEdge(S)
               E == CreateEdge(S, src, dst)
           IN /\ e \in Nat /\ e \in EdgeId
              /\ E.reads = {Counter("e"), NodeKey(src), NodeKey(dst)}
              /\ DOMAIN E.writes = {Counter("e"), EdgeKey(e), OutKey(src, e), InKey(dst, e)}
              /\ E.writes[Counter("e")] = e /\ E.writes[EdgeKey(e)] = <<src, dst>>
              /\ E.writes[OutKey(src, e)] # Absent /\ E.writes[InKey(dst, e)] # Absent
<1> DEFINE e == NewEdge(S)
           id == nextCounter(S, "e")
           reads == {NodeKey(src), NodeKey(dst)}
           rec == Effect(TRUE, reads, Over(Pair(EdgeKey(e), <<src, dst>>), Over(Pair(OutKey(src, e), TRUE), Pair(InKey(dst, e), TRUE))))
           E == CreateEdge(S, src, dst)
<1>1. Count(S, "e") \in Nat
  BY Zenon DEF Sound, Counters
<1>2. id.ok /\ id.reads = {Counter("e")} /\ DOMAIN id.writes = {Counter("e")} /\ id.writes[Counter("e")] = e
  BY Zenon, <1>1, NextIs DEF NewEdge
<1>3. e \in Nat /\ e # 0
  BY <1>1 DEF NewEdge
<1>4. ~Failure.ok
  BY Zenon DEF Failure, Effect
<1>5. E = IF e > MaxEdge THEN Failure ELSE Then(id, rec)
  BY Zenon, <1>2 DEF CreateEdge
<1>6. e \in EdgeId /\ E = Then(id, rec)
  <2> HIDE DEF e, id, rec
  <2>1. ~(e > MaxEdge)
    BY Zenon, <1>4, <1>5
  <2>2. MaxEdge \in Nat
    BY Zenon, IsolationAssumption
  <2>3. e \in 1..MaxEdge
    BY <1>3, <2>1, <2>2
  <2> QED BY Zenon, <1>5, <2>1, <2>3 DEF EdgeId
<1>7. /\ EdgeKey(e) # OutKey(src, e) /\ EdgeKey(e) # InKey(dst, e) /\ OutKey(src, e) # InKey(dst, e)
      /\ Counter("e") \notin {EdgeKey(e), OutKey(src, e), InKey(dst, e)}
  BY Zenon DEF EdgeKey, OutKey, InKey, Counter
<1>8. /\ rec.ok /\ rec.reads = reads /\ DOMAIN rec.writes = {EdgeKey(e), OutKey(src, e), InKey(dst, e)}
      /\ rec.writes[EdgeKey(e)] = <<src, dst>> /\ rec.writes[OutKey(src, e)] # Absent /\ rec.writes[InKey(dst, e)] # Absent
  <2> HIDE DEF e
  <2> QED BY Zenon, <1>7, TrueThere DEF Effect, Over, Pair
<1> HIDE DEF id, rec, E, e
<1>9. /\ E.reads = id.reads \cup rec.reads
      /\ DOMAIN E.writes = DOMAIN id.writes \cup DOMAIN rec.writes
      /\ \A k \in DOMAIN rec.writes : E.writes[k] = rec.writes[k]
      /\ \A k \in DOMAIN id.writes : k \notin DOMAIN rec.writes => E.writes[k] = id.writes[k]
  BY <1>6, ThenIs
<1>10. E.reads = {Counter("e"), NodeKey(src), NodeKey(dst)}
       /\ DOMAIN E.writes = {Counter("e"), EdgeKey(e), OutKey(src, e), InKey(dst, e)}
  BY Zenon, <1>2, <1>8, <1>9
<1>11. /\ E.writes[Counter("e")] = e /\ E.writes[EdgeKey(e)] = <<src, dst>>
       /\ E.writes[OutKey(src, e)] # Absent /\ E.writes[InKey(dst, e)] # Absent
  BY Zenon, <1>2, <1>7, <1>8, <1>9
<1> QED BY Zenon, <1>3, <1>6, <1>10, <1>11 DEF e, E

\* CREATE of an edge keeps the store a graph.
LEMMA ConnectKeeps ==
    ASSUME NEW S, Sound(S), NEW src \in Nat, NEW dst \in Nat, CreateEdge(S, src, dst).ok
    PROVE  Sound(Apply(S, CreateEdge(S, src, dst).writes))
<1>1. CASE ~({NodeKey(src), NodeKey(dst)} \subseteq DOMAIN S)
  <2>1. CreateEdge(S, src, dst) = Nothing({NodeKey(src), NodeKey(dst)})
    BY Zenon, <1>1 DEF CreateEdge
  <2>2. CreateEdge(S, src, dst).writes = <<>>
    BY <2>1 DEF Nothing, Effect
  <2> QED BY <2>2, NothingWritten
<1>2. CASE {NodeKey(src), NodeKey(dst)} \subseteq DOMAIN S
  <2> DEFINE e == NewEdge(S)
             w == CreateEdge(S, src, dst).writes
             T == Apply(S, w)
  <2>1. /\ e \in Nat /\ e \in EdgeId
        /\ DOMAIN w = {Counter("e"), EdgeKey(e), OutKey(src, e), InKey(dst, e)}
        /\ w[Counter("e")] = e /\ w[EdgeKey(e)] = <<src, dst>>
        /\ w[OutKey(src, e)] # Absent /\ w[InKey(dst, e)] # Absent
    BY <1>2, ConnectIs
  <2>2. Clean(S) /\ Counters(S) /\ EdgeRecords(S)
    BY Zenon DEF Sound
  <2>3. e = Count(S, "e") + 1 /\ Count(S, "e") \in Nat
    BY Zenon, <2>2 DEF NewEdge, Counters
  <2>4. Absent # e /\ Absent # <<src, dst>>
    <3>1. <<src, dst>> \in Nat \X Nat
      BY Zenon
    <3> QED BY Zenon, <2>1, <3>1, IsolationAssumption
  <2> HIDE DEF e, w
  <2>5. \A k \in DOMAIN w : w[k] # Absent
    BY Zenon, <2>1, <2>4
  <2>6. (\A k : k \notin DOMAIN w => Same(S, T, k)) /\ \A k \in DOMAIN w : Has(T, k) /\ T[k] = w[k]
    BY Zenon, <2>2, <2>5, AppliedAt
  <2>7. \A k \in DOMAIN w : Tag(k) \in {"e", "o", "i"} \/ k = Counter("e")
    BY <2>1, Tags
  <2>8. NodeRecords(T) /\ Entries(T) /\ Owners(T) /\ Clean(T) /\ Count(T, "n") = Count(S, "n") /\ \A n \in Nat : Same(S, T, NodeKey(n))
    BY Zenon, <2>7, NodesUntouched
  <2> HIDE DEF T
  <2>9. Count(T, "e") = e
    BY Zenon, <2>1, <2>6 DEF Count
  <2>10. Counters(T)
    BY Zenon, <2>1, <2>2, <2>8, <2>9 DEF Counters
  <2>11. Has(T, EdgeKey(e)) /\ T[EdgeKey(e)] = <<src, dst>> /\ \A f \in Nat : f # e => Same(S, T, EdgeKey(f))
    BY SMTT(30), <2>1, <2>6, Tags, KeysApart
  <2>12. /\ Has(T, OutKey(src, e)) /\ Has(T, InKey(dst, e))
         /\ \A n, f \in Nat : /\ ~(n = src /\ f = e) => Same(S, T, OutKey(n, f))
                              /\ ~(n = dst /\ f = e) => Same(S, T, InKey(n, f))
    BY <2>1, <2>6, Tags, KeysApart
  <2>13. ~Has(S, EdgeKey(e)) /\ \A n \in Nat : ~Has(S, OutKey(n, e)) /\ ~Has(S, InKey(n, e))
    BY <2>1, <2>2, <2>3 DEF EdgeRecords
  <2>14. <<src, dst>>[1] = src /\ <<src, dst>>[2] = dst /\ <<src, dst>> \in Nat \X Nat
    BY Zenon
  <2>15. EdgeRecords(T)
    <3>1. ASSUME NEW f \in Nat, Has(T, EdgeKey(f))
          PROVE  /\ f \in EdgeId /\ f <= Count(T, "e") /\ T[EdgeKey(f)] \in Nat \X Nat
                 /\ Has(T, NodeKey(T[EdgeKey(f)][1])) /\ Has(T, NodeKey(T[EdgeKey(f)][2]))
      <4>1. CASE f = e
        BY <1>2, <2>1, <2>8, <2>9, <2>11, <2>14, <4>1 DEF Same, Has
      <4>2. CASE f # e
        <5>1. Has(S, EdgeKey(f)) /\ T[EdgeKey(f)] = S[EdgeKey(f)]
          BY Zenon, <2>11, <3>1, <4>2 DEF Same
        <5>2. /\ f \in EdgeId /\ f <= Count(S, "e") /\ S[EdgeKey(f)] \in Nat \X Nat
              /\ Has(S, NodeKey(S[EdgeKey(f)][1])) /\ Has(S, NodeKey(S[EdgeKey(f)][2]))
          BY Zenon, <2>2, <5>1 DEF EdgeRecords
        <5>3. S[EdgeKey(f)][1] \in Nat /\ S[EdgeKey(f)][2] \in Nat
          BY Zenon, <5>2
        <5>4. f <= Count(T, "e")
          BY <2>3, <2>9, <5>2
        <5> QED BY Zenon, <2>8, <5>1, <5>2, <5>3, <5>4 DEF Same
      <4> QED BY Zenon, <4>1, <4>2
    <3>2. ASSUME NEW n \in Nat, NEW f \in Nat
          PROVE  /\ Has(T, OutKey(n, f)) <=> Has(T, EdgeKey(f)) /\ T[EdgeKey(f)][1] = n
                 /\ Has(T, InKey(n, f)) <=> Has(T, EdgeKey(f)) /\ T[EdgeKey(f)][2] = n
      <4>1. CASE f = e
        BY Zenon, <2>11, <2>12, <2>13, <2>14, <4>1 DEF Same
      <4>2. CASE f # e
        BY <2>2, <2>11, <2>12, <4>2 DEF Same, EdgeRecords
      <4> QED BY Zenon, <4>1, <4>2
    <3> QED BY Zenon, <3>1, <3>2 DEF EdgeRecords
  <2> QED BY Zenon, <2>8, <2>10, <2>15 DEF Sound, T, w
<1> QED BY Zenon, <1>1, <1>2

----------------------------------------------------------------------------
(* Statements about the schema.                                            *)

\* The label index lists the nodes there are.
LEMMA Listed ==
    ASSUME NEW S, Sound(S)
    PROVE  /\ Readable(S)
           /\ \A n \in Nat : n \in NodesByLabel(S) <=> Has(S, NodeKey(n))
           /\ NodesByLabel(S) \subseteq Nat
           /\ {m \in NodesByLabel(S) : Has(S, NodeKey(m))} = NodesByLabel(S)
<1>1. NodeRecords(S) /\ NodeId \subseteq Nat
  BY DEF Sound, NodeId
<1>2. NodesByLabel(S) \subseteq Nat /\ \A n \in Nat : n \in NodesByLabel(S) <=> Has(S, NodeKey(n))
  BY Zenon, <1>1 DEF NodesByLabel, NodeRecords
<1> QED BY Zenon, <1>2 DEF Readable

\* Counters and nodes stay where only entries, owners and the schema are written.
LEMMA NodesStay ==
    ASSUME NEW S, Sound(S), NEW w, \A k \in DOMAIN w : Tag(k) \in {"p", "u", "X", "U"}
    PROVE  LET T == Apply(S, w)
           IN /\ Clean(T) /\ Counters(T) /\ NodeRecords(T) /\ EdgeRecords(T)
              /\ \A n \in Nat : Same(S, T, NodeKey(n))
<1> DEFINE T == Apply(S, w)
<1>1. Clean(S) /\ Counters(S) /\ NodeRecords(S)
  BY Zenon DEF Sound
<1>2. (\A k : Tag(k) \notin {"p", "u", "X", "U"} => Same(S, T, k)) /\ Clean(T)
  BY Zenon, <1>1, AppliedAt, Applied
<1> HIDE DEF T
<1>3. Same(S, T, Counter("n")) /\ Same(S, T, Counter("e")) /\ \A n \in Nat : Same(S, T, NodeKey(n)) /\ Same(S, T, LabelKey(n))
  BY Zenon, <1>2, Tags
<1>4. Count(T, "n") = Count(S, "n") /\ Count(T, "e") = Count(S, "e")
  BY Zenon, <1>3 DEF Count, Same
<1>5. Counters(T) /\ NodeRecords(T)
  BY Zenon, <1>1, <1>3, <1>4 DEF Counters, NodeRecords, Same
<1>6. EdgeRecords(T)
  <2>1. \A k \in DOMAIN w : Tag(k) \in {"n", "l", "p", "u", "X", "U"} \/ k = Counter("n")
    BY Zenon
  <2>2. \A n \in Nat : Has(S, NodeKey(n)) => Has(T, NodeKey(n))
    BY Zenon, <1>3 DEF Same
  <2> QED BY Zenon, <2>1, <2>2, EdgesUntouched DEF T
<1> QED BY Zenon, <1>2, <1>3, <1>5, <1>6 DEF T

EntriesOf(S) == {PropKey(S[NodeKey(n)], n) : n \in NodesByLabel(S)}

\* What building an index reads and writes.
LEMMA BuildIs ==
    ASSUME NEW S, Sound(S)
    PROVE  LET E == BuildIndex(S)
           IN /\ E.ok /\ E.reads = ScanReads(S) /\ DOMAIN E.writes = {IndexKey} \cup EntriesOf(S)
              /\ \A k \in DOMAIN E.writes : E.writes[k] # Absent
<1> DEFINE E == BuildIndex(S)
           held == {PropKey(S[NodeKey(n)], n) : n \in {m \in NodesByLabel(S) : Has(S, NodeKey(m))}}
<1>1. Readable(S) /\ held = EntriesOf(S)
  <2>1. {m \in NodesByLabel(S) : Has(S, NodeKey(m))} = NodesByLabel(S) /\ Readable(S)
    BY Zenon, Listed
  <2> QED BY Zenon, <2>1 DEF EntriesOf
<1> DEFINE w == [k \in {IndexKey} \cup held |-> TRUE]
<1>2. E = Effect(Readable(S), ScanReads(S), w)
  BY Zenon DEF BuildIndex
<1> HIDE DEF w, held, E
<1>3. E.ok = Readable(S) /\ E.reads = ScanReads(S) /\ E.writes = w
  BY <1>2, EffectIs
<1>4. E.ok
  BY Zenon, <1>1, <1>3
<1>5. DOMAIN w = {IndexKey} \cup held /\ \A k \in DOMAIN w : w[k] # Absent
  BY Zenon, TrueThere DEF w
<1> QED BY Zenon, <1>1, <1>3, <1>4, <1>5 DEF E

\* The entries of an index that was just built.
LEMMA EntriesBuilt ==
    ASSUME NEW S, Sound(S), NEW T, Has(T, IndexKey), \A n \in Nat : Same(S, T, NodeKey(n)),
           \A n \in Nat, v \in Value : Has(T, PropKey(v, n)) <=> PropKey(v, n) \in EntriesOf(S)
    PROVE  Entries(T)
<1> SUFFICES ASSUME NEW n \in Nat, NEW v \in Value
             PROVE  PropKey(v, n) \in EntriesOf(S) <=> Has(S, NodeKey(n)) /\ S[NodeKey(n)] = v
  BY Zenon DEF Entries, Same
<1>1. NodesByLabel(S) \subseteq Nat /\ (n \in NodesByLabel(S) <=> Has(S, NodeKey(n)))
  BY Zenon, Listed
<1>2. ASSUME PropKey(v, n) \in EntriesOf(S) PROVE Has(S, NodeKey(n)) /\ S[NodeKey(n)] = v
  <2>1. PICK m \in NodesByLabel(S) : PropKey(v, n) = PropKey(S[NodeKey(m)], m)
    BY Zenon, <1>2 DEF EntriesOf
  <2>2. m = n /\ S[NodeKey(m)] = v
    BY Zenon, <2>1, KeysApart
  <2> QED BY Zenon, <1>1, <2>2
<1>3. ASSUME Has(S, NodeKey(n)), S[NodeKey(n)] = v PROVE PropKey(v, n) \in EntriesOf(S)
  BY Zenon, <1>1, <1>3 DEF EntriesOf
<1> QED BY Zenon, <1>2, <1>3

\* CREATE INDEX keeps the store a graph.
LEMMA CreateIndexKeeps ==
    ASSUME NEW S, Sound(S)
    PROVE  Sound(Apply(S, CreateIndex(S).writes))
<1>1. CASE Has(S, IndexKey)
  <2>1. CreateIndex(S).writes = <<>>
    BY Zenon, <1>1 DEF CreateIndex, Nothing, Effect
  <2> QED BY <2>1, NothingWritten
<1>2. CASE ~Has(S, IndexKey)
  <2> DEFINE B == BuildIndex(S)
             N == Nothing({IndexKey})
             w == CreateIndex(S).writes
             T == Apply(S, w)
  <2>1. CreateIndex(S) = Then(N, B)
    BY Zenon, <1>2 DEF CreateIndex
  <2>2. N.writes = <<>>
    BY Zenon DEF Nothing, Effect
  <2>3. DOMAIN B.writes = {IndexKey} \cup EntriesOf(S) /\ \A k \in DOMAIN B.writes : B.writes[k] # Absent
    BY Zenon, BuildIs
  <2> HIDE DEF B, N
  <2>4. DOMAIN w = {IndexKey} \cup EntriesOf(S) /\ \A k \in DOMAIN w : w[k] # Absent
    BY <2>1, <2>2, <2>3, ThenIs
  <2> HIDE DEF w
  <2>5. \A k \in DOMAIN w : Tag(k) \in {"p", "X"}
    BY <2>4, Tags DEF EntriesOf
  <2>6. Clean(S) /\ Entries(S) /\ Owners(S)
    BY Zenon DEF Sound
  <2>7. Clean(T) /\ Counters(T) /\ NodeRecords(T) /\ EdgeRecords(T) /\ \A n \in Nat : Same(S, T, NodeKey(n))
    BY Zenon, <2>5, NodesStay
  <2>8. (\A k : k \notin DOMAIN w => Same(S, T, k)) /\ \A k \in DOMAIN w : Has(T, k)
    BY Zenon, <2>4, <2>6, AppliedAt
  <2> HIDE DEF T
  <2>9. \A n \in Nat, v \in Value : Has(T, PropKey(v, n)) <=> PropKey(v, n) \in EntriesOf(S)
    <3> SUFFICES ASSUME NEW n \in Nat, NEW v \in Value PROVE Has(T, PropKey(v, n)) <=> PropKey(v, n) \in EntriesOf(S)
      BY Zenon
    <3>1. ~Has(S, PropKey(v, n))
      BY Zenon, <1>2, <2>6 DEF Entries
    <3>2. PropKey(v, n) # IndexKey
      BY Zenon DEF PropKey, IndexKey
    <3> QED BY Zenon, <2>4, <2>8, <3>1, <3>2 DEF Same
  <2>10. Entries(T)
    BY Zenon, <2>4, <2>7, <2>8, <2>9, EntriesBuilt
  <2>11. Owners(T)
    <3>1. ~Has(S, ConstraintKey) /\ \A v \in Value : ~Has(S, UniqueKey(v))
      BY Zenon, <1>2, <2>6 DEF Owners
    <3>2. ~Has(T, ConstraintKey) /\ \A v \in Value : ~Has(T, UniqueKey(v))
      BY Zenon, <2>5, <2>8, <3>1, Tags DEF Same
    <3> QED BY Zenon, <3>2 DEF Owners
  <2> QED BY Zenon, <2>7, <2>10, <2>11 DEF Sound, T, w
<1> QED BY Zenon, <1>1, <1>2

\* deletePrefix reads and deletes the keys of a tag.
LEMMA PrefixIs ==
    ASSUME NEW S, NEW tag
    PROVE  LET E == deletePrefix(S, tag)
               keys == {k \in DOMAIN S : Tag(k) = tag}
           IN E.ok /\ E.reads = keys /\ DOMAIN E.writes = keys /\ \A k \in keys : E.writes[k] = Absent
<1> DEFINE keys == {k \in DOMAIN S : k[1] = tag}
<1>1. deletePrefix(S, tag) = Effect(TRUE, keys, Deletion(keys))
  BY Zenon DEF deletePrefix
<1>2. keys = {k \in DOMAIN S : Tag(k) = tag}
  BY Zenon DEF Tag
<1> HIDE DEF keys
<1> QED BY <1>1, <1>2 DEF Effect, Deletion

\* What DropIndex deletes.
LEMMA DropIndexIs ==
    ASSUME NEW S, DropIndex(S).ok
    PROVE  LET w == DropIndex(S).writes
           IN /\ Has(S, IndexKey) /\ ~Has(S, ConstraintKey)
              /\ DOMAIN w = {k \in DOMAIN S : Tag(k) = "p"} \cup {IndexKey}
              /\ \A k \in DOMAIN w : w[k] = Absent
<1> DEFINE P == deletePrefix(S, "p")
           X == Effect(TRUE, {IndexKey, ConstraintKey}, Deletion({IndexKey}))
           E == DropIndex(S)
<1>1. Has(S, IndexKey) /\ ~Has(S, ConstraintKey)
  BY Zenon DEF DropIndex, Failure, Effect
<1>2. E = Then(P, X)
  BY Zenon, <1>1 DEF DropIndex
<1>3. DOMAIN P.writes = {k \in DOMAIN S : Tag(k) = "p"} /\ \A k \in DOMAIN P.writes : P.writes[k] = Absent
  BY PrefixIs
<1>4. DOMAIN X.writes = {IndexKey} /\ X.writes[IndexKey] = Absent
  BY Zenon DEF Effect, Deletion
<1> HIDE DEF P, X, E
<1> QED BY <1>1, <1>2, <1>3, <1>4, ThenIs DEF E

\* DROP INDEX keeps the store a graph.
LEMMA DropIndexKeeps ==
    ASSUME NEW S, Sound(S), DropIndex(S).ok
    PROVE  Sound(Apply(S, DropIndex(S).writes))
<1> DEFINE w == DropIndex(S).writes
           T == Apply(S, w)
<1>1. /\ Has(S, IndexKey) /\ ~Has(S, ConstraintKey)
      /\ DOMAIN w = {k \in DOMAIN S : Tag(k) = "p"} \cup {IndexKey}
      /\ \A k \in DOMAIN w : w[k] = Absent
  BY Zenon, DropIndexIs
<1> HIDE DEF w
<1>2. Clean(S) /\ Owners(S)
  BY Zenon DEF Sound
<1>3. \A k \in DOMAIN w : Tag(k) \in {"p", "u", "X", "U"}
  BY Zenon, <1>1, Tags
<1>4. Clean(T) /\ Counters(T) /\ NodeRecords(T) /\ EdgeRecords(T) /\ \A n \in Nat : Same(S, T, NodeKey(n))
  BY Zenon, <1>3, NodesStay
<1>5. (\A k : k \notin DOMAIN w => Same(S, T, k)) /\ \A k \in DOMAIN w : ~Has(T, k)
  BY Zenon, <1>1, <1>2, AppliedAt
<1> HIDE DEF T
<1>6. ~Has(T, IndexKey)
  BY Zenon, <1>1, <1>5
<1>7. \A n \in Nat, v \in Value : ~Has(T, PropKey(v, n))
  BY Zenon, <1>1, <1>5, Tags DEF Same, Has
<1>8. Entries(T)
  BY Zenon, <1>6, <1>7 DEF Entries
<1>9. ~Has(T, ConstraintKey) /\ \A v \in Value : ~Has(T, UniqueKey(v))
  <2>1. ~Has(S, ConstraintKey) /\ \A v \in Value : ~Has(S, UniqueKey(v))
    BY Zenon, <1>1, <1>2 DEF Owners
  <2> QED BY Zenon, <1>5, <2>1 DEF Same
<1>10. Owners(T)
  BY Zenon, <1>9 DEF Owners
<1> QED BY Zenon, <1>4, <1>8, <1>10 DEF Sound, T, w

\* What AddUniqueConstraint writes: the index unless it was there, an owner for
\* each value held, and the constraint.
Holders(S, v) == {n \in NodesByLabel(S) : Get(S, NodeKey(n)) = v}
Owner(S, v) == CHOOSE n \in NodesByLabel(S) : n \in Holders(S, v)
Held(S) == {S[NodeKey(n)] : n \in NodesByLabel(S)}

\* What AddUniqueConstraint finds and writes.
LEMMA ConstrainIs ==
    ASSUME NEW S, Sound(S), ~Has(S, ConstraintKey), AddUniqueConstraint(S).ok
    PROVE  LET w == AddUniqueConstraint(S).writes
           IN /\ \A v \in Held(S) : \A n \in Holders(S, v) : Holders(S, v) = {n}
              /\ DOMAIN w = {k \in {IndexKey} \cup EntriesOf(S) : ~Has(S, IndexKey)}
                              \cup {ConstraintKey} \cup {UniqueKey(v) : v \in Held(S)}
              /\ \A k \in {IndexKey} \cup EntriesOf(S) : k \in DOMAIN w => w[k] # Absent
              /\ w[ConstraintKey] \in BOOLEAN
              /\ \A v \in Held(S) : w[UniqueKey(v)] = Owner(S, v)
<1> DEFINE E == AddUniqueConstraint(S)
           B == BuildIndex(S)
           N == Nothing({IndexKey})
           built == IF Has(S, IndexKey) THEN N ELSE Then(N, B)
           held == {S[NodeKey(n)] : n \in {m \in NodesByLabel(S) : Has(S, NodeKey(m))}}
           holders(v) == {n \in NodesByLabel(S) : Get(S, NodeKey(n)) = v}
           free == \A v \in held, n \in NodesByLabel(S) : n \in holders(v) =>
                       holders(v) = {n} /\ Get(S, UniqueKey(v)) \in {Absent, n}
           owners == [k \in {UniqueKey(v) : v \in held} |-> CHOOSE n \in NodesByLabel(S) : n \in holders(k[2])]
           reads == {ConstraintKey} \cup ScanReads(S) \cup {UniqueKey(v) : v \in held}
           ok == Readable(S) /\ free
           con == Pair(ConstraintKey, ~Has(S, IndexKey))
           own == Effect(ok, reads, Over(con, owners))
<1>1. E = Then(built, own)
  BY Zenon DEF AddUniqueConstraint
<1>2. held = Held(S)
  <2>1. {m \in NodesByLabel(S) : Has(S, NodeKey(m))} = NodesByLabel(S)
    BY Zenon, Listed
  <2> QED BY Zenon, <2>1 DEF Held
<1>3. DOMAIN built.writes = {k \in {IndexKey} \cup EntriesOf(S) : ~Has(S, IndexKey)}
      /\ \A k \in DOMAIN built.writes : built.writes[k] # Absent
  <2>1. N.writes = <<>>
    BY Zenon DEF Nothing, Effect
  <2>2. DOMAIN B.writes = {IndexKey} \cup EntriesOf(S) /\ \A k \in DOMAIN B.writes : B.writes[k] # Absent
    BY Zenon, BuildIs
  <2> HIDE DEF B, N
  <2>3. CASE Has(S, IndexKey)
    <3>1. built.writes = <<>>
      BY Zenon, <2>1, <2>3
    <3> QED BY <2>3, <3>1
  <2>4. CASE ~Has(S, IndexKey)
    <3>1. built = Then(N, B)
      BY Zenon, <2>4
    <3> HIDE DEF built
    <3> QED BY <2>1, <2>2, <2>4, <3>1, ThenIs
  <2> QED BY Zenon, <2>3, <2>4
<1>4. free
  <2>1. own.ok = ok
    <3> HIDE DEF ok, con, owners, reads
    <3> QED BY EffectIs
  <2>2. E.ok
    BY Zenon
  <2> HIDE DEF E, built, own, ok
  <2>3. E.ok <=> built.ok /\ own.ok
    <3>1. Then(built, own).ok <=> built.ok /\ own.ok
      BY Zenon, ThenIs
    <3> QED BY Zenon, <1>1, <3>1
  <2>4. ok
    BY Zenon, <2>1, <2>2, <2>3
  <2> QED BY Zenon, <2>4 DEF ok
<1>5. DOMAIN owners = {UniqueKey(v) : v \in Held(S)} /\ \A v \in Held(S) : owners[UniqueKey(v)] = Owner(S, v)
  <2>1. \A v : UniqueKey(v)[2] = v
    BY Zenon DEF UniqueKey
  <2>2. \A k \in DOMAIN owners : owners[k] = Owner(S, k[2])
    BY Zenon DEF Owner, Holders
  <2>3. DOMAIN owners = {UniqueKey(v) : v \in Held(S)}
    BY Zenon, <1>2
  <2> HIDE DEF owners
  <2> QED BY Zenon, <2>1, <2>2, <2>3
<1>6. DOMAIN con = {ConstraintKey} /\ con[ConstraintKey] \in BOOLEAN
  BY Zenon DEF Pair
<1>7. own.writes = Over(con, owners)
  <2> HIDE DEF con, owners, reads, ok
  <2> QED BY EffectIs
<1>8. \A v \in Held(S) : \A n \in Holders(S, v) : Holders(S, v) = {n}
  <2>1. \A v : holders(v) = Holders(S, v)
    BY Zenon DEF Holders
  <2> HIDE DEF holders
  <2>2. \A v \in Held(S), n \in NodesByLabel(S) : n \in Holders(S, v) => Holders(S, v) = {n}
    BY Zenon, <1>2, <1>4, <2>1
  <2> QED BY Zenon, <2>2 DEF Holders
<1> HIDE DEF E, built, own, con, owners
<1>9. \A v : UniqueKey(v) # ConstraintKey /\ UniqueKey(v) # IndexKey /\ UniqueKey(v) \notin EntriesOf(S)
  BY Zenon, Tags DEF EntriesOf
<1>10. IndexKey # ConstraintKey /\ ConstraintKey \notin EntriesOf(S)
  BY Zenon, Tags DEF EntriesOf
<1>11. /\ DOMAIN own.writes = {ConstraintKey} \cup {UniqueKey(v) : v \in Held(S)}
       /\ own.writes[ConstraintKey] \in BOOLEAN
       /\ \A v \in Held(S) : own.writes[UniqueKey(v)] = Owner(S, v)
  <2>1. /\ DOMAIN Over(con, owners) = DOMAIN con \cup DOMAIN owners
        /\ \A k \in DOMAIN con : Over(con, owners)[k] = con[k]
        /\ \A k \in DOMAIN owners : k \notin DOMAIN con => Over(con, owners)[k] = owners[k]
    BY Zenon, OverIs
  <2> QED BY Zenon, <1>5, <1>6, <1>7, <1>9, <2>1
<1>12. /\ DOMAIN E.writes = DOMAIN built.writes \cup DOMAIN own.writes
       /\ \A k \in DOMAIN own.writes : E.writes[k] = own.writes[k]
       /\ \A k \in DOMAIN built.writes : k \notin DOMAIN own.writes => E.writes[k] = built.writes[k]
  BY <1>1, ThenIs
<1>13. \A k \in {IndexKey} \cup EntriesOf(S) : k \notin DOMAIN own.writes
  BY Zenon, <1>9, <1>10, <1>11
<1>14. \A k \in {IndexKey} \cup EntriesOf(S) : k \in DOMAIN E.writes => E.writes[k] # Absent
  BY Zenon, <1>3, <1>12, <1>13
<1> QED BY Zenon, <1>3, <1>8, <1>11, <1>12, <1>14 DEF E

\* CREATE CONSTRAINT keeps the store a graph.
LEMMA ConstrainKeeps ==
    ASSUME NEW S, Sound(S), AddUniqueConstraint(S).ok
    PROVE  Sound(Apply(S, AddUniqueConstraint(S).writes))
<1>1. CASE Has(S, ConstraintKey)
  <2>1. AddUniqueConstraint(S) = Nothing({ConstraintKey})
    BY Zenon, <1>1 DEF AddUniqueConstraint
  <2>2. AddUniqueConstraint(S).writes = <<>>
    BY <2>1 DEF Nothing, Effect
  <2> QED BY <2>2, NothingWritten
<1>2. CASE ~Has(S, ConstraintKey)
  <2> DEFINE w == AddUniqueConstraint(S).writes
             T == Apply(S, w)
  <2>1. /\ \A v \in Held(S) : \A n \in Holders(S, v) : Holders(S, v) = {n}
        /\ DOMAIN w = {k \in {IndexKey} \cup EntriesOf(S) : ~Has(S, IndexKey)}
                        \cup {ConstraintKey} \cup {UniqueKey(v) : v \in Held(S)}
        /\ \A k \in {IndexKey} \cup EntriesOf(S) : k \in DOMAIN w => w[k] # Absent
        /\ w[ConstraintKey] \in BOOLEAN
        /\ \A v \in Held(S) : w[UniqueKey(v)] = Owner(S, v)
    BY Zenon, <1>2, ConstrainIs
  <2> HIDE DEF w
  <2>2. Clean(S) /\ Entries(S) /\ Owners(S)
    BY Zenon DEF Sound
  <2>3. /\ NodesByLabel(S) \subseteq Nat
        /\ \A n \in Nat : n \in NodesByLabel(S) <=> Has(S, NodeKey(n))
    BY Zenon, Listed
  <2>4. \A v \in Held(S) : /\ Owner(S, v) \in NodesByLabel(S) /\ S[NodeKey(Owner(S, v))] = v
                           /\ \A n \in NodesByLabel(S) : S[NodeKey(n)] = v => n = Owner(S, v)
    <3> SUFFICES ASSUME NEW v \in Held(S)
                 PROVE  /\ Owner(S, v) \in NodesByLabel(S) /\ S[NodeKey(Owner(S, v))] = v
                        /\ \A n \in NodesByLabel(S) : S[NodeKey(n)] = v => n = Owner(S, v)
      BY Zenon
    <3>1. \A n \in NodesByLabel(S) : Get(S, NodeKey(n)) = S[NodeKey(n)]
      BY Zenon, <2>3 DEF Get
    <3>2. \A n \in NodesByLabel(S) : n \in Holders(S, v) <=> S[NodeKey(n)] = v
      BY Zenon, <3>1 DEF Holders
    <3>3. PICK m \in NodesByLabel(S) : S[NodeKey(m)] = v
      BY Zenon DEF Held
    <3>4. m \in Holders(S, v)
      BY Zenon, <3>2, <3>3
    <3>5. Owner(S, v) \in NodesByLabel(S) /\ Owner(S, v) \in Holders(S, v)
      BY Zenon, <3>4 DEF Owner
    <3>6. Holders(S, v) = {Owner(S, v)}
      BY Zenon, <2>1, <3>5
    <3> QED BY Zenon, <3>2, <3>5, <3>6
  <2>5. /\ \A k \in DOMAIN w : Tag(k) \in {"p", "u", "X", "U"}
        /\ \A v \in Value : UniqueKey(v) \in DOMAIN w => v \in Held(S)
        /\ \A v, n : PropKey(v, n) \in DOMAIN w <=> ~Has(S, IndexKey) /\ PropKey(v, n) \in EntriesOf(S)
        /\ IndexKey \in DOMAIN w <=> ~Has(S, IndexKey)
    BY <2>1, Tags, KeysApart DEF EntriesOf
  <2>6. Clean(T) /\ Counters(T) /\ NodeRecords(T) /\ EdgeRecords(T) /\ \A n \in Nat : Same(S, T, NodeKey(n))
    BY Zenon, <2>5, NodesStay
  <2>7. (\A k : k \notin DOMAIN w => Same(S, T, k)) /\ \A k \in DOMAIN w : w[k] # Absent => Has(T, k) /\ T[k] = w[k]
    BY Zenon, <2>2, AppliedAt
  <2> HIDE DEF T
  <2>8. Has(T, ConstraintKey) /\ T[ConstraintKey] \in BOOLEAN
    BY Zenon, <2>1, <2>7, IsolationAssumption
  <2>9. Has(T, IndexKey)
    BY Zenon, <2>1, <2>5, <2>7 DEF Same
  <2>10. Entries(T)
    <3>1. CASE Has(S, IndexKey)
      <4>1. \A n \in Nat, v \in Value : Same(S, T, PropKey(v, n))
        BY Zenon, <2>5, <2>7, <3>1
      <4> QED BY Zenon, <2>2, <2>6, <2>9, <3>1, <4>1 DEF Entries, Same
    <3>2. CASE ~Has(S, IndexKey)
      <4>1. \A n \in Nat, v \in Value : Has(T, PropKey(v, n)) <=> PropKey(v, n) \in EntriesOf(S)
        <5> SUFFICES ASSUME NEW n \in Nat, NEW v \in Value PROVE Has(T, PropKey(v, n)) <=> PropKey(v, n) \in EntriesOf(S)
          BY Zenon
        <5>1. ~Has(S, PropKey(v, n))
          BY Zenon, <2>2, <3>2 DEF Entries
        <5> QED BY Zenon, <2>1, <2>5, <2>7, <3>2, <5>1 DEF Same
      <4> QED BY Zenon, <2>6, <2>9, <4>1, EntriesBuilt
    <3> QED BY Zenon, <3>1, <3>2
  <2>11. \A v \in Held(S) : Has(T, UniqueKey(v)) /\ T[UniqueKey(v)] = Owner(S, v)
    <3>1. \A v \in Held(S) : UniqueKey(v) \in DOMAIN w
      BY Zenon, <2>1
    <3>2. \A n \in Nat : n # Absent
      BY Zenon, IsolationAssumption
    <3> QED BY <2>1, <2>3, <2>4, <2>7, <3>1, <3>2
  <2>12. Owners(T)
    <3>1. ASSUME NEW v \in Value, Has(T, UniqueKey(v))
          PROVE  /\ T[UniqueKey(v)] \in Nat
                 /\ Has(T, NodeKey(T[UniqueKey(v)])) /\ T[NodeKey(T[UniqueKey(v)])] = v
      <4>1. ~Has(S, UniqueKey(v))
        BY Zenon, <1>2, <2>2 DEF Owners
      <4>2. v \in Held(S)
        BY Zenon, <2>5, <2>7, <3>1, <4>1 DEF Same
      <4>3. T[UniqueKey(v)] = Owner(S, v) /\ Owner(S, v) \in Nat /\ Has(S, NodeKey(Owner(S, v))) /\ S[NodeKey(Owner(S, v))] = v
        BY Zenon, <2>3, <2>4, <2>11, <4>2
      <4> QED BY Zenon, <2>6, <4>3 DEF Same
    <3>2. ASSUME NEW n \in Nat, Has(T, NodeKey(n))
          PROVE  Has(T, UniqueKey(T[NodeKey(n)])) /\ T[UniqueKey(T[NodeKey(n)])] = n
      <4>1. Has(S, NodeKey(n)) /\ T[NodeKey(n)] = S[NodeKey(n)] /\ n \in NodesByLabel(S)
        BY Zenon, <2>3, <2>6, <3>2 DEF Same
      <4>2. S[NodeKey(n)] \in Held(S)
        BY Zenon, <4>1 DEF Held
      <4> QED BY Zenon, <2>4, <2>11, <4>1, <4>2
    <3> QED BY Zenon, <2>8, <2>9, <3>1, <3>2 DEF Owners
  <2> QED BY Zenon, <2>6, <2>10, <2>12 DEF Sound, T, w
<1> QED BY Zenon, <1>1, <1>2

\* What DropUniqueConstraint deletes.
LEMMA ReleaseIs ==
    ASSUME NEW S, DropUniqueConstraint(S).ok
    PROVE  LET w == DropUniqueConstraint(S).writes
           IN /\ Has(S, ConstraintKey)
              /\ DOMAIN w = {k \in DOMAIN S : Tag(k) = "u"} \cup {ConstraintKey}
                              \cup {k \in {x \in DOMAIN S : Tag(x) = "p"} \cup {IndexKey} : S[ConstraintKey]}
              /\ \A k \in DOMAIN w : w[k] = Absent
<1> DEFINE U == deletePrefix(S, "u")
           P == deletePrefix(S, "p")
           C == Effect(TRUE, {ConstraintKey}, Deletion({ConstraintKey}))
           X == Effect(TRUE, {}, Deletion({IndexKey}))
           E == DropUniqueConstraint(S)
<1>1. Has(S, ConstraintKey)
  BY Zenon DEF DropUniqueConstraint, Failure, Effect
<1>2. /\ DOMAIN U.writes = {k \in DOMAIN S : Tag(k) = "u"} /\ \A k \in DOMAIN U.writes : U.writes[k] = Absent
      /\ DOMAIN P.writes = {k \in DOMAIN S : Tag(k) = "p"} /\ \A k \in DOMAIN P.writes : P.writes[k] = Absent
  BY PrefixIs
<1>3. /\ DOMAIN C.writes = {ConstraintKey} /\ C.writes[ConstraintKey] = Absent
      /\ DOMAIN X.writes = {IndexKey} /\ X.writes[IndexKey] = Absent
  BY Zenon DEF Effect, Deletion
<1>4. /\ S[ConstraintKey] => E = Then(Then(U, C), Then(P, X))
      /\ ~S[ConstraintKey] => E = Then(U, C)
  BY Zenon, <1>1 DEF DropUniqueConstraint
<1> HIDE DEF U, P, C, X, E
<1>5. /\ DOMAIN Then(U, C).writes = DOMAIN U.writes \cup {ConstraintKey}
      /\ \A k \in DOMAIN Then(U, C).writes : Then(U, C).writes[k] = Absent
  BY <1>2, <1>3, ThenIs
<1>6. /\ DOMAIN Then(P, X).writes = DOMAIN P.writes \cup {IndexKey}
      /\ \A k \in DOMAIN Then(P, X).writes : Then(P, X).writes[k] = Absent
  BY <1>2, <1>3, ThenIs
<1>7. CASE S[ConstraintKey]
  <2>1. E = Then(Then(U, C), Then(P, X))
    BY Zenon, <1>4, <1>7
  <2>2. /\ DOMAIN E.writes = DOMAIN U.writes \cup {ConstraintKey} \cup DOMAIN P.writes \cup {IndexKey}
        /\ \A k \in DOMAIN E.writes : E.writes[k] = Absent
    BY <1>5, <1>6, <2>1, ThenIs
  <2> QED BY Zenon, <1>1, <1>2, <1>7, <2>2 DEF E
<1>8. CASE ~S[ConstraintKey]
  <2>1. E = Then(U, C)
    BY Zenon, <1>4, <1>8
  <2> QED BY Zenon, <1>1, <1>2, <1>5, <1>8, <2>1 DEF E
<1> QED BY Zenon, <1>7, <1>8

\* DROP CONSTRAINT keeps the store a graph.
LEMMA ReleaseKeeps ==
    ASSUME NEW S, Sound(S), DropUniqueConstraint(S).ok
    PROVE  Sound(Apply(S, DropUniqueConstraint(S).writes))
<1> DEFINE w == DropUniqueConstraint(S).writes
           T == Apply(S, w)
<1>1. /\ Has(S, ConstraintKey)
      /\ DOMAIN w = {k \in DOMAIN S : Tag(k) = "u"} \cup {ConstraintKey}
                      \cup {k \in {x \in DOMAIN S : Tag(x) = "p"} \cup {IndexKey} : S[ConstraintKey]}
      /\ \A k \in DOMAIN w : w[k] = Absent
  BY Zenon, ReleaseIs
<1> HIDE DEF w
<1>2. Clean(S) /\ Entries(S) /\ Owners(S)
  BY Zenon DEF Sound
<1>3. \A k \in DOMAIN w : Tag(k) \in {"p", "u", "X", "U"}
  BY Zenon, <1>1, Tags
<1>4. Clean(T) /\ Counters(T) /\ NodeRecords(T) /\ EdgeRecords(T) /\ \A n \in Nat : Same(S, T, NodeKey(n))
  BY Zenon, <1>3, NodesStay
<1>5. (\A k : k \notin DOMAIN w => Same(S, T, k)) /\ \A k \in DOMAIN w : ~Has(T, k)
  BY Zenon, <1>1, <1>2, AppliedAt
<1> HIDE DEF T
<1>6. ~Has(T, ConstraintKey) /\ \A v \in Value : ~Has(T, UniqueKey(v))
  BY Zenon, <1>1, <1>5, Tags DEF Same, Has
<1>7. Owners(T)
  BY Zenon, <1>6 DEF Owners
<1>8. Entries(T)
  <2>1. CASE S[ConstraintKey]
    <3>1. ~Has(T, IndexKey) /\ \A n \in Nat, v \in Value : ~Has(T, PropKey(v, n))
      BY Zenon, <1>1, <1>5, <2>1, Tags DEF Same, Has
    <3> QED BY Zenon, <3>1 DEF Entries
  <2>2. CASE ~S[ConstraintKey]
    <3>1. \A k \in DOMAIN w : Tag(k) \in {"u", "U"}
      BY Zenon, <1>1, <2>2, Tags
    <3>2. Same(S, T, IndexKey) /\ \A n \in Nat, v \in Value : Same(S, T, PropKey(v, n))
      BY Zenon, <1>5, <3>1, Tags
    <3> QED BY Zenon, <1>2, <1>4, <3>2 DEF Entries, Same
  <2> QED BY Zenon, <2>1, <2>2
<1> QED BY Zenon, <1>4, <1>7, <1>8 DEF Sound, T, w

----------------------------------------------------------------------------
(* Any statement.                                                          *)

\* A statement is of one of these kinds.
LEMMA Kinds ==
    ASSUME NEW st \in Statements
    PROVE  \/ \E v \in Value : st = <<"create", v>> \/ st = <<"merge", v>>
           \/ \E n \in Nat, v \in Value : st = <<"set", n, v>>
           \/ \E n \in Nat : st = <<"delete", n>> \/ st = <<"detach", n>> \/ st = <<"disconnect", n>>
           \/ \E n, m \in Nat : st = <<"connect", n, m>>
           \/ st \in {<<"createIndex">>, <<"dropIndex">>, <<"createConstraint">>, <<"dropConstraint">>}
<1>1. CASE st \in {"create", "merge"} \X Value
  BY <1>1
<1>2. CASE st \in {"set"} \X Nat \X Value
  BY <1>2
<1>3. CASE st \in {"delete", "detach", "disconnect"} \X Nat
  BY <1>3
<1>4. CASE st \in {"connect"} \X Nat \X Nat
  BY <1>4
<1> QED BY Zenon, <1>1, <1>2, <1>3, <1>4 DEF Statements

\* What running it does.
LEMMA Runs ==
    ASSUME NEW S
    PROVE  /\ \A v : Run(S, <<"create", v>>) = CreateNode(S, v)
           /\ \A v : Run(S, <<"merge", v>>) = mergeNode(S, v)
           /\ \A n, v : Run(S, <<"set", n, v>>) = SetProperty(S, n, v)
           /\ \A n : Run(S, <<"delete", n>>) = DeleteNode(S, n)
           /\ \A n : Run(S, <<"detach", n>>) = DetachDeleteNode(S, n)
           /\ \A n, m : Run(S, <<"connect", n, m>>) = CreateEdge(S, n, m)
           /\ \A e : Run(S, <<"disconnect", e>>) = DeleteEdge(S, e)
           /\ Run(S, <<"createIndex">>) = CreateIndex(S)
           /\ Run(S, <<"dropIndex">>) = DropIndex(S)
           /\ Run(S, <<"createConstraint">>) = AddUniqueConstraint(S)
           /\ Run(S, <<"dropConstraint">>) = DropUniqueConstraint(S)
<1>1. \A v : Run(S, <<"create", v>>) = CreateNode(S, v)
  BY Zenon DEF Run
<1>2. \A v : Run(S, <<"merge", v>>) = mergeNode(S, v)
  BY Zenon DEF Run
<1>3. \A n, v : Run(S, <<"set", n, v>>) = SetProperty(S, n, v)
  BY Zenon DEF Run
<1>4. \A n : Run(S, <<"delete", n>>) = DeleteNode(S, n)
  BY Zenon DEF Run
<1>5. \A n : Run(S, <<"detach", n>>) = DetachDeleteNode(S, n)
  BY Zenon DEF Run
<1>6. \A n, m : Run(S, <<"connect", n, m>>) = CreateEdge(S, n, m)
  BY DEF Run
<1>7. \A e : Run(S, <<"disconnect", e>>) = DeleteEdge(S, e)
  BY Zenon DEF Run
<1>8. Run(S, <<"createIndex">>) = CreateIndex(S)
  BY Zenon DEF Run
<1>9. Run(S, <<"dropIndex">>) = DropIndex(S)
  BY Zenon DEF Run
<1>10. Run(S, <<"createConstraint">>) = AddUniqueConstraint(S)
  BY Zenon DEF Run
<1>11. Run(S, <<"dropConstraint">>) = DropUniqueConstraint(S)
  BY Zenon DEF Run
<1> QED BY Zenon, <1>1, <1>2, <1>3, <1>4, <1>5, <1>6, <1>7, <1>8, <1>9, <1>10, <1>11

\* A statement that succeeds leaves a graph.
LEMMA RunKeeps ==
    ASSUME NEW S, Sound(S), NEW st \in Statements, Run(S, st).ok
    PROVE  Sound(Apply(S, Run(S, st).writes))
<1>1. ASSUME NEW v \in Value, st = <<"create", v>> PROVE Sound(Apply(S, Run(S, st).writes))
  <2>1. Run(S, st) = CreateNode(S, v)
    BY Zenon, <1>1, Runs
  <2> QED BY Zenon, <2>1, CreateKeeps
<1>2. ASSUME NEW v \in Value, st = <<"merge", v>> PROVE Sound(Apply(S, Run(S, st).writes))
  <2>1. Run(S, st) = mergeNode(S, v)
    BY Zenon, <1>2, Runs
  <2> QED BY Zenon, <2>1, MergeKeeps
<1>3. ASSUME NEW n \in Nat, NEW v \in Value, st = <<"set", n, v>> PROVE Sound(Apply(S, Run(S, st).writes))
  <2>1. Run(S, st) = SetProperty(S, n, v)
    BY Zenon, <1>3, Runs
  <2> QED BY Zenon, <2>1, SetKeeps
<1>4. ASSUME NEW n \in Nat, st = <<"delete", n>> PROVE Sound(Apply(S, Run(S, st).writes))
  <2>1. Run(S, st) = DeleteNode(S, n)
    BY Zenon, <1>4, Runs
  <2> QED BY Zenon, <2>1, DeleteNodeKeeps
<1>5. ASSUME NEW n \in Nat, st = <<"detach", n>> PROVE Sound(Apply(S, Run(S, st).writes))
  <2>1. Run(S, st) = DetachDeleteNode(S, n)
    BY Zenon, <1>5, Runs
  <2> QED BY Zenon, <2>1, DetachKeeps
<1>6. ASSUME NEW e \in Nat, st = <<"disconnect", e>> PROVE Sound(Apply(S, Run(S, st).writes))
  <2>1. Run(S, st) = DeleteEdge(S, e)
    BY Zenon, <1>6, Runs
  <2> QED BY Zenon, <2>1, DeleteEdgeKeeps
<1>7. ASSUME NEW n \in Nat, NEW m \in Nat, st = <<"connect", n, m>> PROVE Sound(Apply(S, Run(S, st).writes))
  <2>1. Run(S, st) = CreateEdge(S, n, m)
    BY Zenon, <1>7, Runs
  <2> QED BY Zenon, <2>1, ConnectKeeps
<1>8. CASE st \in {<<"createIndex">>, <<"dropIndex">>, <<"createConstraint">>, <<"dropConstraint">>}
  BY ZenonT(30), <1>8, Runs, CreateIndexKeeps, DropIndexKeeps, ConstrainKeeps, ReleaseKeeps
<1> QED BY Zenon, <1>1, <1>2, <1>3, <1>4, <1>5, <1>6, <1>7, <1>8, Kinds

\* Which records a statement may put: labels with the counter, edges only by
\* "connect", nodes only by "create", "merge" and "set".
Footprint(w, name) ==
    /\ \A k \in DOMAIN w : Tag(k) = "l" => w[k] = Absent \/ Counter("n") \in DOMAIN w
    /\ name # "connect" => \A k \in DOMAIN w : Tag(k) = "e" => w[k] = Absent
    /\ name \notin {"create", "merge", "set"} => \A k \in DOMAIN w : Tag(k) = "n" => w[k] = Absent

\* Deletions put nothing.
LEMMA Deleting ==
    ASSUME NEW w, NEW name, \A k \in DOMAIN w : w[k] = Absent
    PROVE  Footprint(w, name)
BY Zenon DEF Footprint

\* Entries, owners and the registry are nobody's records.
LEMMA Registering ==
    ASSUME NEW w, NEW name, \A k \in DOMAIN w : Tag(k) \in {"p", "u", "X", "U"}
    PROVE  Footprint(w, name)
BY Zenon DEF Footprint

\* DeleteNode and DeleteEdge only delete.
LEMMA DeletionsOnly ==
    ASSUME NEW S, Sound(S), NEW n \in Nat
    PROVE  /\ DeleteNode(S, n).ok => \A k \in DOMAIN DeleteNode(S, n).writes : DeleteNode(S, n).writes[k] = Absent
           /\ \A k \in DOMAIN DeleteEdge(S, n).writes : DeleteEdge(S, n).writes[k] = Absent
<1>1. ASSUME DeleteNode(S, n).ok PROVE \A k \in DOMAIN DeleteNode(S, n).writes : DeleteNode(S, n).writes[k] = Absent
  <2>1. CASE ~Has(S, NodeKey(n))
    <3>1. DeleteNode(S, n).writes = <<>>
      BY Zenon, <2>1 DEF DeleteNode, Nothing, Effect
    <3> QED BY <3>1
  <2>2. CASE Has(S, NodeKey(n)) /\ hasIncidentEdges(S, n)
    <3>1. DeleteNode(S, n) = Failure /\ ~Failure.ok
      BY Zenon, <2>2 DEF DeleteNode, Failure, Effect
    <3> QED BY Zenon, <1>1, <3>1
  <2>3. CASE Has(S, NodeKey(n)) /\ ~hasIncidentEdges(S, n)
    BY Zenon, <2>3, DeleteIs
  <2> QED BY Zenon, <2>1, <2>2, <2>3
<1>2. \A k \in DOMAIN DeleteEdge(S, n).writes : DeleteEdge(S, n).writes[k] = Absent
  <2>1. CASE ~Has(S, EdgeKey(n))
    <3>1. DeleteEdge(S, n).writes = <<>>
      BY Zenon, <2>1 DEF DeleteEdge, Nothing, Effect
    <3> QED BY <3>1
  <2>2. CASE Has(S, EdgeKey(n))
    <3>1. DeleteEdge(S, n).writes = Deletion(KeysOf(S, n))
      BY Zenon, <2>2 DEF DeleteEdge, Effect, KeysOf
    <3> QED BY Zenon, <3>1, DeletionIs
  <2> QED BY Zenon, <2>1, <2>2
<1> QED BY Zenon, <1>1, <1>2

\* DetachDeleteNode only deletes.
LEMMA DetachDeletes ==
    ASSUME NEW S, Sound(S), NEW n \in Nat, DetachDeleteNode(S, n).ok
    PROVE  \A k \in DOMAIN DetachDeleteNode(S, n).writes : DetachDeleteNode(S, n).writes[k] = Absent
<1>1. CASE ~Has(S, NodeKey(n))
  <2>1. DetachDeleteNode(S, n) = Nothing({NodeKey(n)})
    BY Zenon, <1>1 DEF DetachDeleteNode
  <2>2. DetachDeleteNode(S, n).writes = <<>>
    BY <2>1 DEF Nothing, Effect
  <2> QED BY <2>2
<1>2. CASE Has(S, NodeKey(n))
  <2> DEFINE edges == EdgesOf(S, n)
             listed == {OutKey(n, e) : e \in EdgeId} \cup {InKey(n, e) : e \in EdgeId}
             gone == UNION {KeysOf(S, e) : e \in {f \in edges : Has(S, EdgeKey(f))}}
             dels == Effect(\A e \in edges : Has(S, EdgeKey(e)),
                            (listed \cap DOMAIN S) \cup {EdgeKey(e) : e \in edges}, Deletion(gone))
             T == Apply(S, dels.writes)
             D == DeleteNode(T, n)
             E == DetachDeleteNode(S, n)
  <2>1. E = Then(dels, D)
    BY <1>2, Zenon DEF DetachDeleteNode, EdgesOf, KeysOf
  <2>2. dels.writes = Deletion(UNION {KeysOf(S, e) : e \in {f \in EdgesOf(S, n) : Has(S, EdgeKey(f))}})
    BY Zenon DEF Effect
  <2>3. \A k \in DOMAIN dels.writes : dels.writes[k] = Absent
    <3>1. dels.writes = Deletion(gone)
      BY Zenon DEF Effect
    <3> HIDE DEF gone, dels
    <3> QED BY Zenon, <3>1, DeletionIs
  <2> HIDE DEF dels
  <2>4. Sound(T)
    BY Zenon, <1>2, <2>2, DetachIs
  <2>5. D.ok
    BY <2>1, ThenIs
  <2>6. \A k \in DOMAIN D.writes : D.writes[k] = Absent
    BY Zenon, <2>4, <2>5, DeletionsOnly
  <2> HIDE DEF D, E
  <2> QED BY <2>1, <2>3, <2>6, ThenIs DEF E
<1> QED BY Zenon, <1>1, <1>2

\* The keys CreateNode writes, its new record among them.
LEMMA CreateFootprint ==
    ASSUME NEW S, Sound(S), NEW v \in Value, CreateNode(S, v).ok
    PROVE  LET w == CreateNode(S, v).writes
               n == NewNode(S)
           IN /\ Counter("n") \in DOMAIN w /\ n \in Nat /\ w[NodeKey(n)] = v
              /\ \A k \in DOMAIN w : k \in {Counter("n"), NodeKey(n), LabelKey(n)} \/ Tag(k) \in {"p", "u"}
<1> DEFINE n == NewNode(S)
           P == putPropEntry(S, v, n)
           w == CreateNode(S, v).writes
<1>1. /\ n \in Nat /\ DOMAIN w = {Counter("n"), NodeKey(n), LabelKey(n)} \cup DOMAIN P.writes
      /\ w[NodeKey(n)] = v
  BY CreateIs
<1>2. Clean(S)
  BY Zenon DEF Sound
<1> HIDE DEF n, w
<1>3. DOMAIN P.writes = {k \in {PropKey(v, n)} : Indexed(S)} \cup {k \in {UniqueKey(v)} : Constrained(S) /\ ~Has(S, k)}
  BY Zenon, <1>1, <1>2, PutIs
<1> HIDE DEF P
<1>4. \A k \in DOMAIN P.writes : Tag(k) \in {"p", "u"}
  BY Zenon, <1>3, Tags
<1> QED BY Zenon, <1>1, <1>4 DEF n, w

\* A statement puts only the records of its kind.
LEMMA RunFootprint ==
    ASSUME NEW S, Sound(S), NEW st \in Statements, Run(S, st).ok
    PROVE  Footprint(Run(S, st).writes, st[1])
<1> DEFINE w == Run(S, st).writes
<1> SUFFICES Footprint(w, st[1])
  BY Zenon
<1>1. ASSUME NEW v \in Value, st = <<"create", v>> \/ st = <<"merge", v>> PROVE Footprint(w, st[1])
  <2>1. ASSUME CreateNode(S, v).ok, w = CreateNode(S, v).writes \/ /\ DOMAIN w = DOMAIN CreateNode(S, v).writes
                                                                   /\ \A k \in DOMAIN w : w[k] = CreateNode(S, v).writes[k]
        PROVE Footprint(w, st[1])
    <3>1. Counter("n") \in DOMAIN w
      BY Zenon, <2>1, CreateFootprint
    <3>2. \A k \in DOMAIN w : k \in {Counter("n"), NodeKey(NewNode(S)), LabelKey(NewNode(S))} \/ Tag(k) \in {"p", "u"}
      BY Zenon, <2>1, CreateFootprint
    <3>3. \A k \in DOMAIN w : Tag(k) # "e"
      BY Zenon, <3>2, Tags
    <3>4. st[1] \in {"create", "merge"}
      BY <1>1
    <3> HIDE DEF w
    <3> QED BY Zenon, <3>1, <3>3, <3>4 DEF Footprint
  <2>2. CASE st = <<"create", v>>
    BY Zenon, <2>1, <2>2, Runs
  <2>3. CASE st = <<"merge", v>>
    <3>1. Run(S, st) = mergeNode(S, v)
      BY Zenon, <2>3, Runs
    <3>2. CASE Matches(S, v)
      <4>1. DOMAIN w = {}
        BY <3>1, <3>2, MergeIs
      <4> HIDE DEF w
      <4> QED BY Zenon, <4>1 DEF Footprint
    <3>3. CASE ~Matches(S, v)
      BY <2>1, <3>1, <3>3, MergeIs
    <3> QED BY Zenon, <3>2, <3>3
  <2> QED BY Zenon, <1>1, <2>2, <2>3
<1>2. ASSUME NEW n \in Nat, NEW v \in Value, st = <<"set", n, v>> PROVE Footprint(w, st[1])
  <2>1. Run(S, st) = SetProperty(S, n, v) /\ st[1] = "set"
    BY Zenon, <1>2, Runs
  <2>2. \A k \in DOMAIN w : Tag(k) \in {"n", "p", "u"}
    <3>1. CASE ~Has(S, NodeKey(n))
      <4>1. w = <<>>
        BY <2>1, <3>1 DEF SetProperty, Nothing, Effect
      <4> HIDE DEF w
      <4> QED BY <4>1
    <3>2. CASE Has(S, NodeKey(n))
      <4>1. DOMAIN w = {NodeKey(n)} \cup {k \in {PropKey(S[NodeKey(n)], n), PropKey(v, n)} : Indexed(S)}
                              \cup {k \in {UniqueKey(S[NodeKey(n)]), UniqueKey(v)} : Constrained(S)}
        BY <2>1, <3>2, SetWrites
      <4> HIDE DEF w
      <4> QED BY SMTT(30), <4>1, Tags
    <3> QED BY Zenon, <3>1, <3>2
  <2> HIDE DEF w
  <2> QED BY Zenon, <2>1, <2>2 DEF Footprint
<1>3. ASSUME NEW n \in Nat, st = <<"delete", n>> \/ st = <<"detach", n>> \/ st = <<"disconnect", n>>
      PROVE  Footprint(w, st[1])
  <2>1. \A k \in DOMAIN w : w[k] = Absent
    <3>1. CASE Run(S, st) = DeleteNode(S, n)
      BY <3>1, DeletionsOnly
    <3>2. CASE Run(S, st) = DetachDeleteNode(S, n)
      BY Zenon, <3>2, DetachDeletes
    <3>3. CASE Run(S, st) = DeleteEdge(S, n)
      BY <3>3, DeletionsOnly
    <3>4. Run(S, st) = DeleteNode(S, n) \/ Run(S, st) = DetachDeleteNode(S, n) \/ Run(S, st) = DeleteEdge(S, n)
      BY Zenon, <1>3, Runs
    <3> QED BY Zenon, <3>1, <3>2, <3>3, <3>4
  <2> QED BY Zenon, <2>1, Deleting
<1>4. ASSUME NEW n \in Nat, NEW m \in Nat, st = <<"connect", n, m>> PROVE Footprint(w, st[1])
  <2>1. Run(S, st) = CreateEdge(S, n, m) /\ st[1] = "connect"
    BY Zenon, <1>4, Runs
  <2>2. \A k \in DOMAIN w : Tag(k) \in {"c", "e", "o", "i"}
    <3>1. CASE ~({NodeKey(n), NodeKey(m)} \subseteq DOMAIN S)
      <4>1. CreateEdge(S, n, m) = Nothing({NodeKey(n), NodeKey(m)})
        BY Zenon, <3>1 DEF CreateEdge
      <4>2. w = <<>>
        BY <2>1, <4>1 DEF Nothing, Effect
      <4> HIDE DEF w
      <4> QED BY <4>2
    <3>2. CASE {NodeKey(n), NodeKey(m)} \subseteq DOMAIN S
      <4>1. DOMAIN w = {Counter("e"), EdgeKey(NewEdge(S)), OutKey(n, NewEdge(S)), InKey(m, NewEdge(S))}
        BY <2>1, <3>2, ConnectIs
      <4> HIDE DEF w
      <4> QED BY <4>1, Tags
    <3> QED BY Zenon, <3>1, <3>2
  <2> HIDE DEF w
  <2> QED BY Zenon, <2>1, <2>2 DEF Footprint
<1>5. CASE st = <<"createIndex">>
  <2>1. Run(S, st) = CreateIndex(S)
    BY Zenon, <1>5, Runs
  <2>2. CASE Has(S, IndexKey)
    <3>1. w = <<>>
      BY <2>1, <2>2 DEF CreateIndex, Nothing, Effect
    <3> HIDE DEF w
    <3> QED BY <3>1, Deleting
  <2>3. CASE ~Has(S, IndexKey)
    <3> DEFINE B == BuildIndex(S)
               N == Nothing({IndexKey})
    <3>1. CreateIndex(S) = Then(N, B)
      BY Zenon, <2>3 DEF CreateIndex
    <3>2. N.writes = <<>>
      BY Zenon DEF Nothing, Effect
    <3>3. DOMAIN B.writes = {IndexKey} \cup EntriesOf(S)
      BY Zenon, BuildIs
    <3> HIDE DEF B, N
    <3>4. DOMAIN w = {IndexKey} \cup EntriesOf(S)
      BY <2>1, <3>1, <3>2, <3>3, ThenIs
    <3> HIDE DEF w
    <3>5. \A k \in DOMAIN w : Tag(k) \in {"p", "u", "X", "U"}
      BY <3>4, Tags DEF EntriesOf
    <3> QED BY Zenon, <3>5, Registering
  <2> QED BY Zenon, <2>2, <2>3
<1>6. CASE st = <<"createConstraint">>
  <2>1. Run(S, st) = AddUniqueConstraint(S)
    BY Zenon, <1>6, Runs
  <2>2. CASE Has(S, ConstraintKey)
    <3>1. AddUniqueConstraint(S) = Nothing({ConstraintKey})
      BY Zenon, <2>2 DEF AddUniqueConstraint
    <3>2. w = <<>>
      BY <2>1, <3>1 DEF Nothing, Effect
    <3> HIDE DEF w
    <3> QED BY <3>2, Deleting
  <2>3. CASE ~Has(S, ConstraintKey)
    <3>1. DOMAIN w = {k \in {IndexKey} \cup EntriesOf(S) : ~Has(S, IndexKey)}
                              \cup {ConstraintKey} \cup {UniqueKey(v) : v \in Held(S)}
      BY Zenon, <2>1, <2>3, ConstrainIs
    <3> HIDE DEF w
    <3>2. \A k \in DOMAIN w : Tag(k) \in {"p", "u", "X", "U"}
      BY <3>1, Tags DEF EntriesOf
    <3> QED BY Zenon, <3>2, Registering
  <2> QED BY Zenon, <2>2, <2>3
<1>7. CASE st = <<"dropIndex">> \/ st = <<"dropConstraint">>
  <2>1. \A k \in DOMAIN w : w[k] = Absent
    <3>1. CASE Run(S, st) = DropIndex(S)
      BY Zenon, <3>1, DropIndexIs
    <3>2. CASE Run(S, st) = DropUniqueConstraint(S)
      BY Zenon, <3>2, ReleaseIs
    <3> QED BY Zenon, <1>7, <3>1, <3>2, Runs
  <2> QED BY Zenon, <2>1, Deleting
<1> QED BY Zenon, <1>1, <1>2, <1>3, <1>4, <1>5, <1>6, <1>7, Kinds

\* No edge appears without "connect".
LEMMA EdgesAbsent ==
    ASSUME NEW S, Sound(S), NoEdges(S), NEW st \in Statements, Run(S, st).ok, st[1] # "connect"
    PROVE  NoEdges(Apply(S, Run(S, st).writes))
<1> DEFINE w == Run(S, st).writes
<1>1. \A k \in DOMAIN w : Tag(k) = "e" => w[k] = Absent
  BY Zenon, RunFootprint DEF Footprint
<1>2. Clean(S)
  BY ZenonT(30) DEF Sound
<1> HIDE DEF w
<1>3. \A e \in Nat : ~Has(Apply(S, w), EdgeKey(e))
  BY <1>1, <1>2, Applied, Tags DEF NoEdges
<1> QED BY Zenon, <1>3 DEF NoEdges, w

\* Only "create" and "set" give a value twice.
LEMMA DistinctKept ==
    ASSUME NEW S, Sound(S), Distinct(S), NEW st \in Statements, Run(S, st).ok, st[1] \notin {"create", "set"}
    PROVE  Distinct(Apply(S, Run(S, st).writes))
<1> DEFINE w == Run(S, st).writes
           T == Apply(S, w)
<1> SUFFICES Distinct(T)
  BY Zenon
<1>1. Clean(S) /\ NodeRecords(S)
  BY Zenon DEF Sound
<1>2. ASSUME \A n \in Nat : Has(T, NodeKey(n)) => Has(S, NodeKey(n)) /\ T[NodeKey(n)] = S[NodeKey(n)]
      PROVE  Distinct(T)
  <2> HIDE DEF T
  <2> QED BY Zenon, <1>2 DEF Distinct
<1>3. CASE st[1] # "merge"
  <2>1. \A k \in DOMAIN w : Tag(k) = "n" => w[k] = Absent
    BY ZenonT(30), <1>3, RunFootprint DEF Footprint
  <2> HIDE DEF w
  <2>2. \A n \in Nat : Has(T, NodeKey(n)) => Has(S, NodeKey(n)) /\ T[NodeKey(n)] = S[NodeKey(n)]
    BY <1>1, <2>1, Applied, Tags
  <2> QED BY Zenon, <1>2, <2>2
<1>4. CASE st[1] = "merge"
  <2>1. PICK v \in Value : st = <<"merge", v>>
    BY <1>4, Kinds
  <2>2. Run(S, st) = mergeNode(S, v)
    BY Zenon, <2>1, Runs
  <2>3. CASE Matches(S, v)
    <3>1. DOMAIN w = {}
      BY <2>2, <2>3, MergeIs
    <3> HIDE DEF w
    <3>2. \A n \in Nat : Has(T, NodeKey(n)) => Has(S, NodeKey(n)) /\ T[NodeKey(n)] = S[NodeKey(n)]
      BY <1>1, <3>1, Applied
    <3> QED BY Zenon, <1>2, <3>2
  <2>4. CASE ~Matches(S, v)
    <3> DEFINE c == CreateNode(S, v).writes
               n == NewNode(S)
    <3>1. CreateNode(S, v).ok /\ DOMAIN w = DOMAIN c /\ \A k \in DOMAIN w : w[k] = c[k]
      BY <2>2, <2>4, MergeIs
    <3>2. /\ n \in Nat /\ c[NodeKey(n)] = v
          /\ \A k \in DOMAIN c : k \in {Counter("n"), NodeKey(n), LabelKey(n)} \/ Tag(k) \in {"p", "u"}
      BY ZenonT(30), <3>1, CreateFootprint
    <3> HIDE DEF w, c, n
    <3>3. \A m \in Nat : m # n => NodeKey(m) \notin DOMAIN w
      BY <3>1, <3>2, Tags, KeysApart
    <3>4. \A m \in Nat : Has(S, NodeKey(m)) => S[NodeKey(m)] # v
      BY ZenonT(30), <2>4, Listed DEF Matches
    <3>5. /\ \A m \in Nat : m # n => (Has(T, NodeKey(m)) => Has(S, NodeKey(m)) /\ T[NodeKey(m)] = S[NodeKey(m)])
          /\ Has(T, NodeKey(n)) => T[NodeKey(n)] = v \/ (Has(S, NodeKey(n)) /\ T[NodeKey(n)] = S[NodeKey(n)])
      BY SMTT(30), <1>1, <3>1, <3>2, <3>3, Applied
    <3> HIDE DEF T
    <3> QED BY ZenonT(30), <3>2, <3>4, <3>5 DEF Distinct
  <2> QED BY Zenon, <2>3, <2>4
<1> QED BY Zenon, <1>3, <1>4

\* A statement that writes has read something.
Reading(E) == DOMAIN E.writes # {} => E.reads # {}

\* So has an effect composed of two such.
LEMMA ReadingThen ==
    ASSUME NEW a, NEW b, Reading(a), Reading(b)
    PROVE  Reading(Then(a, b))
BY ThenIs DEF Reading

\* An effect with reads is such.
LEMMA ReadingSome ==
    ASSUME NEW ok, NEW reads, NEW writes, reads # {}
    PROVE  Reading(Effect(ok, reads, writes))
BY EffectIs DEF Reading

\* An effect without writes is such.
LEMMA ReadingNothing ==
    /\ Reading(Failure)
    /\ \A reads : Reading(Nothing(reads))
BY DEF Reading, Failure, Nothing, Effect

\* So is one of two effects of which one reads.
LEMMA ReadingPart ==
    ASSUME NEW a, NEW b, a.reads # {} \/ b.reads # {}
    PROVE  Reading(Then(a, b)) /\ Then(a, b).reads # {}
BY ThenIs DEF Reading

\* CREATE reads before it writes.
LEMMA CreateReads == ASSUME NEW S, NEW v PROVE Reading(CreateNode(S, v))
<1> DEFINE id == nextCounter(S, "n")
           n == id.writes[Counter("n")]
           rec == Effect(TRUE, {}, Over(Pair(NodeKey(n), v), Pair(LabelKey(n), TRUE)))
           P == putPropEntry(S, v, n)
<1>1. CreateNode(S, v) = IF n > MaxNode THEN Failure ELSE Then(Then(id, rec), P)
  BY Zenon DEF CreateNode
<1>2. id.reads # {}
  BY Zenon DEF nextCounter, Effect
<1> HIDE DEF id, rec, P, n
<1>3. Reading(Then(Then(id, rec), P))
  BY Zenon, <1>2, ReadingPart
<1> QED BY Zenon, <1>1, <1>3, ReadingNothing

\* MERGE reads before it writes.
LEMMA MergeReads == ASSUME NEW S, NEW v PROVE Reading(mergeNode(S, v))
<1> DEFINE R == Nothing(ScanReads(S))
           C == CreateNode(S, v)
<1>1. mergeNode(S, v) \in {Failure, R, Then(R, C)}
  BY Zenon DEF mergeNode
<1>2. Reading(R) /\ Reading(C)
  BY Zenon, ReadingNothing, CreateReads
<1> HIDE DEF R, C
<1> QED BY Zenon, <1>1, <1>2, ReadingNothing, ReadingThen

\* SET reads before it writes.
LEMMA SetReads == ASSUME NEW S, NEW n, NEW v PROVE Reading(SetProperty(S, n, v))
<1> DEFINE D == delPropEntry(S, S[NodeKey(n)], n)
           P == putPropEntry(Apply(S, D.writes), v, n)
           R == Effect(TRUE, {NodeKey(n)}, Pair(NodeKey(n), v))
           N == Nothing({NodeKey(n)})
<1>1. SetProperty(S, n, v) \in {N, Then(Then(D, P), R)}
  BY Zenon DEF SetProperty
<1>2. Reading(N) /\ R.reads # {}
  BY Zenon, ReadingNothing DEF Effect
<1> HIDE DEF D, P, R, N
<1> QED BY Zenon, <1>1, <1>2, ReadingPart

\* DELETE of a node reads before it writes.
LEMMA DeleteReads == ASSUME NEW S, NEW n PROVE Reading(DeleteNode(S, n))
<1> DEFINE D == delPropEntry(S, S[NodeKey(n)], n)
           R == Effect(TRUE, {NodeKey(n)}, Deletion({NodeKey(n), LabelKey(n)}))
           N == Nothing({NodeKey(n)})
<1>1. DeleteNode(S, n) \in {N, Failure, Then(D, R)}
  BY Zenon DEF DeleteNode
<1>2. Reading(N) /\ R.reads # {}
  BY Zenon, ReadingNothing DEF Effect
<1> HIDE DEF D, R, N
<1> QED BY Zenon, <1>1, <1>2, ReadingPart, ReadingNothing

\* DETACH DELETE reads before it writes.
LEMMA DetachReads == ASSUME NEW S, NEW n PROVE Reading(DetachDeleteNode(S, n))
<1> DEFINE edges == EdgesOf(S, n)
           listed == {OutKey(n, e) : e \in EdgeId} \cup {InKey(n, e) : e \in EdgeId}
           reads == (listed \cap DOMAIN S) \cup {EdgeKey(e) : e \in edges}
           gone == UNION {KeysOf(S, e) : e \in {f \in edges : Has(S, EdgeKey(f))}}
           dels == Effect(\A e \in edges : Has(S, EdgeKey(e)), reads, Deletion(gone))
           D == DeleteNode(Apply(S, dels.writes), n)
           N == Nothing({NodeKey(n)})
<1>1. DetachDeleteNode(S, n) \in {N, Then(dels, D)}
  BY Zenon DEF DetachDeleteNode, EdgesOf, KeysOf
<1>2. dels.reads = reads /\ dels.writes = Deletion(gone)
  <2> HIDE DEF reads, gone, edges
  <2> QED BY Zenon DEF Effect
<1>3. gone # {} => edges # {}
  BY Zenon
<1>4. edges # {} => reads # {}
  BY Zenon
<1>5. Reading(dels)
  <2> HIDE DEF dels, reads, gone, edges
  <2> QED BY Zenon, <1>2, <1>3, <1>4, DeletionIs DEF Reading
<1>6. Reading(N) /\ Reading(D)
  BY Zenon, ReadingNothing, DeleteReads
<1> HIDE DEF dels, D, N
<1> QED BY Zenon, <1>1, <1>5, <1>6, ReadingThen

\* CREATE of an edge reads before it writes.
LEMMA ConnectReads == ASSUME NEW S, NEW src, NEW dst PROVE Reading(CreateEdge(S, src, dst))
<1> DEFINE id == nextCounter(S, "e")
           e == id.writes[Counter("e")]
           reads == {NodeKey(src), NodeKey(dst)}
           N == Nothing(reads)
           rec == Effect(TRUE, reads, Over(Pair(EdgeKey(e), <<src, dst>>), Over(Pair(OutKey(src, e), TRUE), Pair(InKey(dst, e), TRUE))))
<1>1. CreateEdge(S, src, dst) \in {N, Failure, Then(id, rec)}
  BY Zenon DEF CreateEdge
<1>2. Reading(N) /\ id.reads # {}
  BY Zenon, ReadingNothing DEF nextCounter, Effect
<1> HIDE DEF id, rec, N
<1> QED BY Zenon, <1>1, <1>2, ReadingPart, ReadingNothing

\* DELETE of an edge reads before it writes.
LEMMA DisconnectReads == ASSUME NEW S, NEW e PROVE Reading(DeleteEdge(S, e))
<1> DEFINE N == Nothing({EdgeKey(e)})
           R == Effect(TRUE, {EdgeKey(e)},
                       Deletion({EdgeKey(e), OutKey(S[EdgeKey(e)][1], e), InKey(S[EdgeKey(e)][2], e)}))
<1>1. DeleteEdge(S, e) \in {N, R}
  BY Zenon DEF DeleteEdge
<1>2. Reading(N) /\ Reading(R)
  BY Zenon, ReadingNothing DEF Reading, Effect
<1> HIDE DEF N, R
<1> QED BY Zenon, <1>1, <1>2

\* Schema statements read before they write.
LEMMA SchemaReads ==
    ASSUME NEW S
    PROVE  /\ Reading(CreateIndex(S)) /\ Reading(DropIndex(S))
           /\ Reading(AddUniqueConstraint(S)) /\ Reading(DropUniqueConstraint(S))
<1> DEFINE N == Nothing({IndexKey})
           M == Nothing({ConstraintKey})
           B == Then(N, BuildIndex(S))
           X == Effect(TRUE, {IndexKey, ConstraintKey}, Deletion({IndexKey}))
           P == Then(deletePrefix(S, "p"), X)
           C == Effect(TRUE, {ConstraintKey}, Deletion({ConstraintKey}))
           U == Then(deletePrefix(S, "u"), C)
           V == Then(U, Then(deletePrefix(S, "p"), Effect(TRUE, {}, Deletion({IndexKey}))))
<1>1. /\ N.reads # {} /\ M.reads # {} /\ X.reads # {} /\ C.reads # {}
      /\ Reading(N) /\ Reading(M)
  BY Zenon, ReadingNothing DEF Nothing, Effect
<1>2. /\ CreateIndex(S) \in {N, B} /\ DropIndex(S) \in {Failure, P}
      /\ DropUniqueConstraint(S) \in {Failure, U, V}
  BY Zenon DEF CreateIndex, DropIndex, DropUniqueConstraint
<1>3. Reading(B) /\ Reading(P) /\ Reading(U) /\ U.reads # {}
  <2> HIDE DEF N, M, X, C
  <2> QED BY Zenon, <1>1, ReadingPart
<1>4. Reading(V)
  <2> HIDE DEF U
  <2> QED BY Zenon, <1>3, ReadingPart
<1>5. Reading(AddUniqueConstraint(S))
  <2>1. CASE Has(S, ConstraintKey)
    <3>1. AddUniqueConstraint(S) = M
      BY Zenon, <2>1 DEF AddUniqueConstraint
    <3> HIDE DEF M
    <3> QED BY Zenon, <1>1, <3>1
  <2>2. CASE ~Has(S, ConstraintKey)
    <3> DEFINE built == IF Has(S, IndexKey) THEN N ELSE B
    <3>1. built.reads # {}
      <4>1. B.reads # {}
        <5> HIDE DEF N
        <5> QED BY Zenon, <1>1, ReadingPart
      <4> HIDE DEF N, B
      <4> QED BY Zenon, <1>1, <4>1
    <3>2. PICK own : AddUniqueConstraint(S) = Then(built, own)
      BY <2>2, Zenon DEF AddUniqueConstraint
    <3> HIDE DEF built
    <3> QED BY Zenon, <3>1, <3>2, ReadingPart
  <2> QED BY Zenon, <2>1, <2>2
<1> HIDE DEF N, B, P, U, V
<1> QED BY Zenon, <1>1, <1>2, <1>3, <1>4, <1>5, ReadingNothing

\* Every statement that writes has read.
LEMMA RunReads ==
    ASSUME NEW S, NEW st \in Statements
    PROVE  Reading(Run(S, st))
<1>1. ASSUME NEW v \in Value, st = <<"create", v>> \/ st = <<"merge", v>> PROVE Reading(Run(S, st))
  <2>1. Run(S, st) \in {CreateNode(S, v), mergeNode(S, v)}
    BY Zenon, <1>1, Runs
  <2> QED BY Zenon, <2>1, CreateReads, MergeReads
<1>2. ASSUME NEW n \in Nat, NEW v \in Value, st = <<"set", n, v>> PROVE Reading(Run(S, st))
  <2>1. Run(S, st) = SetProperty(S, n, v)
    BY Zenon, <1>2, Runs
  <2> QED BY Zenon, <2>1, SetReads
<1>3. ASSUME NEW n \in Nat, st = <<"delete", n>> \/ st = <<"detach", n>> \/ st = <<"disconnect", n>>
      PROVE  Reading(Run(S, st))
  <2>1. Run(S, st) \in {DeleteNode(S, n), DetachDeleteNode(S, n), DeleteEdge(S, n)}
    BY Zenon, <1>3, Runs
  <2> QED BY Zenon, <2>1, DeleteReads, DetachReads, DisconnectReads
<1>4. ASSUME NEW n \in Nat, NEW m \in Nat, st = <<"connect", n, m>> PROVE Reading(Run(S, st))
  <2>1. Run(S, st) = CreateEdge(S, n, m)
    BY Zenon, <1>4, Runs
  <2> QED BY Zenon, <2>1, ConnectReads
<1>5. CASE st \in {<<"createIndex">>, <<"dropIndex">>, <<"createConstraint">>, <<"dropConstraint">>}
  BY Zenon, <1>5, Runs, SchemaReads
<1> QED BY Zenon, <1>1, <1>2, <1>3, <1>4, <1>5, Kinds

----------------------------------------------------------------------------
(* A statement does the same on two stores that agree on what it reads.    *)

Agree(S, T, keys) == \A k \in keys : Same(S, T, k)

\* Stores that agree on a key give the same for it.
LEMMA SameGet ==
    ASSUME NEW S, NEW T, NEW k, Same(S, T, k)
    PROVE  (Has(S, k) <=> Has(T, k)) /\ Get(S, k) = Get(T, k) /\ (Has(S, k) => S[k] = T[k])
BY Zenon DEF Same, Get

\* A claim depends on the owner key alone.
LEMMA SameClaim ==
    ASSUME NEW S, NEW T, NEW v, NEW n, Same(S, T, UniqueKey(v))
    PROVE  claimValue(T, v, n) = claimValue(S, v, n)
<1>1. Get(S, UniqueKey(v)) = Get(T, UniqueKey(v))
  BY Zenon, SameGet
<1> QED BY Zenon, <1>1 DEF claimValue

\* putPropEntry depends on what it reads.
LEMMA SamePut ==
    ASSUME NEW S, Clean(S), NEW T, NEW v, NEW n \in Nat, Agree(S, T, putPropEntry(S, v, n).reads)
    PROVE  putPropEntry(T, v, n) = putPropEntry(S, v, n)
<1>1. putPropEntry(S, v, n).reads =
          {IndexKey} \cup {k \in {ConstraintKey} : Indexed(S)} \cup {k \in {UniqueKey(v)} : Constrained(S)}
  BY Zenon, PutIs
<1>2. /\ Same(S, T, IndexKey)
      /\ Indexed(S) => Same(S, T, ConstraintKey)
      /\ Constrained(S) => Same(S, T, UniqueKey(v))
  BY Zenon, <1>1 DEF Agree
<1>3. /\ Has(S, IndexKey) <=> Has(T, IndexKey)
      /\ Has(S, IndexKey) => (Has(S, ConstraintKey) <=> Has(T, ConstraintKey))
      /\ Has(S, IndexKey) /\ Has(S, ConstraintKey) => claimValue(T, v, n) = claimValue(S, v, n)
  BY <1>2, SameClaim DEF Same, Indexed, Constrained
<1> QED BY Zenon, <1>3 DEF putPropEntry

\* delPropEntry depends on what it reads.
LEMMA SameDel ==
    ASSUME NEW S, Clean(S), NEW T, NEW v, NEW n \in Nat, Agree(S, T, delPropEntry(S, v, n).reads)
    PROVE  delPropEntry(T, v, n) = delPropEntry(S, v, n)
<1>1. delPropEntry(S, v, n).reads =
          {IndexKey} \cup {k \in {ConstraintKey} : Indexed(S)} \cup {k \in {UniqueKey(v)} : Constrained(S)}
  BY DelIs
<1>2. /\ Same(S, T, IndexKey)
      /\ Indexed(S) => Same(S, T, ConstraintKey)
      /\ Constrained(S) => Same(S, T, UniqueKey(v))
  BY Zenon, <1>1 DEF Agree
<1>3. CASE ~Has(S, IndexKey)
  <2>1. ~Has(T, IndexKey)
    BY Zenon, <1>2, <1>3 DEF Same
  <2> QED BY Zenon, <1>3, <2>1 DEF delPropEntry
<1>4. CASE Has(S, IndexKey) /\ ~Has(S, ConstraintKey)
  <2>1. Has(T, IndexKey) /\ ~Has(T, ConstraintKey)
    BY Zenon, <1>2, <1>4 DEF Same, Indexed
  <2> QED BY Zenon, <1>4, <2>1 DEF delPropEntry
<1>5. CASE Has(S, IndexKey) /\ Has(S, ConstraintKey)
  <2>1. Has(T, IndexKey) /\ Has(T, ConstraintKey) /\ Get(S, UniqueKey(v)) = Get(T, UniqueKey(v))
    BY Zenon, <1>2, <1>5, SameGet DEF Same, Indexed, Constrained
  <2> QED BY Zenon, <1>5, <2>1 DEF delPropEntry
<1> QED BY Zenon, <1>3, <1>4, <1>5

\* A new identifier depends on the counter.
LEMMA SameNext ==
    ASSUME NEW S, NEW T, NEW kind, Same(S, T, Counter(kind))
    PROVE  nextCounter(T, kind) = nextCounter(S, kind) /\ Count(T, kind) = Count(S, kind)
<1>1. (Has(S, Counter(kind)) <=> Has(T, Counter(kind))) /\ (Has(S, Counter(kind)) => S[Counter(kind)] = T[Counter(kind)])
  BY Zenon, SameGet
<1>2. Count(T, kind) = Count(S, kind)
  BY Zenon, <1>1 DEF Count
<1>3. (IF Has(S, Counter(kind)) THEN S[Counter(kind)] + 1 ELSE 1) = (IF Has(T, Counter(kind)) THEN T[Counter(kind)] + 1 ELSE 1)
  BY Zenon, <1>1
<1> QED BY Zenon, <1>2, <1>3 DEF nextCounter

\* CREATE does the same on a store that agrees on what it reads.
LEMMA SameCreate ==
    ASSUME NEW S, Sound(S), NEW T, NEW v \in Value, CreateNode(S, v).ok, Agree(S, T, CreateNode(S, v).reads)
    PROVE  CreateNode(T, v) = CreateNode(S, v)
<1> DEFINE n == NewNode(S)
           P == putPropEntry(S, v, n)
<1>1. n \in Nat /\ CreateNode(S, v).reads = {Counter("n")} \cup P.reads
  BY CreateIs
<1>2. Same(S, T, Counter("n")) /\ Agree(S, T, P.reads)
  BY Zenon, <1>1 DEF Agree
<1>3. Clean(S) /\ Count(S, "n") \in Nat
  BY Zenon DEF Sound, Counters
<1>4. nextCounter(T, "n") = nextCounter(S, "n")
  BY Zenon, <1>2, SameNext
<1>5. nextCounter(S, "n").writes[Counter("n")] = n
  BY ZenonT(30), <1>3, NextIs DEF NewNode
<1>6. putPropEntry(T, v, n) = P
  BY <1>1, <1>2, <1>3, SamePut
<1> HIDE DEF n
<1> QED BY ZenonT(30), <1>4, <1>5, <1>6 DEF CreateNode

\* MERGE does the same on a store that agrees on what it reads and has the same nodes.
LEMMA SameMerge ==
    ASSUME NEW S, Sound(S), NEW T, NEW v \in Value, mergeNode(S, v).ok, DOMAIN mergeNode(S, v).writes # {},
           Agree(S, T, mergeNode(S, v).reads), NodesByLabel(T) = NodesByLabel(S)
    PROVE  mergeNode(T, v) = mergeNode(S, v)
<1>1. Readable(S) /\ ~Matches(S, v)
  BY Zenon, MergeIs
<1>2. CreateNode(S, v).ok /\ mergeNode(S, v).reads = ScanReads(S) \cup CreateNode(S, v).reads
  BY Zenon, <1>1, MergeIs
<1>3. Agree(S, T, ScanReads(S)) /\ Agree(S, T, CreateNode(S, v).reads)
  BY Zenon, <1>2 DEF Agree
<1>4. CreateNode(T, v) = CreateNode(S, v)
  BY Zenon, <1>2, <1>3, SameCreate
<1>5. \A n \in NodesByLabel(S) : Same(S, T, NodeKey(n))
  BY Zenon, <1>3 DEF Agree, ScanReads
<1>6. Readable(T) /\ ~Matches(T, v)
  BY Zenon, <1>1, <1>5 DEF Readable, Matches, Same
<1>7. ScanReads(T) = ScanReads(S)
  BY Zenon DEF ScanReads
<1> QED BY Zenon, <1>1, <1>4, <1>6, <1>7 DEF mergeNode, Matches

\* The same writes keep the agreement of two stores.
LEMMA SameApplied ==
    ASSUME NEW S, Clean(S), NEW T, Clean(T), NEW w, NEW k, Same(S, T, k)
    PROVE  Same(Apply(S, w), Apply(T, w), k)
<1>1. (Has(S, k) <=> Has(T, k)) /\ (Has(S, k) => S[k] = T[k])
  BY Zenon, SameGet
<1>2. Has(Apply(S, w), k) <=> IF k \in DOMAIN w THEN w[k] # Absent ELSE Has(S, k)
  BY Zenon, Applied
<1>3. Has(Apply(T, w), k) <=> IF k \in DOMAIN w THEN w[k] # Absent ELSE Has(T, k)
  BY Zenon, Applied
<1>4. Has(Apply(S, w), k) => Apply(S, w)[k] = IF k \in DOMAIN w THEN w[k] ELSE S[k]
  BY Zenon, Applied
<1>5. Has(Apply(T, w), k) => Apply(T, w)[k] = IF k \in DOMAIN w THEN w[k] ELSE T[k]
  BY Zenon, Applied
<1> QED BY Zenon, <1>1, <1>2, <1>3, <1>4, <1>5 DEF Same

\* SET does the same on a store that agrees on what it reads.
LEMMA SameSet ==
    ASSUME NEW S, Sound(S), NEW T, Clean(T), NEW n \in Nat, NEW v \in Value, Agree(S, T, SetProperty(S, n, v).reads)
    PROVE  SetProperty(T, n, v) = SetProperty(S, n, v)
<1>1. CASE ~Has(S, NodeKey(n))
  <2>1. SetProperty(S, n, v) = Nothing({NodeKey(n)})
    BY Zenon, <1>1 DEF SetProperty
  <2>2. SetProperty(S, n, v).reads = {NodeKey(n)}
    BY <2>1 DEF Nothing, Effect
  <2>3. ~Has(T, NodeKey(n))
    BY Zenon, <1>1, <2>2 DEF Agree, Same
  <2> QED BY Zenon, <1>1, <2>3 DEF SetProperty
<1>2. CASE Has(S, NodeKey(n))
  <2> DEFINE old == S[NodeKey(n)]
             D == delPropEntry(S, old, n)
             P == putPropEntry(Apply(S, D.writes), v, n)
  <2>1. Clean(Apply(S, D.writes)) /\ SetProperty(S, n, v).reads = D.reads \cup P.reads \cup {NodeKey(n)}
    BY <1>2, SetIs
  <2>2. Agree(S, T, D.reads) /\ Agree(S, T, P.reads) /\ Same(S, T, NodeKey(n))
    BY Zenon, <2>1 DEF Agree
  <2>3. Clean(S)
    BY Zenon DEF Sound
  <2>4. Has(T, NodeKey(n)) /\ T[NodeKey(n)] = old
    BY Zenon, <1>2, <2>2 DEF Same
  <2>5. delPropEntry(T, old, n) = D
    BY <2>2, <2>3, SameDel
  <2> HIDE DEF D
  <2>6. Agree(Apply(S, D.writes), Apply(T, D.writes), P.reads)
    BY Zenon, <2>2, <2>3, SameApplied DEF Agree
  <2>7. putPropEntry(Apply(T, D.writes), v, n) = P
    BY <2>1, <2>6, SamePut
  <2> HIDE DEF P
  <2>8. SetProperty(S, n, v) = Then(Then(D, P), Effect(TRUE, {NodeKey(n)}, Pair(NodeKey(n), v)))
    BY Zenon, <1>2 DEF SetProperty, D, P
  <2>9. SetProperty(T, n, v) = Then(Then(D, P), Effect(TRUE, {NodeKey(n)}, Pair(NodeKey(n), v)))
    BY Zenon, <2>4, <2>5, <2>7 DEF SetProperty
  <2> QED BY ZenonT(30), <2>8, <2>9
<1> QED BY Zenon, <1>1, <1>2

\* Without edges no node has any.
LEMMA Unattached ==
    ASSUME NEW S, Sound(S), NoEdges(S), NEW n \in Nat
    PROVE  ~hasIncidentEdges(S, n) /\ EdgesOf(S, n) = {}
<1>1. EdgeRecords(S) /\ EdgeId \subseteq Nat
  BY DEF Sound, EdgeId
<1>2. \A e \in EdgeId : ~Has(S, OutKey(n, e)) /\ ~Has(S, InKey(n, e))
  BY Zenon, <1>1 DEF EdgeRecords, NoEdges
<1> QED BY Zenon, <1>2 DEF hasIncidentEdges, EdgesOf

\* DELETE of a node does the same on a store that agrees on what it reads, without edges.
LEMMA SameDelete ==
    ASSUME NEW S, Sound(S), NoEdges(S), NEW T, Sound(T), NoEdges(T), NEW n \in Nat,
           Agree(S, T, DeleteNode(S, n).reads)
    PROVE  DeleteNode(T, n) = DeleteNode(S, n)
<1>1. CASE ~Has(S, NodeKey(n))
  <2>1. DeleteNode(S, n) = Nothing({NodeKey(n)})
    BY Zenon, <1>1 DEF DeleteNode
  <2>2. DeleteNode(S, n).reads = {NodeKey(n)}
    BY <2>1 DEF Nothing, Effect
  <2>3. ~Has(T, NodeKey(n))
    BY Zenon, <1>1, <2>2 DEF Agree, Same
  <2> QED BY Zenon, <1>1, <2>3 DEF DeleteNode
<1>2. CASE Has(S, NodeKey(n))
  <2> DEFINE old == S[NodeKey(n)]
             D == delPropEntry(S, old, n)
  <2>1. ~hasIncidentEdges(S, n) /\ ~hasIncidentEdges(T, n) /\ Clean(S)
    BY Zenon, Unattached DEF Sound
  <2>2. DeleteNode(S, n).reads = D.reads \cup {NodeKey(n)}
    BY Zenon, <1>2, <2>1, DeleteIs
  <2>3. Agree(S, T, D.reads) /\ Same(S, T, NodeKey(n))
    BY Zenon, <2>2 DEF Agree
  <2>4. Has(T, NodeKey(n)) /\ T[NodeKey(n)] = old
    BY Zenon, <1>2, <2>3 DEF Same
  <2>5. delPropEntry(T, old, n) = D
    BY <2>1, <2>3, SameDel
  <2> QED BY Zenon, <1>2, <2>1, <2>4, <2>5 DEF DeleteNode
<1> QED BY Zenon, <1>1, <1>2

\* With no edge about, DETACH DELETE is DELETE.
LEMMA DetachPlain ==
    ASSUME NEW S, Sound(S), NoEdges(S), NEW n \in Nat
    PROVE  /\ DetachDeleteNode(S, n).reads = DeleteNode(S, n).reads
           /\ DetachDeleteNode(S, n) = IF Has(S, NodeKey(n)) THEN Then(Nothing({}), DeleteNode(S, n))
                                       ELSE Nothing({NodeKey(n)})
<1> DEFINE edges == EdgesOf(S, n)
           listed == {OutKey(n, e) : e \in EdgeId} \cup {InKey(n, e) : e \in EdgeId}
           gone == UNION {KeysOf(S, e) : e \in {f \in edges : Has(S, EdgeKey(f))}}
           ok == \A e \in edges : Has(S, EdgeKey(e))
           reads == (listed \cap DOMAIN S) \cup {EdgeKey(e) : e \in edges}
           dels == Effect(ok, reads, Deletion(gone))
           D == DeleteNode(Apply(S, dels.writes), n)
<1>1. CASE ~Has(S, NodeKey(n))
  <2>1. DetachDeleteNode(S, n) = Nothing({NodeKey(n)}) /\ DeleteNode(S, n) = Nothing({NodeKey(n)})
    BY Zenon, <1>1 DEF DetachDeleteNode, DeleteNode
  <2> QED BY Zenon, <1>1, <2>1
<1>2. CASE Has(S, NodeKey(n))
  <2>1. DetachDeleteNode(S, n) = Then(dels, D)
    BY <1>2, Zenon DEF DetachDeleteNode, EdgesOf, KeysOf
  <2>2. edges = {}
    BY Zenon, Unattached
  <2>3. gone = {} /\ (ok <=> TRUE)
    BY Zenon, <2>2
  <2>4. listed \cap DOMAIN S = {}
    <3>1. EdgeRecords(S) /\ EdgeId \subseteq Nat
      BY DEF Sound, EdgeId
    <3>2. \A e \in EdgeId : ~Has(S, OutKey(n, e)) /\ ~Has(S, InKey(n, e))
      BY Zenon, <3>1 DEF EdgeRecords, NoEdges
    <3> QED BY Zenon, <3>2 DEF Has
  <2>5. reads = {}
    BY Zenon, <2>2, <2>4
  <2>6. Deletion(gone) = <<>>
    BY <2>3 DEF Deletion
  <2>7. dels = Effect(TRUE, {}, <<>>)
    <3> HIDE DEF ok, reads, gone
    <3>1. ok = TRUE
      BY Zenon, <2>3
    <3> QED BY Zenon, <2>5, <2>6, <3>1
  <2> HIDE DEF dels
  <2>8. dels = Nothing({}) /\ dels.writes = <<>> /\ dels.reads = {}
    BY Zenon, <2>7 DEF Nothing, Effect
  <2>9. DeleteNode(Apply(S, <<>>), n) = DeleteNode(S, n)
    <3>1. Clean(S) /\ DOMAIN <<>> = {}
      BY DEF Sound
    <3>2. \A k : Same(S, Apply(S, <<>>), k)
      BY Zenon, <3>1, AppliedAt
    <3>3. Sound(Apply(S, <<>>)) /\ NoEdges(Apply(S, <<>>))
      BY Zenon, <3>1, <3>2, NothingWritten DEF NoEdges, Same
    <3>4. Agree(S, Apply(S, <<>>), DeleteNode(S, n).reads)
      BY Zenon, <3>2 DEF Agree
    <3> QED BY Zenon, <3>3, <3>4, SameDelete
  <2>10. D = DeleteNode(S, n)
    BY Zenon, <2>8, <2>9
  <2> HIDE DEF D
  <2>11. DetachDeleteNode(S, n) = Then(Nothing({}), DeleteNode(S, n))
    BY Zenon, <2>1, <2>8, <2>10
  <2>12. DetachDeleteNode(S, n).reads = DeleteNode(S, n).reads
    <3>1. Then(dels, D).reads = dels.reads \cup D.reads
      BY ThenIs
    <3> QED BY Zenon, <2>1, <2>8, <2>10, <3>1
  <2> QED BY Zenon, <1>2, <2>11, <2>12
<1> QED BY Zenon, <1>1, <1>2

\* So does DETACH DELETE.
LEMMA SameDetach ==
    ASSUME NEW S, Sound(S), NoEdges(S), NEW T, Sound(T), NoEdges(T), NEW n \in Nat,
           Agree(S, T, DetachDeleteNode(S, n).reads)
    PROVE  DetachDeleteNode(T, n) = DetachDeleteNode(S, n)
<1>1. Agree(S, T, DeleteNode(S, n).reads)
  BY Zenon, DetachPlain
<1>2. DeleteNode(T, n) = DeleteNode(S, n)
  BY Zenon, <1>1, SameDelete
<1>3. NodeKey(n) \in DeleteNode(S, n).reads
  <2>1. CASE ~Has(S, NodeKey(n))
    BY Zenon, <2>1 DEF DeleteNode, Nothing, Effect
  <2>2. CASE Has(S, NodeKey(n))
    BY Zenon, <2>2, Unattached, DeleteIs
  <2> QED BY Zenon, <2>1, <2>2
<1>4. Has(S, NodeKey(n)) <=> Has(T, NodeKey(n))
  BY Zenon, <1>1, <1>3 DEF Agree, Same
<1>5. DetachDeleteNode(S, n) = IF Has(S, NodeKey(n)) THEN Then(Nothing({}), DeleteNode(S, n)) ELSE Nothing({NodeKey(n)})
  BY Zenon, DetachPlain
<1>6. DetachDeleteNode(T, n) = IF Has(T, NodeKey(n)) THEN Then(Nothing({}), DeleteNode(T, n)) ELSE Nothing({NodeKey(n)})
  BY Zenon, DetachPlain
<1>7. CASE Has(S, NodeKey(n))
  BY Zenon, <1>2, <1>4, <1>5, <1>6, <1>7
<1>8. CASE ~Has(S, NodeKey(n))
  BY Zenon, <1>4, <1>5, <1>6, <1>8
<1> QED BY Zenon, <1>7, <1>8

\* CREATE of an edge does the same on a store that agrees on what it reads.
LEMMA SameConnect ==
    ASSUME NEW S, Sound(S), NEW T, NEW src \in Nat, NEW dst \in Nat, CreateEdge(S, src, dst).ok,
           Agree(S, T, CreateEdge(S, src, dst).reads)
    PROVE  CreateEdge(T, src, dst) = CreateEdge(S, src, dst)
<1>1. CASE ~({NodeKey(src), NodeKey(dst)} \subseteq DOMAIN S)
  <2>1. CreateEdge(S, src, dst) = Nothing({NodeKey(src), NodeKey(dst)})
    BY Zenon, <1>1 DEF CreateEdge
  <2>2. CreateEdge(S, src, dst).reads = {NodeKey(src), NodeKey(dst)}
    BY <2>1 DEF Nothing, Effect
  <2>3. ~({NodeKey(src), NodeKey(dst)} \subseteq DOMAIN T)
    BY Zenon, <1>1, <2>2 DEF Agree, Same, Has
  <2> QED BY Zenon, <2>1, <2>3 DEF CreateEdge
<1>2. CASE {NodeKey(src), NodeKey(dst)} \subseteq DOMAIN S
  <2>1. CreateEdge(S, src, dst).reads = {Counter("e"), NodeKey(src), NodeKey(dst)}
    BY <1>2, ConnectIs
  <2>2. Same(S, T, Counter("e")) /\ {NodeKey(src), NodeKey(dst)} \subseteq DOMAIN T
    BY Zenon, <1>2, <2>1 DEF Agree, Same, Has
  <2>3. nextCounter(T, "e") = nextCounter(S, "e")
    BY Zenon, <2>2, SameNext
  <2> QED BY ZenonT(30), <1>2, <2>2, <2>3 DEF CreateEdge
<1> QED BY Zenon, <1>1, <1>2

\* So does DELETE of an edge.
LEMMA SameDisconnect ==
    ASSUME NEW S, NEW T, NEW e \in Nat, Agree(S, T, DeleteEdge(S, e).reads)
    PROVE  DeleteEdge(T, e) = DeleteEdge(S, e)
<1>1. DeleteEdge(S, e).reads = {EdgeKey(e)}
  BY Zenon DEF DeleteEdge, Nothing, Effect
<1>2. Same(S, T, EdgeKey(e))
  BY Zenon, <1>1 DEF Agree
<1>3. (Has(S, EdgeKey(e)) <=> Has(T, EdgeKey(e))) /\ (Has(S, EdgeKey(e)) => S[EdgeKey(e)] = T[EdgeKey(e)])
  BY Zenon, <1>2, SameGet
<1>4. CASE ~Has(S, EdgeKey(e))
  BY Zenon, <1>3, <1>4 DEF DeleteEdge
<1>5. CASE Has(S, EdgeKey(e))
  BY Zenon, <1>3, <1>5 DEF DeleteEdge
<1> QED BY Zenon, <1>4, <1>5

\* On Badger a committed statement leaves the effect of another one alone,
\* unless it wrote a key that one read.
LEMMA Undisturbed ==
    ASSUME NEW S, Sound(S), NEW st \in Statements, NEW other \in Statements,
           st[1] \in {"create", "merge", "set", "delete", "detach", "connect", "disconnect"},
           st[1] \in {"delete", "detach"} => NoEdges(S) /\ other[1] # "connect",
           Run(S, st).ok, DOMAIN Run(S, st).writes # {}, Run(S, other).ok,
           Run(S, st).reads \cap DOMAIN Run(S, other).writes = {}
    PROVE  Run(Apply(S, Run(S, other).writes), st) = Run(S, st)
<1> DEFINE w == Run(S, other).writes
           T == Apply(S, w)
           E == Run(S, st)
<1> SUFFICES Run(T, st) = E
  BY Zenon
<1>1. Clean(S) /\ Sound(T) /\ Clean(T)
  BY Zenon, RunKeeps DEF Sound
<1>2. Footprint(w, other[1])
  BY Zenon, RunFootprint
<1>3. st[1] \in {"delete", "detach"} => NoEdges(S) /\ NoEdges(T)
  BY Zenon, EdgesAbsent
<1>4. E.reads \cap DOMAIN w = {}
  BY Zenon
<1> HIDE DEF w, E
<1>5. Agree(S, T, E.reads)
  BY Zenon, <1>1, <1>4, AppliedAt DEF Agree
<1> HIDE DEF T
<1>6. ASSUME NEW v \in Value, st = <<"create", v>> PROVE Run(T, st) = E
  <2>1. E = CreateNode(S, v) /\ Run(T, st) = CreateNode(T, v)
    BY Zenon, <1>6, Runs DEF E
  <2> QED BY Zenon, <1>5, <2>1, SameCreate DEF E
<1>7. ASSUME NEW v \in Value, st = <<"merge", v>> PROVE Run(T, st) = E
  <2>1. E = mergeNode(S, v) /\ Run(T, st) = mergeNode(T, v)
    BY Zenon, <1>7, Runs DEF E
  <2>2. mergeNode(S, v).ok /\ DOMAIN mergeNode(S, v).writes # {}
    BY Zenon, <2>1 DEF E
  <2>3. CreateNode(S, v).ok /\ E.reads = ScanReads(S) \cup CreateNode(S, v).reads
    BY ZenonT(30), <2>1, <2>2, MergeIs
  <2>4. Counter("n") \in CreateNode(S, v).reads
    BY <2>3, CreateIs
  <2>5. Counter("n") \notin DOMAIN w
    BY Zenon, <1>4, <2>3, <2>4
  <2>6. \A k \in DOMAIN w : Tag(k) = "l" => w[k] = Absent
    BY Zenon, <1>2, <2>5 DEF Footprint
  <2>7. NodesByLabel(T) = NodesByLabel(S)
    <3>1. ASSUME NEW n \in NodeId PROVE Has(T, LabelKey(n)) <=> Has(S, LabelKey(n))
      <4>1. CASE Has(S, LabelKey(n))
        <5>1. LabelKey(n) \in E.reads
          BY Zenon, <2>3, <4>1 DEF ScanReads, NodesByLabel
        <5> QED BY Zenon, <1>5, <4>1, <5>1 DEF Agree, Same
      <4>2. CASE ~Has(S, LabelKey(n))
        <5>1. Tag(LabelKey(n)) = "l"
          BY Zenon, Tags
        <5>2. LabelKey(n) \in DOMAIN w => w[LabelKey(n)] = Absent
          BY ZenonT(30), <2>6, <5>1
        <5> QED BY Zenon, <1>1, <4>2, <5>2, Applied DEF T
      <4> QED BY Zenon, <4>1, <4>2
    <3> QED BY Zenon, <3>1 DEF NodesByLabel
  <2> QED BY Zenon, <1>5, <2>1, <2>2, <2>7, SameMerge
<1>8. ASSUME NEW n \in Nat, NEW v \in Value, st = <<"set", n, v>> PROVE Run(T, st) = E
  <2>1. E = SetProperty(S, n, v) /\ Run(T, st) = SetProperty(T, n, v)
    BY <1>8, Runs DEF E
  <2> QED BY SMTT(30), <1>1, <1>5, <2>1, SameSet
<1>9. ASSUME NEW n \in Nat, st = <<"delete", n>> PROVE Run(T, st) = E
  <2>1. E = DeleteNode(S, n) /\ Run(T, st) = DeleteNode(T, n) /\ st[1] = "delete"
    BY Zenon, <1>9, Runs DEF E
  <2> QED BY Zenon, <1>1, <1>3, <1>5, <2>1, SameDelete
<1>10. ASSUME NEW n \in Nat, st = <<"detach", n>> PROVE Run(T, st) = E
  <2>1. E = DetachDeleteNode(S, n) /\ Run(T, st) = DetachDeleteNode(T, n) /\ st[1] = "detach"
    BY ZenonT(30), <1>10, Runs DEF E
  <2> QED BY Zenon, <1>1, <1>3, <1>5, <2>1, SameDetach
<1>11. ASSUME NEW n \in Nat, NEW m \in Nat, st = <<"connect", n, m>> PROVE Run(T, st) = E
  <2>1. E = CreateEdge(S, n, m) /\ Run(T, st) = CreateEdge(T, n, m)
    BY <1>11, Runs DEF E
  <2>2. CreateEdge(S, n, m).ok
    BY Zenon, <2>1 DEF E
  <2> QED BY SMTT(30), <1>5, <2>1, <2>2, SameConnect
<1>12. ASSUME NEW e \in Nat, st = <<"disconnect", e>> PROVE Run(T, st) = E
  <2>1. E = DeleteEdge(S, e) /\ Run(T, st) = DeleteEdge(T, e)
    BY Zenon, <1>12, Runs DEF E
  <2> QED BY Zenon, <1>5, <2>1, SameDisconnect
<1>13. st \notin {<<"createIndex">>, <<"dropIndex">>, <<"createConstraint">>, <<"dropConstraint">>}
  OBVIOUS
<1> QED BY Zenon, <1>6, <1>7, <1>8, <1>9, <1>10, <1>11, <1>12, <1>13, Kinds

----------------------------------------------------------------------------
(* The inductive invariant.                                                *)

Sleeping(st, t) == [pc |-> "sleep", st |-> st, tries |-> t]
Running(st, t, E, d) == [pc |-> "run", st |-> st, tries |-> t, effect |-> E, dirty |-> d]

Shape(x) ==
    \/ x = Idle
    \/ \E st \in Statement, t \in 1..maxRetries : x = Sleeping(st, t)
    \/ \E st \in Statement, t \in 0..maxRetries : \E E, d : x = Running(st, t, E, d) /\ Reading(E)

Shapes == DOMAIN txn = Client /\ \A c \in Client : Shape(txn[c])

IsolationInv == setting \in Settings /\ Shapes /\ OneWriter /\ Current /\ StoreInv

\* The parts of a client's state.
LEMMA FieldsOf ==
    /\ Idle.pc = "idle"
    /\ \A st, t : Sleeping(st, t).pc = "sleep" /\ Sleeping(st, t).st = st /\ Sleeping(st, t).tries = t
    /\ \A st, t, E, d : /\ Running(st, t, E, d).pc = "run" /\ Running(st, t, E, d).st = st
                        /\ Running(st, t, E, d).tries = t /\ Running(st, t, E, d).effect = E
                        /\ Running(st, t, E, d).dirty = d
<1>1. Idle.pc = "idle"
  BY Zenon DEF Idle
<1>2. \A st, t : Sleeping(st, t).pc = "sleep" /\ Sleeping(st, t).st = st /\ Sleeping(st, t).tries = t
  BY Zenon DEF Sleeping
<1>3. \A st, t, E, d : /\ Running(st, t, E, d).pc = "run" /\ Running(st, t, E, d).st = st
                      /\ Running(st, t, E, d).tries = t /\ Running(st, t, E, d).effect = E
                      /\ Running(st, t, E, d).dirty = d
  BY DEF Running
<1> QED BY <1>1, <1>2, <1>3

\* A commit of another client adds to what has been written since.
LEMMA MoreDirty ==
    ASSUME NEW st, NEW t, NEW E, NEW d, NEW more
    PROVE  [Running(st, t, E, d) EXCEPT !.dirty = @ \cup more] = Running(st, t, E, d \cup more)
BY DEF Running

\* The statements, the engine and the schema are those of the setting.
LEMMA Permitted ==
    ASSUME IsolationInv
    PROVE  Statement \subseteq Statements /\ Engine \in {"badger", "bolt"} /\ Schema \in {"none", "index", "unique"}
BY Zenon, IsolationAssumption DEF IsolationInv, Statement, Engine, Schema

\* The store a database starts with.
LEMMA InitSound ==
    ASSUME setting \in Settings
    PROVE  Sound(InitStore) /\ NoEdges(InitStore) /\ Distinct(InitStore)
<1> DEFINE S == InitStore
           a == IF Schema = "none" THEN <<>> ELSE Pair(IndexKey, TRUE)
           b == IF Schema = "unique" THEN Pair(ConstraintKey, FALSE) ELSE <<>>
<1> SUFFICES Sound(S) /\ NoEdges(S) /\ Distinct(S)
  BY Zenon
<1>1. Schema \in {"none", "index", "unique"}
  BY Zenon, IsolationAssumption DEF Schema
<1>2. /\ DOMAIN a = {k \in {IndexKey} : Schema # "none"} /\ \A k \in DOMAIN a : a[k] \in BOOLEAN
      /\ DOMAIN b = {k \in {ConstraintKey} : Schema = "unique"} /\ \A k \in DOMAIN b : b[k] \in BOOLEAN
  <2>1. DOMAIN a = {k \in {IndexKey} : Schema # "none"}
    <3>1. DOMAIN Pair(IndexKey, TRUE) = {IndexKey}
      BY Zenon DEF Pair
    <3>2. CASE Schema = "none"
      <4>1. a = <<>>
        BY Zenon, <3>2
      <4> HIDE DEF a
      <4> QED BY <3>2, <4>1
    <3>3. CASE Schema # "none"
      <4>1. a = Pair(IndexKey, TRUE)
        BY Zenon, <3>3
      <4>2. DOMAIN a = {IndexKey}
        BY Zenon, <3>1, <4>1
      <4> HIDE DEF a
      <4> QED BY Zenon, <3>3, <4>2
    <3> QED BY Zenon, <3>2, <3>3
  <2>2. DOMAIN b = {k \in {ConstraintKey} : Schema = "unique"}
    <3>1. DOMAIN Pair(ConstraintKey, FALSE) = {ConstraintKey}
      BY Zenon DEF Pair
    <3>2. CASE Schema # "unique"
      <4>1. b = <<>>
        BY Zenon, <3>2
      <4> HIDE DEF b
      <4> QED BY <3>2, <4>1
    <3>3. CASE Schema = "unique"
      <4>1. b = Pair(ConstraintKey, FALSE)
        BY Zenon, <3>3
      <4>2. DOMAIN b = {ConstraintKey}
        BY Zenon, <3>1, <4>1
      <4> HIDE DEF b
      <4> QED BY Zenon, <3>3, <4>2
    <3> QED BY Zenon, <3>2, <3>3
  <2>3. ASSUME NEW k \in DOMAIN a PROVE a[k] \in BOOLEAN
    <3>1. a = Pair(IndexKey, TRUE) /\ k = IndexKey
      BY Zenon, <2>1
    <3>2. Pair(IndexKey, TRUE)[IndexKey] \in BOOLEAN
      BY Zenon DEF Pair
    <3> QED BY Zenon, <3>1, <3>2
  <2>4. ASSUME NEW k \in DOMAIN b PROVE b[k] \in BOOLEAN
    <3>1. b = Pair(ConstraintKey, FALSE) /\ k = ConstraintKey
      BY Zenon, <2>2
    <3>2. Pair(ConstraintKey, FALSE)[ConstraintKey] \in BOOLEAN
      BY Zenon DEF Pair
    <3> QED BY Zenon, <3>1, <3>2
  <2> HIDE DEF a, b
  <2> QED BY Zenon, <2>1, <2>2, <2>3, <2>4
<1>3. S = Over(a, b)
  BY Zenon DEF InitStore
<1> HIDE DEF S, a, b
<1>4. /\ DOMAIN S \subseteq {IndexKey, ConstraintKey}
      /\ Has(S, ConstraintKey) => Has(S, IndexKey)
      /\ \A k \in DOMAIN S : S[k] # Absent /\ S[k] \in BOOLEAN
  <2>1. /\ DOMAIN S = DOMAIN a \cup DOMAIN b /\ \A k \in DOMAIN a : S[k] = a[k]
        /\ \A k \in DOMAIN b : k \notin DOMAIN a => S[k] = b[k]
    <3>1. /\ DOMAIN Over(a, b) = DOMAIN a \cup DOMAIN b /\ \A k \in DOMAIN a : Over(a, b)[k] = a[k]
          /\ \A k \in DOMAIN b : k \notin DOMAIN a => Over(a, b)[k] = b[k]
      BY Zenon, OverIs
    <3> QED BY Zenon, <1>3, <3>1
  <2>2. \A k \in DOMAIN S : S[k] \in BOOLEAN
    BY Zenon, <1>2, <2>1
  <2>3. \A k \in DOMAIN S : S[k] # Absent
    BY Zenon, <2>2, IsolationAssumption
  <2>4. DOMAIN S \subseteq {IndexKey, ConstraintKey} /\ (Has(S, ConstraintKey) => Has(S, IndexKey))
    <3>1. IndexKey # ConstraintKey
      BY Zenon DEF IndexKey, ConstraintKey
    <3> QED BY <1>1, <1>2, <2>1, <3>1 DEF Has
  <2> QED BY Zenon, <2>2, <2>3, <2>4
<1>5. \A k : Tag(k) \notin {"X", "U"} => ~Has(S, k)
  BY Zenon, <1>4, Tags DEF Has
<1>6. /\ ~Has(S, Counter("n")) /\ ~Has(S, Counter("e"))
      /\ \A n : ~Has(S, NodeKey(n)) /\ ~Has(S, LabelKey(n)) /\ ~Has(S, EdgeKey(n))
      /\ \A v, n : ~Has(S, PropKey(v, n)) /\ ~Has(S, OutKey(v, n)) /\ ~Has(S, InKey(v, n))
      /\ \A v : ~Has(S, UniqueKey(v))
  BY Zenon, <1>5, Tags
<1>7. Clean(S)
  BY Zenon, <1>4 DEF Clean
<1>8. Counters(S)
  BY Zenon, <1>6 DEF Counters, Count
<1>9. NodeRecords(S) /\ Entries(S) /\ EdgeRecords(S) /\ NoEdges(S) /\ Distinct(S)
  BY Zenon, <1>6 DEF NodeRecords, Entries, EdgeRecords, NoEdges, Distinct
<1>10. Owners(S)
  BY Zenon, <1>4, <1>6 DEF Owners, Has
<1> QED BY Zenon, <1>7, <1>8, <1>9, <1>10 DEF Sound

\* The invariant holds at the start.
LEMMA InitInv ==
    ASSUME Init
    PROVE  IsolationInv
<1>1. setting \in Settings /\ store = InitStore /\ txn = [c \in Client |-> Idle]
  BY Zenon DEF Init
<1>2. \A c \in Client : txn[c] = Idle /\ txn[c].pc = "idle"
  BY Zenon, <1>1, FieldsOf
<1>3. Shapes
  BY Zenon, <1>1, <1>2 DEF Shapes, Shape
<1>4. OneWriter /\ Current
  BY Zenon, <1>2 DEF OneWriter, Current, Writes
<1>5. StoreInv
  BY Zenon, <1>1, InitSound DEF StoreInv
<1> QED BY Zenon, <1>1, <1>3, <1>4, <1>5 DEF IsolationInv

\* A client that stays, starts, sleeps or comes back, with the store as it is.
LEMMA OneMoves ==
    ASSUME IsolationInv, NEW c \in Client, NEW x, UNCHANGED <<setting, store>>, txn' = [txn EXCEPT ![c] = x],
           Shape(x), Engine = "bolt" => x = Idle \/ (/\ \A d \in Client : d # c => txn[d].pc = "idle"
                                                     /\ x.pc = "run" /\ x.dirty = {}),
           x.pc = "run" => x.effect = Run(store, x.st)
    PROVE  IsolationInv'
<1>1. setting \in Settings /\ Shapes /\ OneWriter /\ Current /\ StoreInv
  BY Zenon DEF IsolationInv
<1>2. DOMAIN txn' = Client /\ txn'[c] = x /\ \A d \in Client : d # c => txn'[d] = txn[d]
  BY Zenon, <1>1 DEF Shapes
<1>3. setting' = setting /\ store' = store
  BY Zenon
<1>4. Shapes'
  BY <1>1, <1>2, <1>3 DEF Shapes, Shape, Statement
<1>5. Engine' = Engine /\ Statement' = Statement
  BY ZenonT(30), <1>3 DEF Engine, Statement
<1>6. OneWriter'
  BY SMTT(30), <1>1, <1>2, <1>5, FieldsOf DEF OneWriter
<1>7. Current'
  BY <1>1, <1>2, <1>3 DEF Current, Writes
<1>8. StoreInv'
  BY Zenon, <1>1, <1>3, <1>5 DEF StoreInv, MergesOnly
<1> QED BY Zenon, <1>1, <1>3, <1>4, <1>6, <1>7, <1>8 DEF IsolationInv

\* An attempt computes the statement's effect on the store as it is.
LEMMA AttemptIs ==
    ASSUME IsolationInv, NEW st \in Statement, NEW t \in 0..maxRetries
    PROVE  LET x == Attempt(st, t)
           IN x = Running(st, t, Run(store, st), {}) /\ Shape(x)
<1>1. Attempt(st, t) = Running(st, t, Run(store, st), {})
  BY Zenon DEF Attempt, Running
<1>2. Reading(Run(store, st))
  BY Zenon, Permitted, RunReads
<1> QED BY Zenon, <1>1, <1>2 DEF Shape

\* Begin keeps the invariant.
LEMMA BeginKeeps ==
    ASSUME IsolationInv, NEW c \in Client, NEW st \in Statement, Begin(c, st)
    PROVE  IsolationInv'
<1> DEFINE x == Attempt(st, 0)
<1>1. /\ UNCHANGED <<setting, store>> /\ txn' = [txn EXCEPT ![c] = x]
      /\ Engine = "bolt" => \A d \in Client : txn[d].pc = "idle"
  BY Zenon DEF Begin
<1>2. 0 \in 0..maxRetries
  BY IsolationAssumption
<1>3. x = Running(st, 0, Run(store, st), {}) /\ Shape(x)
  BY Zenon, <1>2, AttemptIs
<1> HIDE DEF x
<1>4. x.pc = "run" /\ x.st = st /\ x.effect = Run(store, st) /\ x.dirty = {}
  BY <1>3, FieldsOf
<1> QED BY Zenon, <1>1, <1>3, <1>4, OneMoves

\* So does a retry.
LEMMA RetryKeeps ==
    ASSUME IsolationInv, NEW c \in Client, Retry(c)
    PROVE  IsolationInv'
<1> DEFINE x == Attempt(txn[c].st, txn[c].tries)
<1>1. txn[c].pc = "sleep" /\ UNCHANGED <<setting, store>> /\ txn' = [txn EXCEPT ![c] = x]
  BY Zenon DEF Retry
<1>2. Shape(txn[c]) /\ OneWriter
  BY Zenon DEF IsolationInv, Shapes
<1>3. PICK st \in Statement, t \in 1..maxRetries : txn[c] = Sleeping(st, t)
  BY SMTT(30), <1>1, <1>2, FieldsOf DEF Shape
<1>4. txn[c].st = st /\ txn[c].tries = t /\ t \in 0..maxRetries
  BY <1>3, FieldsOf
<1>5. x = Running(st, t, Run(store, st), {}) /\ Shape(x)
  BY Zenon, <1>4, AttemptIs
<1>6. Engine # "bolt"
  BY Zenon, <1>1, <1>2 DEF OneWriter
<1> HIDE DEF x
<1>7. x.pc = "run" /\ x.st = st /\ x.effect = Run(store, st) /\ x.dirty = {}
  BY <1>5, FieldsOf
<1> QED BY Zenon, <1>1, <1>5, <1>6, <1>7, OneMoves

\* So does returning without a commit.
LEMMA ReturnKeeps ==
    ASSUME IsolationInv, NEW c \in Client, Return(c)
    PROVE  IsolationInv'
<1>1. UNCHANGED <<setting, store>> /\ txn' = [txn EXCEPT ![c] = Idle]
  BY Zenon DEF Return
<1>2. Shape(Idle) /\ Idle.pc # "run"
  BY Zenon, FieldsOf DEF Shape
<1> QED BY Zenon, <1>1, <1>2, OneMoves

\* So does a commit that is refused.
LEMMA ConflictKeeps ==
    ASSUME IsolationInv, NEW c \in Client, Conflict(c)
    PROVE  IsolationInv'
<1> DEFINE y == [pc |-> "sleep", st |-> txn[c].st, tries |-> txn[c].tries + 1]
           x == IF txn[c].tries >= maxRetries THEN Idle ELSE y
<1>1. /\ UNCHANGED <<setting, store>> /\ txn' = [txn EXCEPT ![c] = x]
      /\ Engine = "badger" /\ txn[c].pc = "run"
  BY Zenon DEF Conflict, Conflicts, Writes
<1>2. Shape(txn[c])
  BY Zenon DEF IsolationInv, Shapes
<1>3a. PICK st \in Statement, t \in 0..maxRetries : \E E, d : txn[c] = Running(st, t, E, d)
  BY <1>1, <1>2, FieldsOf DEF Shape
<1>3. PICK E, d : txn[c] = Running(st, t, E, d)
  BY ZenonT(30), <1>3a
<1>4. txn[c].st = st /\ txn[c].tries = t
  BY <1>3, FieldsOf
<1>5. y = Sleeping(st, t + 1)
  BY Zenon, <1>4 DEF Sleeping
<1>6. Shape(x) /\ x.pc # "run"
  <2>1. CASE txn[c].tries >= maxRetries
    BY Zenon, <2>1, FieldsOf DEF Shape
  <2>2. CASE ~(txn[c].tries >= maxRetries)
    <3>1. t + 1 \in 1..maxRetries
      BY <1>4, <2>2, IsolationAssumption
    <3>2. x = Sleeping(st, t + 1)
      BY Zenon, <1>5, <2>2
    <3> HIDE DEF x
    <3> QED BY Zenon, <3>1, <3>2, FieldsOf DEF Shape
  <2> QED BY Zenon, <2>1, <2>2
<1> HIDE DEF x
<1> QED BY Zenon, <1>1, <1>6, OneMoves

\* What a commit finds: an effect that is current.
LEMMA Committing ==
    ASSUME IsolationInv, NEW c \in Client, Commit(c)
    PROVE  LET w == txn[c].effect.writes
           IN /\ txn[c].st \in Statements /\ txn[c].st \in Statement
              /\ txn[c].effect = Run(store, txn[c].st) /\ txn[c].effect.ok
              /\ store' = Apply(store, w) /\ setting' = setting
              /\ txn'[c] = Idle
<1>1. Writes(c) /\ ~Conflicts(c) /\ txn[c].pc = "run" /\ txn[c].effect.ok
  BY Zenon DEF Commit, Writes
<1>2. Shape(txn[c]) /\ OneWriter /\ Current
  BY Zenon DEF IsolationInv, Shapes
<1>3a. PICK st \in Statement, t \in 0..maxRetries : \E E, d : txn[c] = Running(st, t, E, d)
  BY <1>1, <1>2, FieldsOf DEF Shape
<1>3. PICK E, d : txn[c] = Running(st, t, E, d)
  BY Zenon, <1>3a
<1>4. txn[c].st \in Statement /\ txn[c].st \in Statements
  BY <1>3, FieldsOf, Permitted
<1>5. txn[c].effect.reads \cap txn[c].dirty = {}
  <2>1. CASE Engine = "badger"
    BY Zenon, <1>1, <2>1 DEF Conflicts
  <2>2. CASE Engine = "bolt"
    BY Zenon, <1>1, <1>2, <2>2 DEF OneWriter
  <2> QED BY Zenon, <2>1, <2>2, Permitted
<1>6. txn[c].effect = Run(store, txn[c].st)
  BY Zenon, <1>1, <1>2, <1>5 DEF Current
<1>7. store' = Apply(store, txn[c].effect.writes) /\ setting' = setting /\ txn'[c] = Idle
  BY Zenon DEF Commit
<1> QED BY Zenon, <1>1, <1>4, <1>6, <1>7

\* A commit keeps the invariant: the effects of the others are current or doomed.
LEMMA CommitKeeps ==
    ASSUME IsolationInv, PhantomFree(setting), NEW c \in Client, Commit(c)
    PROVE  IsolationInv'
<1> DEFINE w == txn[c].effect.writes
           keys == DOMAIN w
<1>1. setting \in Settings /\ Shapes /\ OneWriter /\ Current /\ StoreInv
  BY Zenon DEF IsolationInv
<1>2. /\ txn[c].st \in Statements /\ txn[c].st \in Statement
      /\ txn[c].effect = Run(store, txn[c].st) /\ txn[c].effect.ok
      /\ store' = Apply(store, w) /\ setting' = setting /\ txn'[c] = Idle
  BY Zenon, Committing
<1>3. Statement' = Statement /\ Engine' = Engine /\ Statement \subseteq Statements
  BY Zenon, <1>2, Permitted DEF Statement, Engine
<1>4. txn' = [d \in Client |-> IF d = c THEN Idle
                             ELSE IF txn[d].pc = "run" THEN [txn[d] EXCEPT !.dirty = @ \cup keys] ELSE txn[d]]
  BY Zenon DEF Commit
<1> HIDE DEF w, keys
<1>5. DOMAIN txn' = Client /\ \A d \in Client : d # c => IF txn[d].pc = "run" THEN txn'[d] = [txn[d] EXCEPT !.dirty = @ \cup keys]
                                                       ELSE txn'[d] = txn[d]
  BY Zenon, <1>4
<1>6. ASSUME NEW d \in Client, d # c, txn[d].pc = "run"
      PROVE  \E st \in Statement, t \in 0..maxRetries : \E E, e :
                 txn[d] = Running(st, t, E, e) /\ txn'[d] = Running(st, t, E, e \cup keys) /\ Reading(E)
  <2>1a. PICK st \in Statement, t \in 0..maxRetries : \E E, e : txn[d] = Running(st, t, E, e) /\ Reading(E)
    BY <1>1, <1>6, FieldsOf DEF Shapes, Shape
  <2>1. PICK E, e : txn[d] = Running(st, t, E, e) /\ Reading(E)
    BY Zenon, <2>1a
  <2>2. txn'[d] = [txn[d] EXCEPT !.dirty = @ \cup keys]
    BY Zenon, <1>5, <1>6
  <2>3. txn'[d] = Running(st, t, E, e \cup keys)
    BY <2>1, <2>2, MoreDirty
  <2> QED BY Zenon, <2>1, <2>3
<1>7. \A d \in Client : Shape(txn[d])'
  <2> SUFFICES ASSUME NEW d \in Client PROVE Shape(txn[d])'
    BY Zenon
  <2>1. CASE d = c
    BY Zenon, <1>2, <2>1 DEF Shape
  <2>2. CASE d # c /\ txn[d].pc # "run"
    BY <1>1, <1>3, <1>5, <2>2 DEF Shapes, Shape
  <2>3. CASE d # c /\ txn[d].pc = "run"
    BY Zenon, <1>3, <1>6, <2>3 DEF Shape
  <2> QED BY Zenon, <2>1, <2>2, <2>3
<1>8. Shapes'
  BY Zenon, <1>5, <1>7 DEF Shapes
<1>9. Idle.pc = "idle" /\ txn[c].pc = "run"
  BY Zenon, FieldsOf DEF Commit, Writes
<1>10. OneWriter'
  <2>1. ASSUME Engine = "bolt" PROVE \A d \in Client : txn'[d].pc = "idle"
    <3>1. \A d \in Client : d # c => txn[d].pc = "idle"
      BY Zenon, <1>1, <1>9, <2>1 DEF OneWriter
    <3>2. \A d \in Client : d # c => txn'[d] = txn[d]
      BY Zenon, <1>5, <3>1
    <3> QED BY Zenon, <1>2, <1>9, <3>1, <3>2
  <2> QED BY Zenon, <1>3, <2>1 DEF OneWriter
<1>11. Sound(store')
  <2>1. Sound(store)
    BY Zenon, <1>1 DEF StoreInv
  <2> QED BY Zenon, <1>2, <2>1, RunKeeps DEF w
<1>12. StoreInv'
  <2>1. ASSUME \A st \in Statement : st[1] # "connect" PROVE NoEdges(store')
    BY Zenon, <1>1, <1>2, <2>1, EdgesAbsent DEF StoreInv, w
  <2>2. ASSUME MergesOnly PROVE Distinct(store')
    BY Zenon, <1>1, <1>2, <2>2, DistinctKept DEF StoreInv, MergesOnly, w
  <2>3. MergesOnly' <=> MergesOnly
    BY Zenon, <1>3 DEF MergesOnly
  <2> QED BY Zenon, <1>3, <1>11, <2>1, <2>2, <2>3 DEF StoreInv
<1>13. Current'
  <2> SUFFICES ASSUME NEW d \in Client, Writes(d)', txn'[d].effect.reads \cap txn'[d].dirty = {}
               PROVE  txn'[d].effect = Run(store', txn'[d].st)
    BY Zenon DEF Current
  <2>1. txn'[d].pc = "run" /\ txn'[d].effect.ok /\ DOMAIN txn'[d].effect.writes # {}
    BY Zenon DEF Writes
  <2>2. d # c
    BY Zenon, <1>2, <1>9, <2>1
  <2>3. txn[d].pc = "run"
    BY Zenon, <1>5, <2>1, <2>2
  <2>4a. PICK st \in Statement, t \in 0..maxRetries : \E E, e :
            txn[d] = Running(st, t, E, e) /\ txn'[d] = Running(st, t, E, e \cup keys)
    BY Zenon, <1>6, <2>2, <2>3
  <2>4. PICK E, e :
            txn[d] = Running(st, t, E, e) /\ txn'[d] = Running(st, t, E, e \cup keys)
    BY Zenon, <2>4a
  <2>5. /\ txn[d].st = st /\ txn[d].effect = E /\ txn[d].dirty = e
        /\ txn'[d].st = st /\ txn'[d].effect = E /\ txn'[d].dirty = e \cup keys
    BY <2>4, FieldsOf
  <2>6. E.reads \cap e = {} /\ E.reads \cap keys = {}
    BY Zenon, <2>5
  <2>7. E.ok /\ DOMAIN E.writes # {}
    BY Zenon, <2>1, <2>5
  <2>8. E = Run(store, st)
    BY Zenon, <1>1, <2>3, <2>5, <2>6, <2>7 DEF Current, Writes
  <2>9. Engine # "bolt"
    BY Zenon, <1>1, <1>9, <2>2, <2>3 DEF OneWriter
  <2>10. /\ \A s \in Statement : s[1] \in {"create", "merge", "set", "delete", "detach", "connect", "disconnect"}
         /\ \/ \A s \in Statement : s[1] # "connect"
            \/ \A s \in Statement : s[1] \notin {"delete", "detach"}
    BY Zenon, <2>9 DEF PhantomFree, Statement, Engine
  <2>11. st[1] \in {"delete", "detach"} => NoEdges(store) /\ txn[c].st[1] # "connect"
    BY Zenon, <1>1, <1>2, <2>10 DEF StoreInv
  <2>12. Sound(store)
    BY Zenon, <1>1 DEF StoreInv
  <2>13. keys = DOMAIN Run(store, txn[c].st).writes /\ store' = Apply(store, Run(store, txn[c].st).writes)
    BY Zenon, <1>2 DEF keys, w
  <2>14. st \in Statements /\ st[1] \in {"create", "merge", "set", "delete", "detach", "connect", "disconnect"}
    BY Zenon, <1>3, <2>10
  <2>15. Run(store, txn[c].st).ok /\ Run(store, st).ok /\ DOMAIN Run(store, st).writes # {}
         /\ Run(store, st).reads \cap DOMAIN Run(store, txn[c].st).writes = {}
    BY ZenonT(30), <1>2, <2>6, <2>7, <2>8, <2>13
  <2>16. Run(Apply(store, Run(store, txn[c].st).writes), st) = Run(store, st)
    BY <1>2, <2>11, <2>12, <2>14, <2>15, Undisturbed
  <2> QED BY Zenon, <2>5, <2>8, <2>13, <2>16
<1> QED BY Zenon, <1>1, <1>2, <1>8, <1>10, <1>12, <1>13 DEF IsolationInv

\* Every step keeps the invariant.
LEMMA NextInv ==
    ASSUME IsolationInv, \A s \in Settings : PhantomFree(s), [Next]_vars
    PROVE  IsolationInv'
<1>1. PhantomFree(setting)
  BY ZenonT(30) DEF IsolationInv
<1>2. CASE UNCHANGED vars
  <2>1. setting' = setting /\ store' = store /\ txn' = txn
    BY Zenon, <1>2 DEF vars
  <2> QED BY <2>1 DEF IsolationInv, Shapes, Shape, OneWriter, Current, Writes, StoreInv, MergesOnly, Statement, Engine
<1>3. ASSUME NEW c \in Client, Proceed(c) PROVE IsolationInv'
  BY Zenon, <1>1, <1>3, ReturnKeeps, CommitKeeps, ConflictKeeps, RetryKeeps DEF Proceed
<1>4. ASSUME NEW c \in Client, NEW st \in Statement, Begin(c, st) PROVE IsolationInv'
  BY Zenon, <1>4, BeginKeeps
<1> QED BY Zenon, <1>2, <1>3, <1>4 DEF Next

----------------------------------------------------------------------------
(* The theorems.                                                           *)

\* The invariant holds throughout.
LEMMA Invariant ==
    ASSUME \A s \in Settings : PhantomFree(s)
    PROVE  Spec => []IsolationInv
<1>1. Init => IsolationInv
  BY Zenon, InitInv
<1>2. IsolationInv /\ [Next]_vars => IsolationInv'
  BY Zenon, NextInv
<1> QED BY <1>1, <1>2, PTL DEF Spec

\* Only a commit changes the store.
LEMMA CommitOnly ==
    ASSUME IsolationInv, Next, store' # store
    PROVE  \E c \in Client : Commit(c)
BY Zenon DEF Next, Proceed, Begin, Return, Conflict, Retry

\* A commit that changes the store does what the statement would do now.
LEMMA SerialStep ==
    ASSUME IsolationInv, [Next]_vars, NEW c \in Client, Writes(c), txn'[c] = Idle, store' # store
    PROVE  store' = Apply(store, Run(store, txn[c].st).writes)
<1>1. Next
  BY Zenon DEF vars
<1>2. PICK d \in Client : Commit(d)
  BY Zenon, <1>1, CommitOnly
<1>3. c = d
  <2> SUFFICES ASSUME c # d PROVE FALSE
    BY Zenon
  <2>1. txn[c].pc = "run" /\ Shape(txn[c])
    BY Zenon DEF Writes, IsolationInv, Shapes
  <2> DEFINE keys == DOMAIN txn[d].effect.writes
  <2>2. txn'[c] = [txn[c] EXCEPT !.dirty = @ \cup keys]
    BY ZenonT(30), <1>2, <2>1 DEF Commit
  <2>3a. PICK st \in Statement, t \in 0..maxRetries : \E E, e : txn[c] = Running(st, t, E, e)
    BY <2>1, FieldsOf DEF Shape
  <2>3. PICK E, e : txn[c] = Running(st, t, E, e)
    BY Zenon, <2>3a
  <2> HIDE DEF keys
  <2>4. txn'[c] = Running(st, t, E, e \cup keys)
    <3>1. [Running(st, t, E, e) EXCEPT !.dirty = @ \cup keys] = Running(st, t, E, e \cup keys)
      BY DEF Running
    <3> QED BY Zenon, <2>2, <2>3, <3>1
  <2>5. txn'[c].pc = "run" /\ Idle.pc = "idle"
    BY <2>4, FieldsOf
  <2> QED BY Zenon, <2>5
<1> QED BY Zenon, <1>2, <1>3, Committing

\* The invariant makes the store consistent.
LEMMA ConsistentStore ==
    ASSUME IsolationInv
    PROVE  Consistent
<1>1. Shapes /\ StoreInv /\ Sound(store)
  BY Zenon DEF IsolationInv, StoreInv
<1>2. /\ Clean(store) /\ NodeRecords(store) /\ Entries(store) /\ Owners(store) /\ EdgeRecords(store)
      /\ NodeId \subseteq Nat /\ EdgeId \subseteq Nat
  BY <1>1 DEF Sound, NodeId, EdgeId
<1>3. TypeOK
  <2>1. ASSUME NEW c \in Client
        PROVE  \/ txn[c] = Idle
               \/ txn[c].pc = "sleep" /\ txn[c].st \in Statement /\ txn[c].tries \in 1..maxRetries
               \/ /\ txn[c].pc = "run" /\ txn[c].st \in Statement /\ txn[c].tries \in 0..maxRetries
                  /\ DOMAIN txn[c].effect.writes # {} => txn[c].effect.reads # {}
    BY <1>1, FieldsOf DEF Shapes, Shape, Reading
  <2> QED BY Zenon, <1>2, <2>1 DEF TypeOK, Clean
<1>4. \A n \in Nat : Has(store, NodeKey(n)) <=> n \in Nodes
  BY Zenon, <1>2 DEF NodeRecords, Nodes
<1>5. NoDanglingEdges
  <2> SUFFICES ASSUME NEW e \in Edges PROVE {store[EdgeKey(e)][1], store[EdgeKey(e)][2]} \subseteq Nodes
    BY Zenon DEF NoDanglingEdges
  <2>1. e \in Nat /\ Has(store, EdgeKey(e))
    BY Zenon, <1>2 DEF Edges
  <2>2. /\ store[EdgeKey(e)] \in Nat \X Nat
        /\ Has(store, NodeKey(store[EdgeKey(e)][1])) /\ Has(store, NodeKey(store[EdgeKey(e)][2]))
    BY Zenon, <1>2, <2>1 DEF EdgeRecords
  <2>3. store[EdgeKey(e)][1] \in Nat /\ store[EdgeKey(e)][2] \in Nat
    BY Zenon, <2>2
  <2> QED BY Zenon, <1>4, <2>2, <2>3
<1>6. PropIndexExact
  BY Zenon, <1>2, <1>4 DEF PropIndexExact, Entries
<1>7. UniqueValues
  <2> SUFFICES ASSUME Has(store, ConstraintKey), NEW n \in Nodes, NEW m \in Nodes, store[NodeKey(n)] = store[NodeKey(m)]
               PROVE  n = m
    BY Zenon DEF UniqueValues
  <2>1. n \in Nat /\ m \in Nat /\ Has(store, NodeKey(n)) /\ Has(store, NodeKey(m))
    BY Zenon, <1>2 DEF Nodes
  <2> QED BY Zenon, <1>2, <2>1 DEF Owners
<1> QED BY Zenon, <1>3, <1>5, <1>6, <1>7 DEF Consistent

\* The invariant makes MERGE create once.
LEMMA MergedStore ==
    ASSUME IsolationInv
    PROVE  MergedOnce
<1> SUFFICES ASSUME MergesOnly, NEW n \in Nodes, NEW m \in Nodes, store[NodeKey(n)] = store[NodeKey(m)]
             PROVE  n = m
  BY Zenon DEF MergedOnce
<1>1. Distinct(store)
  BY Zenon DEF IsolationInv, StoreInv
<1>2. n \in Nat /\ m \in Nat /\ Has(store, NodeKey(n)) /\ Has(store, NodeKey(m))
  BY DEF Nodes, NodeId
<1> QED BY Zenon, <1>1, <1>2 DEF Distinct

\* Serializable isolation (Store.Update of both engines, DESIGN.md section 7):
\* where no phantom can arise, a statement that commits does to the store what
\* it would have done had it run alone at that moment.
THEOREM CommitsSerializable ==
    ASSUME \A s \in Settings : PhantomFree(s)
    PROVE  Spec => SerialEffects
<1>1. Spec => []IsolationInv
  BY Zenon, Invariant
<1>2. IsolationInv /\ [Next]_vars =>
          [\A c \in Client : Writes(c) /\ txn'[c] = Idle /\ store' # store =>
               store' = Apply(store, Run(store, txn[c].st).writes)]_vars
  BY Zenon, SerialStep
<1> QED BY <1>1, <1>2, PTL DEF Spec, SerialEffects

\* However statements overlap, the committed store holds a graph: edges join
\* nodes that exist, index entries and unique owners are exact (putPropEntry,
\* delPropEntry, claimValue, BuildIndex, DeleteNode, CreateEdge).
THEOREM StoreConsistent ==
    ASSUME \A s \in Settings : PhantomFree(s)
    PROVE  Spec => []Consistent
<1>1. Spec => []IsolationInv
  BY Zenon, Invariant
<1>2. IsolationInv => Consistent
  BY Zenon, ConsistentStore
<1> QED BY <1>1, <1>2, PTL

\* Concurrent MERGEs of the same pattern leave one node (mergeNode): the label
\* scan reads no key of a node that is not there yet, the node counter does.
THEOREM MergesCreateOnce ==
    ASSUME \A s \in Settings : PhantomFree(s)
    PROVE  Spec => []MergedOnce
<1>1. Spec => []IsolationInv
  BY Zenon, Invariant
<1>2. IsolationInv => MergedOnce
  BY Zenon, MergedStore
<1> QED BY <1>1, <1>2, PTL
=============================================================================
