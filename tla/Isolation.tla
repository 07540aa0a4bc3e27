----------------------------- MODULE Isolation -----------------------------
(***************************************************************************)
(* Concurrent write statements on one store.  A statement runs in          *)
(* Store.Update: on Badger it reads the snapshot of its start and commits   *)
(* unless a key it read was written meanwhile, in which case Update runs it *)
(* again, a bounded number of times; on bbolt it holds the writer lock.     *)
(*                                                                         *)
(* Because a transaction only sees its snapshot and its own writes, running *)
(* the statement is one step that computes the keys read and the keys       *)
(* written, and the commit is another; everything else interleaves.         *)
(*                                                                         *)
(* The keys are those of one label and one property of it (Graph has the    *)
(* general case, one transaction at a time).  Names are interned and the    *)
(* format version is raised beforehand.  The nodes a statement acts on are  *)
(* bound by an index seek on some other property, the MATCH that reads the  *)
(* fewest keys: their records.                                              *)
(***************************************************************************)
EXTENDS Integers

CONSTANTS Client,           \* goroutines that call Query
          Value,            \* property values
          Settings,         \* what the database is and what is asked of it
          Absent,           \* no value under the key
          MaxNode,          \* bound on the node counter
          MaxEdge,          \* bound on the edge counter
          maxRetries        \* conflict retries of Badger's Update

\* A statement is a tuple: its name and its arguments.
Statements ==
    ({"create", "merge"} \X Value) \cup ({"set"} \X Nat \X Value)
        \cup ({"delete", "detach", "disconnect"} \X Nat) \cup ({"connect"} \X Nat \X Nat)
        \cup {<<"createIndex">>, <<"dropIndex">>, <<"createConstraint">>, <<"dropConstraint">>}

ASSUME IsolationAssumption ==
    /\ \A s \in Settings : /\ s.engine \in {"badger", "bolt"}
                            /\ s.schema \in {"none", "index", "unique"}
                            /\ s.statements \subseteq Statements
    /\ Absent \notin Value \cup Nat \cup BOOLEAN \cup (Nat \X Nat)
    /\ MaxNode \in Nat /\ MaxEdge \in Nat /\ maxRetries \in Nat

VARIABLES setting,          \* one of Settings, for good
          store,            \* committed key-value pairs
          txn               \* the transaction of each client

vars == <<setting, store, txn>>

Engine == setting.engine            \* "badger" or "bolt"
Schema == setting.schema            \* "none", "index" or "unique": the schema at start
Statement == setting.statements     \* the statements clients issue

NodeId == 1..MaxNode
EdgeId == 1..MaxEdge

\* Keys: counters c, records n and e, label entry l, property entry p, unique
\* owner u, adjacency o and i, registries X and U.
Counter(kind) == <<"c", kind>>
NodeKey(n) == <<"n", n>>
LabelKey(n) == <<"l", n>>
PropKey(v, n) == <<"p", v, n>>
UniqueKey(v) == <<"u", v>>
EdgeKey(e) == <<"e", e>>
OutKey(n, e) == <<"o", n, e>>
InKey(n, e) == <<"i", n, e>>
IndexKey == <<"X">>
ConstraintKey == <<"U">>

\* The pair of a key and its value; the pairs of f, and those of g for other keys.
Pair(k, v) == [x \in {k} |-> v]
Over(f, g) == [k \in DOMAIN f \cup DOMAIN g |-> IF k \in DOMAIN f THEN f[k] ELSE g[k]]

Has(S, k) == k \in DOMAIN S
Get(S, k) == IF Has(S, k) THEN S[k] ELSE Absent

\* The store once the writes, deletions included, are applied.
Apply(S, writes) ==
    LET merged == Over(writes, S)
    IN [k \in {x \in DOMAIN merged : merged[x] # Absent} |-> merged[k]]

InitStore ==
    Over(IF Schema = "none" THEN <<>> ELSE Pair(IndexKey, TRUE),
         IF Schema = "unique" THEN Pair(ConstraintKey, FALSE) ELSE <<>>)

----------------------------------------------------------------------------
(* What a piece of a statement does to a store: whether it succeeds, which  *)
(* keys the transaction records as read, and what it writes.  Badger        *)
(* records a key on Get, present or not, and on Item of an iterator: a key  *)
(* that was not there when a prefix was scanned is never recorded.          *)

Effect(ok, reads, writes) == [ok |-> ok, reads |-> reads, writes |-> writes]
Nothing(reads) == Effect(TRUE, reads, <<>>)
Failure == Effect(FALSE, {}, <<>>)

Deletion(keys) == [k \in keys |-> Absent]

\* a, then b, which was computed on the store a leaves.
Then(a, b) == Effect(a.ok /\ b.ok, a.reads \cup b.reads, Over(b.writes, a.writes))

\* Mutant of claimValue: the owner key is written without being read.
claimValue_Blind(S, v, n) == Effect(TRUE, {}, Pair(UniqueKey(v), n))

claimValue(S, v, n) ==
    LET owner == Get(S, UniqueKey(v))
    IN Effect(owner \in {Absent, n}, {UniqueKey(v)},
              IF owner = Absent THEN Pair(UniqueKey(v), n) ELSE <<>>)

putPropEntry(S, v, n) ==
    IF ~Has(S, IndexKey) THEN Nothing({IndexKey})
    ELSE LET put == Effect(TRUE, {IndexKey, ConstraintKey}, Pair(PropKey(v, n), TRUE))
         IN IF Has(S, ConstraintKey) THEN Then(put, claimValue(S, v, n)) ELSE put

delPropEntry(S, v, n) ==
    IF ~Has(S, IndexKey) THEN Nothing({IndexKey})
    ELSE LET unique == Has(S, ConstraintKey)
             released == IF unique /\ Get(S, UniqueKey(v)) = n THEN {UniqueKey(v)} ELSE {}
         IN Effect(TRUE,
                   {IndexKey, ConstraintKey} \cup (IF unique THEN {UniqueKey(v)} ELSE {}),
                   Deletion({PropKey(v, n)} \cup released))

\* Mutant of nextCounter: the counter key is written without being read.
nextCounter_Blind(S, kind) ==
    Effect(TRUE, {}, Pair(Counter(kind), IF Has(S, Counter(kind)) THEN S[Counter(kind)] + 1 ELSE 1))

\* The value nextCounter returns is what it writes.
nextCounter(S, kind) ==
    Effect(TRUE, {Counter(kind)},
           Pair(Counter(kind), IF Has(S, Counter(kind)) THEN S[Counter(kind)] + 1 ELSE 1))

----------------------------------------------------------------------------
(* Statements.                                                             *)

CreateNode(S, v) ==
    LET id == nextCounter(S, "n")
        n == id.writes[Counter("n")]
    IN IF n > MaxNode THEN Failure
       ELSE Then(Then(id, Effect(TRUE, {}, Over(Pair(NodeKey(n), v), Pair(LabelKey(n), TRUE)))),
                 putPropEntry(S, v, n))

\* The nodes a label scan lists, and the keys it and GetNode record.
NodesByLabel(S) == {n \in NodeId : Has(S, LabelKey(n))}
ScanReads(S) == {LabelKey(n) : n \in NodesByLabel(S)} \cup {NodeKey(n) : n \in NodesByLabel(S)}
Readable(S) == \A n \in NodesByLabel(S) : Has(S, NodeKey(n))

\* Mutant of mergeNode: matches through the p keys, indexed or not.
mergeNode_IndexOnly(S, v) ==
    IF \E n \in NodeId : Has(S, PropKey(v, n)) THEN Nothing(ScanReads(S))
    ELSE Then(Nothing(ScanReads(S)), CreateNode(S, v))

\* MERGE (:A {k: v}): match by label scan, create when nothing matches.
mergeNode(S, v) ==
    IF ~Readable(S) THEN Failure
    ELSE IF \E n \in NodesByLabel(S) : S[NodeKey(n)] = v THEN Nothing(ScanReads(S))
    ELSE Then(Nothing(ScanReads(S)), CreateNode(S, v))

SetProperty(S, n, v) ==
    IF ~Has(S, NodeKey(n)) THEN Nothing({NodeKey(n)})
    ELSE LET del == delPropEntry(S, S[NodeKey(n)], n)
             put == putPropEntry(Apply(S, del.writes), v, n)
         IN Then(Then(del, put), Effect(TRUE, {NodeKey(n)}, Pair(NodeKey(n), v)))

\* An iterator that is only asked whether it is Valid records nothing.
hasIncidentEdges(S, n) == \E e \in EdgeId : Has(S, OutKey(n, e)) \/ Has(S, InKey(n, e))

DeleteNode(S, n) ==
    IF ~Has(S, NodeKey(n)) THEN Nothing({NodeKey(n)})
    ELSE IF hasIncidentEdges(S, n) THEN Failure
    ELSE Then(delPropEntry(S, S[NodeKey(n)], n),
              Effect(TRUE, {NodeKey(n)}, Deletion({NodeKey(n), LabelKey(n)})))

DeleteEdge(S, e) ==
    IF ~Has(S, EdgeKey(e)) THEN Nothing({EdgeKey(e)})
    ELSE Effect(TRUE, {EdgeKey(e)},
                Deletion({EdgeKey(e), OutKey(S[EdgeKey(e)][1], e), InKey(S[EdgeKey(e)][2], e)}))

DetachDeleteNode(S, n) ==
    LET listed == {OutKey(n, e) : e \in EdgeId} \cup {InKey(n, e) : e \in EdgeId}
        edges == {e \in EdgeId : Has(S, OutKey(n, e)) \/ Has(S, InKey(n, e))}
        dels == Effect(\A e \in edges : Has(S, EdgeKey(e)),
                       (listed \cap DOMAIN S) \cup {EdgeKey(e) : e \in edges},
                       Deletion(UNION {{EdgeKey(e), OutKey(S[EdgeKey(e)][1], e), InKey(S[EdgeKey(e)][2], e)} :
                                          e \in {f \in edges : Has(S, EdgeKey(f))}}))
    IN IF ~Has(S, NodeKey(n)) THEN Nothing({NodeKey(n)})
       ELSE Then(dels, DeleteNode(Apply(S, dels.writes), n))

CreateEdge(S, src, dst) ==
    LET id == nextCounter(S, "e")
        e == id.writes[Counter("e")]
        reads == {NodeKey(src), NodeKey(dst)}
    IN IF ~(reads \subseteq DOMAIN S) THEN Nothing(reads)
       ELSE IF e > MaxEdge THEN Failure
       ELSE Then(id, Effect(TRUE, reads, Over(Pair(EdgeKey(e), <<src, dst>>),
                                             Over(Pair(OutKey(src, e), TRUE), Pair(InKey(dst, e), TRUE)))))

BuildIndex(S) ==
    Effect(Readable(S), ScanReads(S),
           [k \in {IndexKey} \cup {PropKey(S[NodeKey(n)], n) :
                                     n \in {m \in NodesByLabel(S) : Has(S, NodeKey(m))}} |-> TRUE])

CreateIndex(S) ==
    IF Has(S, IndexKey) THEN Nothing({IndexKey})
    ELSE Then(Nothing({IndexKey}), BuildIndex(S))

\* The keys of a prefix that deletePrefix finds, reads and deletes.
deletePrefix(S, tag) ==
    LET keys == {k \in DOMAIN S : k[1] = tag} IN Effect(TRUE, keys, Deletion(keys))

DropIndex(S) ==
    IF ~Has(S, IndexKey) THEN Failure
    ELSE IF Has(S, ConstraintKey) THEN Failure
    ELSE Then(deletePrefix(S, "p"),
              Effect(TRUE, {IndexKey, ConstraintKey}, Deletion({IndexKey})))

\* The constraint record says whether its index was built for it.
AddUniqueConstraint(S) ==
    IF Has(S, ConstraintKey) THEN Nothing({ConstraintKey})
    ELSE LET built == IF Has(S, IndexKey) THEN Nothing({IndexKey})
                      ELSE Then(Nothing({IndexKey}), BuildIndex(S))
             held == {S[NodeKey(n)] : n \in {m \in NodesByLabel(S) : Has(S, NodeKey(m))}}
             holders(v) == {n \in NodesByLabel(S) : Get(S, NodeKey(n)) = v}
             free == \A v \in held, n \in NodesByLabel(S) : n \in holders(v) =>
                         holders(v) = {n} /\ Get(S, UniqueKey(v)) \in {Absent, n}
         IN Then(built,
                 Effect(Readable(S) /\ free,
                        {ConstraintKey} \cup ScanReads(S) \cup {UniqueKey(v) : v \in held},
                        Over(Pair(ConstraintKey, ~Has(S, IndexKey)),
                             [k \in {UniqueKey(v) : v \in held} |->
                                  CHOOSE n \in NodesByLabel(S) : n \in holders(k[2])])))

DropUniqueConstraint(S) ==
    IF ~Has(S, ConstraintKey) THEN Failure
    ELSE LET owners == Then(deletePrefix(S, "u"),
                            Effect(TRUE, {ConstraintKey}, Deletion({ConstraintKey})))
         IN IF S[ConstraintKey]
            THEN Then(owners, Then(deletePrefix(S, "p"), Effect(TRUE, {}, Deletion({IndexKey}))))
            ELSE owners

Run(S, st) ==
    CASE st[1] = "create" -> CreateNode(S, st[2])
      [] st[1] = "merge" -> mergeNode(S, st[2])
      [] st[1] = "set" -> SetProperty(S, st[2], st[3])
      [] st[1] = "delete" -> DeleteNode(S, st[2])
      [] st[1] = "detach" -> DetachDeleteNode(S, st[2])
      [] st[1] = "connect" -> CreateEdge(S, st[2], st[3])
      [] st[1] = "disconnect" -> DeleteEdge(S, st[2])
      [] st[1] = "createIndex" -> CreateIndex(S)
      [] st[1] = "dropIndex" -> DropIndex(S)
      [] st[1] = "createConstraint" -> AddUniqueConstraint(S)
      [] st[1] = "dropConstraint" -> DropUniqueConstraint(S)

----------------------------------------------------------------------------
(* Store.Update.                                                           *)

Idle == [pc |-> "idle"]

\* A run of st on the current store; dirty will hold what others commit.
Attempt(st, tries) ==
    [pc |-> "run", st |-> st, tries |-> tries, effect |-> Run(store, st), dirty |-> {}]

Init == setting \in Settings /\ store = InitStore /\ txn = [c \in Client |-> Idle]

Begin(c, st) ==
    /\ txn[c].pc = "idle"
    /\ Engine = "bolt" => \A d \in Client : txn[d].pc = "idle"
    /\ txn' = [txn EXCEPT ![c] = Attempt(st, 0)]
    /\ UNCHANGED <<setting, store>>

\* The function returned an error, or wrote nothing: no commit takes place.
Return(c) ==
    /\ txn[c].pc = "run"
    /\ ~txn[c].effect.ok \/ DOMAIN txn[c].effect.writes = {}
    /\ txn' = [txn EXCEPT ![c] = Idle]
    /\ UNCHANGED <<setting, store>>

Conflicts(c) == Engine = "badger" /\ txn[c].effect.reads \cap txn[c].dirty # {}

Writes(c) ==
    /\ txn[c].pc = "run"
    /\ txn[c].effect.ok
    /\ DOMAIN txn[c].effect.writes # {}

Commit(c) ==
    /\ Writes(c)
    /\ ~Conflicts(c)
    /\ store' = Apply(store, txn[c].effect.writes)
    /\ txn' = [d \in Client |->
           IF d = c THEN Idle
           ELSE IF txn[d].pc = "run"
           THEN [txn[d] EXCEPT !.dirty = @ \cup DOMAIN txn[c].effect.writes]
           ELSE txn[d]]
    /\ UNCHANGED setting

\* ErrConflict: sleep and try again, or give up with storage.ErrConflict.
Conflict(c) ==
    /\ Writes(c)
    /\ Conflicts(c)
    /\ txn' = [txn EXCEPT ![c] =
           IF txn[c].tries >= maxRetries THEN Idle
           ELSE [pc |-> "sleep", st |-> txn[c].st, tries |-> txn[c].tries + 1]]
    /\ UNCHANGED <<setting, store>>

Retry(c) ==
    /\ txn[c].pc = "sleep"
    /\ txn' = [txn EXCEPT ![c] = Attempt(txn[c].st, txn[c].tries)]
    /\ UNCHANGED <<setting, store>>

Proceed(c) == Return(c) \/ Commit(c) \/ Conflict(c) \/ Retry(c)

Next == \E c \in Client : Proceed(c) \/ \E st \in Statement : Begin(c, st)

\* Every goroutine that is in Update keeps running; clients may stop calling.
Fairness == \A c \in Client : WF_vars(Proceed(c))

Spec == Init /\ [][Next]_vars /\ Fairness

----------------------------------------------------------------------------
(* What the store promises to concurrent statements.                       *)

TypeOK ==
    /\ \A k \in DOMAIN store : store[k] # Absent
    /\ \A c \in Client :
           \/ txn[c] = Idle
           \/ txn[c].pc = "sleep" /\ txn[c].st \in Statement /\ txn[c].tries \in 1..maxRetries
           \/ /\ txn[c].pc = "run" /\ txn[c].st \in Statement /\ txn[c].tries \in 0..maxRetries
              /\ DOMAIN txn[c].effect.writes # {} => txn[c].effect.reads # {}

Nodes == {n \in NodeId : Has(store, NodeKey(n))}
Edges == {e \in EdgeId : Has(store, EdgeKey(e))}

\* DESIGN.md section 7, serializable isolation: a statement that commits does
\* to the store what it would have done had it run at that very moment, so
\* the order of commits is a serial order of the statements.
SerialEffects ==
    [][\A c \in Client : Writes(c) /\ txn'[c] = Idle /\ store' # store =>
           store' = Apply(store, Run(store, txn[c].st).writes)]_vars

\* Every edge joins two nodes that exist, whoever deleted nodes meanwhile
\* (DeleteNode looks for incident edges, CreateEdge for its nodes).
NoDanglingEdges ==
    \A e \in Edges : {store[EdgeKey(e)][1], store[EdgeKey(e)][2]} \subseteq Nodes

\* README, "always-consistent indexes": the p keys list exactly the nodes
\* that hold the value while the pair is indexed, and nothing otherwise.
PropIndexExact ==
    \A n \in NodeId, v \in Value :
        Has(store, PropKey(v, n)) <=>
            Has(store, IndexKey) /\ n \in Nodes /\ store[NodeKey(n)] = v

\* README, unique constraints: concurrent statements cannot give two nodes
\* the same value (claimValue).
UniqueValues ==
    Has(store, ConstraintKey) =>
        \A n, m \in Nodes : store[NodeKey(n)] = store[NodeKey(m)] => n = m

\* Whatever statements overlap, the committed store is a graph with exact
\* indexes and no value twice under the constraint (putPropEntry, BuildIndex,
\* claimValue, AddUniqueConstraint, DeleteNode).
Consistent == TypeOK /\ NoDanglingEdges /\ PropIndexExact /\ UniqueValues

\* Concurrent MERGEs of one pattern create one node, where nodes come from
\* MERGE only (mergeNode).
MergesOnly == \A st \in Statement : st[1] \notin {"create", "set"}
MergedOnce == MergesOnly => \A n, m \in Nodes : store[NodeKey(n)] = store[NodeKey(m)] => n = m

\* A statement always comes back to its caller, with its result or with
\* ErrConflict, however often others commit under it.
StatementsEnd == \A c \in Client : txn[c].pc # "idle" ~> txn[c].pc = "idle"
=============================================================================
