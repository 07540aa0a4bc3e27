--------------------------------- MODULE Tx ---------------------------------
(***************************************************************************)
(* DB.Update and DB.View: several queries in one transaction, with Go code  *)
(* between them.  The function sees each query's rows or its error, decides  *)
(* what to run next, and returns nil or an error.  A query that fails leaves *)
(* in the transaction what it wrote before failing: only the function's own  *)
(* error discards it.                                                       *)
(*                                                                         *)
(* The store is Badger with one label whose property is under a unique      *)
(* constraint; of the keys of Isolation it has the counter of nodes, and    *)
(* records, entries and owners.  A query reads one node or writes one row:  *)
(* one that writes several rows is as many steps, which nothing comes        *)
(* between in the transaction.                                              *)
(***************************************************************************)
EXTENDS Isolation, Sequences

CONSTANTS MaxQuery,         \* bound on the queries of one call of the function
          Swallows          \* the function may ignore a query's error

ASSUME TxAssumption == MaxQuery \in Nat /\ Swallows \in BOOLEAN

VARIABLES data,             \* committed contents
          tx                \* the transaction of each client

txVars == <<data, tx>>

NodeCounter == Counter("n")
DataKey == {NodeCounter} \cup {NodeKey(n) : n \in NodeId}
             \cup {PropKey(v, n) : v \in Value, n \in NodeId} \cup {UniqueKey(v) : v \in Value}

\* What a query does: a row to create or to set, or a read and what it returned.
Write == ({"create"} \X {0} \X Value) \cup ({"set"} \X NodeId \X Value)
Read == {"read"} \X NodeId \X Value

NoTx == [phase |-> "idle"]
NoWrites == [k \in {} |-> Absent]

\* An entry is a key without a value.
Empty == 0

TxInit ==
    /\ data = [k \in DataKey |-> IF k = NodeCounter THEN 0 ELSE Absent]
    /\ tx = [c \in Client |-> NoTx]

----------------------------------------------------------------------------
(* One row of a write, on the contents the transaction sees: how it ends,    *)
(* the keys it reads, and what it has written when it returns.               *)

Step(end, reads, writes) == [end |-> end, reads |-> reads, writes |-> writes]

\* b after a; nothing of b happens when a fails.
Followed(a, b) ==
    IF a.end = "ok" THEN Step(b.end, a.reads \cup b.reads, Over(b.writes, a.writes)) ELSE a

claim(S, v, n) ==
    Step(IF S[UniqueKey(v)] \in {Absent, n} THEN "ok" ELSE "taken", {UniqueKey(v)},
         IF S[UniqueKey(v)] = Absent THEN Pair(UniqueKey(v), n) ELSE NoWrites)

putEntry(S, v, n) == Followed(Step("ok", {}, Pair(PropKey(v, n), Empty)), claim(S, v, n))

delEntry(S, v, n) ==
    Step("ok", {UniqueKey(v)},
         Over(Pair(PropKey(v, n), Absent),
              IF S[UniqueKey(v)] = n THEN Pair(UniqueKey(v), Absent) ELSE NoWrites))

create(S, v) ==
    LET n == S[NodeCounter] + 1
    IN Followed(Step("ok", {NodeCounter}, Over(Pair(NodeCounter, n), Pair(NodeKey(n), v))), putEntry(S, v, n))

\* The entries move first, then the record is written.
set(S, n, v) ==
    LET del == delEntry(S, S[NodeKey(n)], n)
    IN Followed(Followed(Step("ok", {NodeKey(n)}, NoWrites), del),
                Followed(putEntry(Over(del.writes, S), v, n), Step("ok", {}, Pair(NodeKey(n), v))))

runRow(S, row) == IF row[1] = "create" THEN create(S, row[3]) ELSE set(S, row[2], row[3])

----------------------------------------------------------------------------
(* Transactions.                                                           *)

\* What the queries of the transaction see: its own writes over its snapshot.
Seen(t) == Over(t.writes, t.snap)

\* The phase is "failed" after a query that returned an error.
Fresh(kind, tries) ==
    [phase |-> "open", kind |-> kind, snap |-> data, writes |-> NoWrites, reads |-> {},
     stale |-> {}, script |-> <<>>, tries |-> tries]

Call(c, kind) ==
    /\ tx[c].phase = "idle"
    /\ tx' = [tx EXCEPT ![c] = Fresh(kind, 0)]
    /\ UNCHANGED data

\* Mutant of GoesOn: an error of the last query does not stop the function.
GoesOn_AfterError(c) == tx[c].phase \in {"open", "failed"}

\* The function knows how the last query ended.
GoesOn(c) == tx[c].phase = "open" \/ (tx[c].phase = "failed" /\ Swallows)

MayQuery(c) == GoesOn(c) /\ Len(tx[c].script) < MaxQuery

\* A MATCH binds n through an index: a node that is not there gives no row.
Matched(c, n) == Seen(tx[c])[NodeKey(n)] # Absent

QueryRead(c, n) ==
    /\ MayQuery(c) /\ Matched(c, n)
    /\ tx' = [tx EXCEPT ![c] =
                  [tx[c] EXCEPT !.phase = "open", !.reads = tx[c].reads \cup {NodeKey(n)},
                                !.script = Append(tx[c].script, <<"read", n, Seen(tx[c])[NodeKey(n)]>>)]]
    /\ UNCHANGED data

QueryWrite(c, row) ==
    LET e == runRow(Seen(tx[c]), row)
    IN /\ MayQuery(c) /\ tx[c].kind = "update"
       /\ IF row[1] = "create" THEN Seen(tx[c])[NodeCounter] < MaxNode ELSE Matched(c, row[2])
       /\ tx' = [tx EXCEPT ![c] =
                     [tx[c] EXCEPT !.phase = IF e.end = "ok" THEN "open" ELSE "failed",
                                   !.writes = Over(e.writes, tx[c].writes), !.reads = tx[c].reads \cup e.reads,
                                   !.script = Append(tx[c].script, row)]]
       /\ UNCHANGED data

\* ErrReadOnlyTx for a write inside View, or the context ends between two rows.
QueryError(c) ==
    /\ GoesOn(c)
    /\ tx' = [tx EXCEPT ![c].phase = "failed"]
    /\ UNCHANGED data

\* The function returns an error: the transaction is discarded.
FnError(c) ==
    /\ tx[c].phase # "idle"
    /\ tx' = [tx EXCEPT ![c] = NoTx]
    /\ UNCHANGED data

EndView(c) ==
    /\ GoesOn(c) /\ tx[c].kind = "view"
    /\ tx' = [tx EXCEPT ![c] = NoTx]
    /\ UNCHANGED data

Stale(c) == DOMAIN tx[c].writes # {} /\ tx[c].reads \cap tx[c].stale # {}

CommitTx(c) ==
    /\ GoesOn(c) /\ tx[c].kind = "update"
    /\ ~Stale(c)
    /\ data' = Over(tx[c].writes, data)
    /\ tx' = [d \in Client |->
                IF d = c \/ tx[d].phase = "idle" THEN NoTx
                ELSE [tx[d] EXCEPT !.stale = @ \cup DOMAIN tx[c].writes]]

\* Mutant of RetryTx: the function runs again on the old snapshot.
RetryTx_OldSnapshot(c) ==
    /\ GoesOn(c) /\ tx[c].kind = "update"
    /\ Stale(c) /\ tx[c].tries < maxRetries
    /\ tx' = [tx EXCEPT ![c] = [Fresh("update", tx[c].tries + 1) EXCEPT !.snap = tx[c].snap]]
    /\ UNCHANGED data

\* A conflict: the function is called again, on fresh data.
RetryTx(c) ==
    /\ GoesOn(c) /\ tx[c].kind = "update"
    /\ Stale(c) /\ tx[c].tries < maxRetries
    /\ tx' = [tx EXCEPT ![c] = Fresh("update", tx[c].tries + 1)]
    /\ UNCHANGED data

\* ErrConflict.
GiveUp(c) ==
    /\ GoesOn(c) /\ tx[c].kind = "update"
    /\ Stale(c) /\ tx[c].tries >= maxRetries
    /\ tx' = [tx EXCEPT ![c] = NoTx]
    /\ UNCHANGED data

TxNext ==
    \E c \in Client :
        \/ \E kind \in {"update", "view"} : Call(c, kind)
        \/ \E n \in NodeId : QueryRead(c, n)
        \/ \E row \in Write : QueryWrite(c, row)
        \/ QueryError(c) \/ FnError(c) \/ EndView(c)
        \/ CommitTx(c) \/ RetryTx(c) \/ GiveUp(c)

TxSpec == TxInit /\ [][TxNext]_txVars

----------------------------------------------------------------------------
(* Properties.                                                             *)

\* The store holds values its keys can have, and transactions write such keys.
TxTypes ==
    /\ DOMAIN data = DataKey /\ data[NodeCounter] \in 0..MaxNode
    /\ \A n \in NodeId : data[NodeKey(n)] \in Value \cup {Absent}
    /\ \A v \in Value : data[UniqueKey(v)] \in NodeId \cup {Absent}
    /\ \A c \in Client : tx[c].phase # "idle" => DOMAIN tx[c].writes \subseteq DataKey

\* Invariant #1 of the graph layer through Update: in every committed state an
\* index entry stands for the value in the record, and a value's owner is the
\* one node that has it (putPropEntry, delPropEntry, claimValue).
IndexExact ==
    /\ TxTypes
    /\ \A n \in NodeId, v \in Value :
           /\ data[PropKey(v, n)] # Absent <=> data[NodeKey(n)] = v
           /\ data[UniqueKey(v)] = n <=> data[NodeKey(n)] = v

\* The contents after each query of a script, when it is run from S.
Again(S, q) == IF q[1] = "read" THEN S ELSE Over(runRow(S, q).writes, S)
Replay(S, script) ==
    LET after[i \in 0..Len(script)] == IF i = 0 THEN S ELSE Again(after[i - 1], script[i])
    IN after

\* The reads of the script return what they returned.
SameReads(contents, script) ==
    \A i \in 1..Len(script) : script[i][1] = "read" => contents[i - 1][NodeKey(script[i][2])] = script[i][3]

\* "Every query in it commits together": a commit changes the store as if all
\* the function's queries had run at that moment, with the results it saw, so
\* no update is lost between a read and the write that depends on it
\* (DB.Update, Tx.Query).
CommitIsSerial ==
    [][\A c \in Client :
         LET script == tx[c].script
             again == Replay(data, script)
         IN CommitTx(c) /\ DOMAIN tx[c].writes # {} => SameReads(again, script) /\ data' = again[Len(script)]]_txVars
=============================================================================
