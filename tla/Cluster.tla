------------------------------ MODULE Cluster ------------------------------
(***************************************************************************)
(* The replicated database (package cluster): writes staged on the leader  *)
(* and proposed to Raft as write-sets, the state machine that applies them *)
(* to each voter's store, snapshots, restarts, and linearizable reads.     *)
(*                                                                         *)
(* hashicorp/raft is external.  Of it the model keeps: one committed log;  *)
(* leaders with increasing terms, of which only the newest can commit;     *)
(* entries a leader appended that are not committed yet and that the next  *)
(* leader may or may not inherit; an old leader that learns late that it   *)
(* was replaced; state machines that lag behind the log.                   *)
(*                                                                         *)
(* A store maps keys to the statement that last set them.  A write-set     *)
(* sets and deletes keys; `base` is a history variable with the store the  *)
(* statement was staged on, that is, with everything it can have read.     *)
(***************************************************************************)
EXTENDS Integers, Sequences

CONSTANTS Node, Key,
          Bounds          \* what may happen, and how often

ASSUME BoundsAssumption ==
    \A b \in Bounds : /\ b.terms \in Nat \ {0} /\ b.writes \in Nat /\ b.keys \subseteq Key
                      /\ {b.reads, b.restarts, b.failures} \subseteq Nat

VARIABLES bound,          \* one of Bounds, for good
          committed,      \* the committed log
          term, leader,   \* per voter: its last term, whether it believes it leads
          tail, tailAt,   \* uncommitted entries of a voter, and where they start
          applied,        \* per voter: index its state machine has reached
          reached,        \* per voter: highest index ever applied to its store
          store,
          missed,         \* per voter: entries whose Apply failed, for good so far
          snap,           \* per voter: newest snapshot
          restore,        \* per voter: "no", "loading" (store lock held) or "failed"
          writer,         \* per voter: the holder of writeMu
          barrierTerm,
          reader,         \* per voter: a linearizable read
          acked,          \* statements reported committed to their caller
          ackedAt,        \* highest log index among them
          restarts, reads, failures

raftVars == <<bound, committed, term, leader, tail, tailAt>>
fsmVars == <<applied, reached, store, missed, failures, snap, restore>>
writeVars == <<writer, barrierTerm, acked, ackedAt>>
readVars == <<reader, reads>>
vars == <<bound, committed, term, leader, tail, tailAt, applied, reached, store, missed, failures, snap, restore,
          writer, barrierTerm, reader, acked, ackedAt, restarts, reads>>

MaxTerm == bound.terms             \* elections
MaxWrite == bound.writes           \* statements staged
WriteKey == bound.keys             \*   and the keys they write
MaxRead == bound.reads             \* linearizable reads
Entry == bound.entries             \*   and where they enter: "query", "rpc"
MaxRestart == bound.restarts       \* restarts
Snapshots == bound.snapshots       \* whether voters take snapshots
MaxFailure == bound.failures       \* entries that a store fails to apply
LoadMayFail == bound.loadFails     \* whether Store.Load may fail after DropAll

None == 0
Statement == 1..MaxWrite
Store == [Key -> Statement \cup {None}]
Empty == [k \in Key |-> None]

\* A log entry: noops and barriers have no statement.
Mark(t) == [term |-> t, id |-> None, set |-> {}, del |-> {}, base |-> Empty, checked |-> t]
Command(t, id, set, del, base, checked) ==
    [term |-> t, id |-> id, set |-> set, del |-> del, base |-> base, checked |-> checked]

\* Mutant of applyWriteSet: deletions are lost.
applyWriteSet_SetsOnly(e, s) == [k \in Key |-> IF k \in e.set THEN e.id ELSE s[k]]

applyWriteSet(e, s) ==
    [k \in Key |-> IF k \in e.set THEN e.id ELSE IF k \in e.del THEN None ELSE s[k]]

\* The statement that last touched a key in the first i entries, None if it
\* deleted it: what executing the log from an empty store must give.
Touching(i, k) == {j \in 1..i : k \in committed[j].set \cup committed[j].del}
LogStore(i) ==
    [k \in Key |-> IF Touching(i, k) = {} THEN None
                   ELSE LET j == CHOOSE j \in Touching(i, k) : \A h \in Touching(i, k) : h <= j
                        IN IF k \in committed[j].set THEN committed[j].id ELSE None]

IdleWriter == [pc |-> "idle"]
IdleReader == [pc |-> "idle"]
NoSnap == [at |-> 0, reached |-> 0, store |-> Empty, missed |-> {}]

\* Node n0 is elected in term 1 and has committed its noop.
Init ==
    \E n0 \in Node :
        /\ bound \in Bounds
        /\ committed = <<Mark(1)>>
        /\ term = [n \in Node |-> 1]
        /\ leader = [n \in Node |-> n = n0]
        /\ tail = [n \in Node |-> <<>>]
        /\ tailAt = [n \in Node |-> 1]
        /\ applied = [n \in Node |-> 0]
        /\ reached = [n \in Node |-> 0]
        /\ store = [n \in Node |-> Empty]
        /\ missed = [n \in Node |-> {}] /\ failures = 0
        /\ snap = [n \in Node |-> NoSnap]
        /\ restore = [n \in Node |-> "no"]
        /\ writer = [n \in Node |-> IdleWriter]
        /\ barrierTerm = [n \in Node |-> 0]
        /\ reader = [n \in Node |-> IdleReader]
        /\ acked = {} /\ ackedAt = 0
        /\ restarts = 0 /\ reads = 0

----------------------------------------------------------------------------
(* Raft.                                                                   *)

newest == CHOOSE t \in 0..MaxTerm : (\E n \in Node : term[n] = t) /\ \A n \in Node : term[n] <= t

\* A voter with every committed entry wins the next term; it may hold a
\* prefix of what an earlier leader appended.  It appends a noop.
Elect(n) ==
    /\ ~leader[n]
    /\ restore[n] = "no"
    /\ newest < MaxTerm
    /\ \E m \in Node : \E i \in 0..Len(tail[m]) :
           /\ i > 0 => tailAt[m] = Len(committed)
           /\ tail' = [tail EXCEPT ![n] = Append(SubSeq(tail[m], 1, i), Mark(newest + 1))]
    /\ tailAt' = [tailAt EXCEPT ![n] = Len(committed)]
    /\ term' = [term EXCEPT ![n] = newest + 1]
    /\ leader' = [leader EXCEPT ![n] = TRUE]
    /\ UNCHANGED <<bound, committed, fsmVars, writeVars, readVars, restarts>>

\* A leader that hears of a newer term, or of no quorum, steps down.
StepDown(n) ==
    /\ leader[n]
    /\ leader' = [leader EXCEPT ![n] = FALSE]
    /\ UNCHANGED <<bound, committed, term, tail, tailAt, fsmVars, writeVars, readVars, restarts>>

\* A quorum has the leader's entries up to one of its own term.
Replicate(n) ==
    /\ leader[n] /\ term[n] = newest
    /\ \E i \in 1..Len(tail[n]) :
           /\ tail[n][i].term = term[n]
           /\ committed' = committed \o SubSeq(tail[n], 1, i)
           /\ tail' = [tail EXCEPT ![n] = SubSeq(@, i + 1, Len(@))]
           /\ tailAt' = [tailAt EXCEPT ![n] = @ + i]
    /\ UNCHANGED <<bound, term, leader, fsmVars, writeVars, readVars, restarts>>

\* raft.Apply and raft.Barrier append in the term the leader is in by then.
Propose(n, e) == tail' = [tail EXCEPT ![n] = Append(@, e)]
LastIndex(n) == tailAt[n] + Len(tail[n])

\* The entry proposed at an index in a term is committed and applied here.
Settled(n, at, t) == applied[n] >= at /\ committed[at].term = t

\* Its future fails when the leadership it was proposed under is gone.
Lost(n, t) == ~leader[n] \/ term[n] # t

----------------------------------------------------------------------------
(* The state machine.                                                      *)

Apply(n) ==
    /\ applied[n] < Len(committed)
    /\ restore[n] = "no"
    /\ applied' = [applied EXCEPT ![n] = @ + 1]
    /\ reached' = [reached EXCEPT ![n] = IF @ > applied[n] THEN @ ELSE applied[n] + 1]
    /\ store' = [store EXCEPT ![n] = applyWriteSet(committed[applied[n] + 1], @)]
    /\ missed' = [missed EXCEPT ![n] = @ \ {applied[n] + 1}]
    /\ UNCHANGED <<raftVars, failures, snap, restore, writeVars, readVars, restarts>>

\* Store.Update fails: Raft goes on to the next entry, and nothing is written.
ApplyFail(n) ==
    /\ failures < MaxFailure
    /\ applied[n] < Len(committed) /\ committed[applied[n] + 1].id # None
    /\ restore[n] = "no"
    /\ failures' = failures + 1
    /\ applied' = [applied EXCEPT ![n] = @ + 1]
    /\ reached' = [reached EXCEPT ![n] = IF @ > applied[n] THEN @ ELSE applied[n] + 1]
    /\ missed' = [missed EXCEPT ![n] = @ \cup {applied[n] + 1}]
    /\ UNCHANGED <<raftVars, store, snap, restore, writeVars, readVars, restarts>>

Snapshot(n) ==
    /\ Snapshots
    /\ restore[n] = "no"
    /\ applied[n] > snap[n].at
    /\ snap' = [snap EXCEPT ![n] = [at |-> applied[n], reached |-> reached[n], store |-> store[n],
                                        missed |-> missed[n]]]
    /\ UNCHANGED <<raftVars, applied, reached, store, missed, failures, restore, writeVars, readVars, restarts>>

\* Mutant of RestoreBegin: Load runs without the store lock.
RestoreBegin_Unlocked(n, m) ==
    /\ restore[n] # "loading"
    /\ leader[m] /\ ~leader[n]
    /\ snap[m].at > applied[n]
    /\ restore' = [restore EXCEPT ![n] = "no"]
    /\ snap' = [snap EXCEPT ![n] = snap[m]]
    /\ store' = [store EXCEPT ![n] = Empty]
    /\ UNCHANGED <<raftVars, applied, reached, missed, failures, writeVars, readVars, restarts>>

\* A leader that no longer has the entries a voter lacks sends its snapshot:
\* Restore takes the lock and Load drops everything ...
RestoreBegin(n, m) ==
    /\ restore[n] # "loading"
    /\ leader[m] /\ ~leader[n]
    /\ snap[m].at > applied[n]
    /\ restore' = [restore EXCEPT ![n] = "loading"]
    /\ snap' = [snap EXCEPT ![n] = snap[m]]
    /\ store' = [store EXCEPT ![n] = Empty]
    /\ UNCHANGED <<raftVars, applied, reached, missed, failures, writeVars, readVars, restarts>>

\* ... and loads the dump ...
RestoreEnd(n) ==
    /\ restore[n] = "loading"
    /\ restore' = [restore EXCEPT ![n] = "no"]
    /\ store' = [store EXCEPT ![n] = snap[n].store]
    /\ applied' = [applied EXCEPT ![n] = snap[n].at]
    /\ reached' = [reached EXCEPT ![n] = snap[n].reached]
    /\ missed' = [missed EXCEPT ![n] = snap[n].missed]
    /\ UNCHANGED <<raftVars, failures, snap, writeVars, readVars, restarts>>

\* ... or fails part of the way, and the store stays as it is.  The voter
\* still lacks the entries: it cannot apply or lead until a snapshot is loaded.
RestoreFail(n) ==
    /\ LoadMayFail
    /\ restore[n] = "loading"
    /\ restore' = [restore EXCEPT ![n] = "failed"]
    /\ \E loaded \in SUBSET Key :
           store' = [store EXCEPT ![n] = [k \in Key |-> IF k \in loaded THEN snap[n].store[k] ELSE None]]
    /\ UNCHANGED <<raftVars, applied, reached, missed, failures, snap, writeVars, readVars, restarts>>

\* Crash and restart: newNode reopens the durable store and log, and Raft
\* restores the newest snapshot, if there is one, and starts applying from
\* there, that is, from the first entry when there is none.
Restart(n) ==
    /\ restarts < MaxRestart
    /\ restarts' = restarts + 1
    /\ leader' = [leader EXCEPT ![n] = FALSE]
    /\ applied' = [applied EXCEPT ![n] = snap[n].at]
    /\ IF snap[n].at > 0
       THEN /\ store' = [store EXCEPT ![n] = snap[n].store]
            /\ reached' = [reached EXCEPT ![n] = snap[n].reached]
            /\ missed' = [missed EXCEPT ![n] = snap[n].missed]
       ELSE UNCHANGED <<store, reached, missed>>
    /\ restore' = [restore EXCEPT ![n] = "no"]
    /\ writer' = [writer EXCEPT ![n] = IdleWriter]
    /\ barrierTerm' = [barrierTerm EXCEPT ![n] = 0]
    /\ reader' = [reader EXCEPT ![n] = IdleReader]
    /\ UNCHANGED <<bound, committed, term, tail, tailAt, failures, snap, acked, ackedAt, reads>>

----------------------------------------------------------------------------
(* ApplyWrite.                                                             *)

writeFrame == <<bound, committed, term, leader, tailAt, fsmVars, readVars, restarts>>

Return(n) == writer' = [writer EXCEPT ![n] = IdleWriter]

\* The next statement: the ones before it are in the log or on their way to it.
NextId ==
    LET used == {committed[i].id : i \in 1..Len(committed)}
                    \cup UNION {{tail[n][i].id : i \in 1..Len(tail[n])} : n \in Node}
                    \cup {writer[n].id : n \in {m \in Node : writer[m].pc \in {"propose", "wait"}}}
        last == CHOOSE i \in used \cup {None} : \A j \in used : j <= i
    IN last + 1

\* Mutant of WriteBegin: the first write of a term does not wait.
WriteBegin_NoBarrier(n) ==
    /\ writer[n].pc = "idle" /\ leader[n]
    /\ NextId \in Statement
    /\ writer' = [writer EXCEPT ![n] = [pc |-> "stage", seen |-> term[n]]]
    /\ UNCHANGED <<barrierTerm, acked, ackedAt, tail, writeFrame>>

\* writeMu, the leader check, and the term compared with barrierTerm.
WriteBegin(n) ==
    /\ writer[n].pc = "idle" /\ leader[n]
    /\ NextId \in Statement
    /\ writer' = [writer EXCEPT ![n] =
           [pc |-> IF term[n] = barrierTerm[n] THEN "stage" ELSE "catchUp", seen |-> term[n]]]
    /\ UNCHANGED <<barrierTerm, acked, ackedAt, tail, writeFrame>>

\* raft.Barrier: refused when the leadership is gone by now.
WriteBarrier(n) ==
    /\ writer[n].pc = "catchUp"
    /\ IF leader[n]
       THEN /\ Propose(n, Mark(term[n]))
            /\ writer' = [writer EXCEPT ![n] = [pc |-> "barrier", seen |-> @.seen,
                              at |-> LastIndex(n) + 1, term |-> term[n]]]
       ELSE Return(n) /\ UNCHANGED tail
    /\ UNCHANGED <<barrierTerm, acked, ackedAt, writeFrame>>

BarrierDone(n) ==
    /\ writer[n].pc = "barrier"
    /\ Settled(n, writer[n].at, writer[n].term)
    /\ barrierTerm' = [barrierTerm EXCEPT ![n] = writer[n].seen]
    /\ writer' = [writer EXCEPT ![n] = [pc |-> "stage", seen |-> @.seen]]
    /\ UNCHANGED <<acked, ackedAt, tail, writeFrame>>

\* The statement runs on a transaction that is rolled back; recordTxn keeps
\* its write-set.  One without writes, or one that fails, ends here.
Stage(n) ==
    /\ writer[n].pc = "stage"
    /\ restore[n] # "loading"
    /\ \/ Return(n)
       \/ /\ NextId \in Statement
          /\ \E set, del \in SUBSET WriteKey :
              /\ set \cap del = {} /\ set \cup del # {}
              /\ writer' = [writer EXCEPT ![n] = [pc |-> "propose", id |-> NextId, set |-> set,
                                del |-> del, base |-> store[n], checked |-> @.seen]]
    /\ UNCHANGED <<barrierTerm, acked, ackedAt, tail, writeFrame>>

\* raft.Apply: by now this voter may lead in another term than it staged in.
WritePropose(n) ==
    /\ writer[n].pc = "propose"
    /\ IF leader[n]
       THEN LET w == writer[n]
            IN /\ Propose(n, Command(term[n], w.id, w.set, w.del, w.base, w.checked))
               /\ writer' = [writer EXCEPT ![n] = [pc |-> "wait", id |-> w.id,
                                 at |-> LastIndex(n) + 1, term |-> term[n]]]
       ELSE Return(n) /\ UNCHANGED tail
    /\ UNCHANGED <<barrierTerm, acked, ackedAt, writeFrame>>

\* Mutant of WriteDone: success is reported once the entry is appended.
WriteDone_OnAppend(n) ==
    /\ writer[n].pc = "wait"
    /\ acked' = acked \cup {writer[n].id}
    /\ ackedAt' = IF writer[n].at > ackedAt THEN writer[n].at ELSE ackedAt
    /\ Return(n)
    /\ UNCHANGED <<barrierTerm, tail, writeFrame>>

WriteDone(n) ==
    /\ writer[n].pc = "wait"
    /\ Settled(n, writer[n].at, writer[n].term)
    /\ acked' = acked \cup {writer[n].id}
    /\ ackedAt' = IF writer[n].at > ackedAt THEN writer[n].at ELSE ackedAt
    /\ Return(n)
    /\ UNCHANGED <<barrierTerm, tail, writeFrame>>

\* Mutant of WriteFail: the futures of a deposed leader are never answered.
WriteFail_Ignored(n) == FALSE /\ UNCHANGED vars

\* ErrLeadershipLost, for the barrier or for the write: the write may still
\* commit later.
WriteFail(n) ==
    /\ writer[n].pc \in {"barrier", "wait"}
    /\ Lost(n, writer[n].term)
    /\ Return(n)
    /\ UNCHANGED <<barrierTerm, acked, ackedAt, tail, writeFrame>>

----------------------------------------------------------------------------
(* Linearizable reads.                                                     *)

readFrame == <<bound, committed, term, leader, tailAt, fsmVars, writeVars, restarts>>

\* Mutant of ReadBegin: the RPC handler reads without a barrier.
ReadBegin_NoBarrier(n, entry) ==
    /\ reader[n].pc = "idle" /\ leader[n]
    /\ reads < MaxRead
    /\ reads' = reads + 1
    /\ reader' = [reader EXCEPT ![n] = [pc |-> "view", must |-> ackedAt]]
    /\ UNCHANGED <<tail, readFrame>>

\* DB.Query on the leader decides not to forward; the RPC handler goes to
\* its barrier.  A voter that does not lead forwards instead.
ReadBegin(n, entry) ==
    /\ reader[n].pc = "idle" /\ leader[n]
    /\ reads < MaxRead
    /\ reads' = reads + 1
    /\ reader' = [reader EXCEPT ![n] =
           [pc |-> IF entry = "query" THEN "check" ELSE "barrierCall", must |-> ackedAt]]
    /\ UNCHANGED <<tail, readFrame>>

\* DB.Query asks IsLeader a second time before ReadBarrier.
ReadCheck(n) ==
    /\ reader[n].pc = "check"
    /\ reader' = [reader EXCEPT ![n].pc = IF leader[n] THEN "barrierCall" ELSE "view"]
    /\ UNCHANGED <<tail, reads, readFrame>>

ReadBarrier(n) ==
    /\ reader[n].pc = "barrierCall"
    /\ IF leader[n]
       THEN /\ Propose(n, Mark(term[n]))
            /\ reader' = [reader EXCEPT ![n] = [pc |-> "barrier", must |-> @.must,
                              at |-> LastIndex(n) + 1, term |-> term[n]]]
       ELSE reader' = [reader EXCEPT ![n] = IdleReader] /\ UNCHANGED tail
    /\ UNCHANGED <<reads, readFrame>>

ReadBarrierDone(n) ==
    /\ reader[n].pc = "barrier"
    /\ \/ /\ Settled(n, reader[n].at, reader[n].term)
          /\ reader' = [reader EXCEPT ![n] = [pc |-> "view", must |-> @.must]]
       \/ /\ Lost(n, reader[n].term)
          /\ reader' = [reader EXCEPT ![n] = IdleReader]
    /\ UNCHANGED <<tail, reads, readFrame>>

\* View: what the reader sees is what the state machine has applied.
View(n) ==
    /\ reader[n].pc = "view"
    /\ restore[n] # "loading"
    /\ reader' = [reader EXCEPT ![n] = [pc |-> "seen", must |-> @.must, saw |-> applied[n]]]
    /\ UNCHANGED <<tail, reads, readFrame>>

ReadEnd(n) ==
    /\ reader[n].pc = "seen"
    /\ reader' = [reader EXCEPT ![n] = IdleReader]
    /\ UNCHANGED <<tail, reads, readFrame>>

----------------------------------------------------------------------------
NodeStep(n) ==
    \/ Apply(n) \/ ApplyFail(n) \/ RestoreEnd(n) \/ RestoreFail(n)
    \/ WriteBarrier(n) \/ BarrierDone(n) \/ Stage(n) \/ WritePropose(n) \/ WriteDone(n) \/ WriteFail(n)
    \/ ReadCheck(n) \/ ReadBarrier(n) \/ ReadBarrierDone(n) \/ View(n) \/ ReadEnd(n)

Next ==
    \E n \in Node :
        \/ Elect(n) \/ StepDown(n) \/ Replicate(n)
        \/ Snapshot(n) \/ Restart(n)
        \/ \E m \in Node : RestoreBegin(n, m)
        \/ WriteBegin(n)
        \/ \E entry \in Entry : ReadBegin(n, entry)
        \/ NodeStep(n)

\* The newest leader reaches a quorum, an old one learns that it is deposed
\* (Raft's heartbeats and lease), and goroutines that can go on do.
Fairness ==
    \A n \in Node :
        /\ WF_vars(Replicate(n))
        /\ WF_vars(term[n] < newest /\ StepDown(n))
        /\ WF_vars(Apply(n)) /\ WF_vars(RestoreEnd(n))
        /\ WF_vars(WriteBarrier(n) \/ BarrierDone(n) \/ Stage(n)
                       \/ WritePropose(n) \/ WriteDone(n) \/ WriteFail(n))
        /\ WF_vars(ReadCheck(n) \/ ReadBarrier(n) \/ ReadBarrierDone(n) \/ View(n) \/ ReadEnd(n))

Spec == Init /\ [][Next]_vars /\ Fairness

----------------------------------------------------------------------------
(* What the cluster promises.                                              *)

TypeOK ==
    /\ \A i \in 1..Len(committed) : committed[i].id \in Statement \cup {None}
    /\ term \in [Node -> 0..MaxTerm] /\ leader \in [Node -> BOOLEAN]
    /\ \A n \in Node : applied[n] \in 0..Len(committed) /\ reached[n] \in 0..Len(committed)
    /\ store \in [Node -> Store]
    /\ restore \in [Node -> {"no", "loading", "failed"}]
    /\ barrierTerm \in [Node -> 0..MaxTerm]
    /\ acked \subseteq Statement /\ ackedAt \in 0..Len(committed)

\* Once a voter has reapplied everything its store ever had, the store is the
\* one the log describes: replaying old write-sets over newer data after a
\* restart, and snapshots taken meanwhile, leave no trace, nor does an entry that
\* failed once and was applied in the end, or came with a snapshot (fsm.Apply,
\* Snapshot, Restore).
StoreMatchesLog ==
    \A n \in Node :
        restore[n] = "no" /\ applied[n] >= reached[n] /\ missed[n] = {} => store[n] = LogStore(applied[n])

\* README, "possibly slightly stale local snapshots": what a View can see is
\* the store after some prefix of the log, no shorter than what was applied.
ServedStatesArePrefixes ==
    \A n \in Node : restore[n] # "loading" => \E i \in applied[n]..Len(committed) : store[n] = LogStore(i)

\* So it is as long as no voter restarted and no store failed, snapshots that
\* are being installed included (Restore holds the store lock).
ServedWithoutFaults ==
    restarts = 0 /\ failures = 0 /\ (\A n \in Node : restore[n] # "failed") => ServedStatesArePrefixes

\* A statement proposed in the term ApplyWrite checked was staged on exactly
\* the state its entry is applied to: writeMu and the barrier of each term
\* make the statements of one leadership serializable, while stores do not fail.
SerialInTerm ==
    failures = 0 => \A i \in 1..Len(committed) :
        LET e == committed[i]
        IN e.id # None /\ e.checked = e.term => e.base = LogStore(i - 1)

\* The comment on writeMu, "each statement sees the fully-applied state of
\* all prior writes", for every statement that commits.
SerialWrites ==
    \A i \in 1..Len(committed) :
        committed[i].id # None => committed[i].base = LogStore(i - 1)

\* A write reported to its caller is committed, where it was proposed, and every
\* variable holds what it can hold: no replica is ahead of the committed log
\* (ApplyWrite, fsm.Apply).
AckedCommitted == TypeOK /\ acked \subseteq {committed[i].id : i \in 1..Len(committed)}

\* The store of the voter that reports a write has it: "apply" is what ApplyWrite
\* waits for ("stage->propose->apply").
AckedApplied == \A n \in Node : leader[n] => \A i \in missed[n] : committed[i].id \notin acked

\* A linearizable read sees every write acknowledged before it began.
LinearizableReads ==
    \A n \in Node : reader[n].pc = "seen" => reader[n].saw >= reader[n].must

\* ApplyWrite returns, whatever happens to the leadership: writeMu is never
\* held forever.
WritesEnd == \A n \in Node : writer[n].pc # "idle" ~> writer[n].pc = "idle"

\* So does a linearizable read that waits for its barrier (ReadBarrier).
ReadsEnd == \A n \in Node : reader[n].pc # "idle" ~> reader[n].pc = "idle"
=============================================================================
