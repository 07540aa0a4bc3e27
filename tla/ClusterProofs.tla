--------------------------- MODULE ClusterProofs ---------------------------
(*****************************************************************************)
(* The stores of the voters are what the committed log describes: the state  *)
(* machine of package cluster, its snapshots, restarts and failed writes,    *)
(* for any voters, keys, terms, writes, reads, restarts and failures.        *)
(*                                                                           *)
(* Then what callers are told: a write that ApplyWrite reports is committed, *)
(* and a read behind a barrier sees every write acknowledged before it.  And *)
(* the statements of a leadership are serializable: writeMu and the barrier  *)
(* of each term, for any elections, restarts and snapshots.                  *)
(*                                                                           *)
(* First what every proof about the cluster rests on: the store that a log   *)
(* describes, types, what a step does to the logs, and elections.            *)
(*****************************************************************************)
EXTENDS Cluster, WellFoundedInduction, TLAPS

-----------------------------------------------------------------------------
(* The last of finitely many positions.                                    *)

\* A nonempty set of naturals has a least element ...
LEMMA LeastOf ==
    ASSUME NEW S, S \subseteq Nat, S # {}
    PROVE  \E least \in S : \A other \in S : least <= other
<1> DEFINE R == {ss \in Nat \X Nat : ss[1] < ss[2]}
<1>1. IsWellFoundedOn(R, Nat)
  BY Zenon, NatLessThanWellFounded DEF OpToRel
<1> HIDE DEF R
<1>2. PICK least \in S : \A other \in S : ~(<<other, least>> \in R)
  BY Zenon, <1>1, WFMin
<1>3. ASSUME NEW other \in S
      PROVE  least <= other
  <2>1. least \in Nat /\ other \in Nat
    BY Zenon
  <2>2. <<other, least>> \notin R
    BY Zenon, <1>2
  <2> QED BY <2>1, <2>2 DEF R
<1> QED BY Zenon, <1>3

\* ... and, when bounded, a greatest one.
LEMMA GreatestOf ==
    ASSUME NEW n \in Nat, NEW S, S \subseteq 1..n, S # {}
    PROVE  \E most \in S : \A other \in S : other <= most
<1> DEFINE Gaps == {n - j : j \in S}
<1>1. \A j \in S : n - j \in Nat
  OBVIOUS
<1>2. Gaps \subseteq Nat /\ Gaps # {}
  BY Zenon, <1>1
<1>3. PICK gap \in Gaps : \A other \in Gaps : gap <= other
  <2> HIDE DEF Gaps
  <2> QED BY Zenon, <1>2, LeastOf
<1>4. PICK most \in S : gap = n - most
  BY Zenon
<1>5. ASSUME NEW other \in S
      PROVE  other <= most
  <2>1. n - other \in Gaps
    BY Zenon
  <2>2. n - most <= n - other
    BY Zenon, <1>3, <1>4, <2>1
  <2> QED BY <2>2
<1> QED BY Zenon, <1>5

-----------------------------------------------------------------------------
(* The store that a log describes: LogStore for any log.                   *)

Touches(log, j, k) == k \in log[j].set \cup log[j].del
StoreOf(log, i) ==
    [k \in Key |->
        LET touching == {j \in 1..i : Touches(log, j, k)}
        IN IF touching = {} THEN None
           ELSE LET j == CHOOSE j \in touching : \A h \in touching : h <= j
                IN IF k \in log[j].set THEN log[j].id ELSE None]

\* LogStore is the store of the committed log.
LEMMA LogStoreOf ==
    ASSUME NEW i
    PROVE  LogStore(i) = StoreOf(committed, i)
BY Zenon DEF LogStore, StoreOf, Touching, Touches

\* An untouched key has no value, and the last entry that touches a key decides it.
LEMMA Untouched ==
    ASSUME NEW log, NEW i \in Nat, NEW k \in Key, \A j \in 1..i : ~Touches(log, j, k)
    PROVE  StoreOf(log, i)[k] = None
BY Zenon DEF StoreOf

\* A key that entries touch holds what the last of them says.
LEMMA LastTouch ==
    ASSUME NEW log, NEW i \in Nat, NEW k \in Key, NEW j \in 1..i,
           Touches(log, j, k), \A h \in (j + 1)..i : ~Touches(log, h, k)
    PROVE  StoreOf(log, i)[k] = IF k \in log[j].set THEN log[j].id ELSE None
<1> DEFINE touching == {h \in 1..i : Touches(log, h, k)}
           last == CHOOSE l \in touching : \A h \in touching : h <= l
<1>1. j \in touching /\ \A h \in touching : h <= j
  OBVIOUS
<1>2. last \in touching /\ \A h \in touching : h <= last
  BY Zenon, <1>1
<1>3. last = j
  BY <1>1, <1>2
<1> QED BY Zenon, <1>1, <1>3 DEF StoreOf

\* Logs that touch a key alike give it the same value.
Alike(log1, i1, log2, i2, k) ==
    /\ \A j \in 1..i1 : Touches(log1, j, k) => j <= i2 /\ log2[j] = log1[j]
    /\ \A j \in 1..i2 : Touches(log2, j, k) => j <= i1 /\ log2[j] = log1[j]

\* Logs that touch a key alike give it the same value.
LEMMA SameTouches ==
    ASSUME NEW log1, NEW log2, NEW i1 \in Nat, NEW i2 \in Nat, NEW k \in Key, Alike(log1, i1, log2, i2, k)
    PROVE  StoreOf(log1, i1)[k] = StoreOf(log2, i2)[k]
<1> USE DEF Alike
<1> DEFINE touching == {j \in 1..i1 : Touches(log1, j, k)}
<1>1. CASE touching = {}
  <2>1. \A j \in 1..i1 : ~Touches(log1, j, k)
    BY Zenon, <1>1
  <2>2. \A j \in 1..i2 : ~Touches(log2, j, k)
    BY <2>1 DEF Touches
  <2> QED BY Zenon, <2>1, <2>2, Untouched
<1>2. CASE touching # {}
  <2>1. PICK last \in touching : \A j \in touching : j <= last
    <3>1. touching \subseteq 1..i1
      BY Zenon
    <3> HIDE DEF touching
    <3> QED BY Zenon, <1>2, <3>1, GreatestOf
  <2>2. last \in 1..i1 /\ Touches(log1, last, k) /\ \A h \in (last + 1)..i1 : ~Touches(log1, h, k)
    BY <2>1
  <2>3. last \in 1..i2 /\ log2[last] = log1[last]
    BY <2>2
  <2>4. Touches(log2, last, k)
    BY Zenon, <2>2, <2>3 DEF Touches
  <2>5. ASSUME NEW h \in (last + 1)..i2
        PROVE  ~Touches(log2, h, k)
    <3>1. h \in 1..i2
      BY <2>3
    <3> SUFFICES ASSUME Touches(log2, h, k) PROVE FALSE
      BY Zenon
    <3>2. h <= i1 /\ log2[h] = log1[h]
      BY Zenon, <3>1
    <3>3. Touches(log1, h, k) /\ h \in (last + 1)..i1
      BY <3>1, <3>2 DEF Touches
    <3> QED BY Zenon, <2>2, <3>3
  <2>6. StoreOf(log1, i1)[k] = IF k \in log1[last].set THEN log1[last].id ELSE None
    BY <2>2, LastTouch
  <2>7. StoreOf(log2, i2)[k] = IF k \in log2[last].set THEN log2[last].id ELSE None
    BY <2>3, <2>4, <2>5, LastTouch
  <2> QED BY Zenon, <2>3, <2>6, <2>7
<1> QED BY Zenon, <1>1, <1>2

-----------------------------------------------------------------------------
(* Types.                                                                  *)

LogEntry == [term : Nat, id : Statement \cup {None}, set : SUBSET Key, del : SUBSET Key,
             base : Store, checked : Nat]
SnapState == [at : Nat, reached : Nat, store : Store, missed : SUBSET Nat]
WriterState ==
    [pc : {"idle"}] \cup [pc : {"catchUp", "stage"}, seen : Nat]
        \cup [pc : {"barrier"}, seen : Nat, at : Nat, term : Nat]
        \cup [pc : {"propose"}, id : Statement, set : SUBSET Key, del : SUBSET Key, base : Store, checked : Nat]
        \cup [pc : {"wait"}, id : Statement, at : Nat, term : Nat]
ReaderState ==
    [pc : {"idle"}] \cup [pc : {"check", "barrierCall", "view"}, must : Nat]
        \cup [pc : {"barrier"}, must : Nat, at : Nat, term : Nat] \cup [pc : {"seen"}, must : Nat, saw : Nat]

RaftTypes ==
    /\ bound \in Bounds
    /\ committed \in Seq(LogEntry)
    /\ term \in [Node -> 1..MaxTerm] /\ leader \in [Node -> BOOLEAN]
    /\ \E n \in Node : \A m \in Node : term[m] <= term[n]
    /\ tail \in [Node -> Seq(LogEntry)] /\ tailAt \in [Node -> Nat]
FsmTypes ==
    /\ applied \in [Node -> Nat] /\ reached \in [Node -> Nat]
    /\ store \in [Node -> Store]
    /\ missed \in [Node -> SUBSET Nat] /\ failures \in Nat
    /\ snap \in [Node -> SnapState]
    /\ restore \in [Node -> {"no", "loading", "failed"}]
CallTypes ==
    /\ writer \in [Node -> WriterState] /\ barrierTerm \in [Node -> Nat]
    /\ reader \in [Node -> ReaderState]
    /\ acked \subseteq Statement /\ ackedAt \in Nat
    /\ restarts \in Nat /\ reads \in Nat
Types == RaftTypes /\ FsmTypes /\ CallTypes

\* The bounds are for good, and with them what depends on them.
LEMMA BoundsKept ==
    ASSUME bound' = bound
    PROVE  /\ MaxTerm' = MaxTerm /\ MaxWrite' = MaxWrite
           /\ Statement' = Statement /\ Store' = Store
           /\ LogEntry' = LogEntry /\ SnapState' = SnapState /\ WriterState' = WriterState
BY Zenon DEF MaxTerm, MaxWrite, Statement, Store, LogEntry, SnapState, WriterState

\* What the assumption says of the bounds of a behaviour.
LEMMA BoundTypes ==
    ASSUME bound \in Bounds
    PROVE  /\ MaxTerm \in Nat \ {0} /\ MaxWrite \in Nat /\ WriteKey \subseteq Key
           /\ MaxRead \in Nat /\ MaxRestart \in Nat /\ MaxFailure \in Nat
BY Zenon, BoundsAssumption DEF MaxTerm, MaxWrite, WriteKey, MaxRead, MaxRestart, MaxFailure

\* Commands and marks are log entries.
LEMMA EntryTypes ==
    /\ Empty \in Store
    /\ \A t \in Nat : Mark(t) \in LogEntry
    /\ \A t, checked \in Nat, id \in Statement, set, del \in SUBSET Key, base \in Store :
           Command(t, id, set, del, base, checked) \in LogEntry
BY Zenon DEF Empty, Store, None, Mark, Command, LogEntry

\* Terms are naturals.
LEMMA TermTypes ==
    ASSUME RaftTypes
    PROVE  MaxTerm \in Nat \ {0} /\ \A n \in Node : term[n] \in Nat \ {0}
<1>1. MaxTerm \in Nat \ {0}
  BY Zenon, BoundTypes DEF RaftTypes
<1> QED BY <1>1 DEF RaftTypes

\* What newest chooses, whatever the terms.
LEMMA NewestOf ==
    ASSUME NEW max \in Nat, NEW terms \in [Node -> 1..max], NEW top \in Node, \A n \in Node : terms[n] <= terms[top]
    PROVE  (CHOOSE t \in 0..max : (\E n \in Node : terms[n] = t) /\ \A n \in Node : terms[n] <= t) = terms[top]
<1> DEFINE IsNewest(t) == (\E n \in Node : terms[n] = t) /\ \A n \in Node : terms[n] <= t
           chosen == CHOOSE t \in 0..max : IsNewest(t)
<1>1. terms[top] \in 0..max /\ IsNewest(terms[top])
  OBVIOUS
<1>2. chosen \in 0..max /\ IsNewest(chosen)
  BY Zenon, <1>1
<1>3. PICK n \in Node : terms[n] = chosen
  BY Zenon, <1>2
<1>4. chosen <= terms[top] /\ terms[top] <= chosen
  BY Zenon, <1>2, <1>3
<1>5. chosen = terms[top]
  <2> HIDE DEF chosen
  <2> QED BY <1>1, <1>2, <1>4
<1> QED BY Zenon, <1>5

\* newest bounds every term and is one of them.
LEMMA NewestTerm ==
    ASSUME RaftTypes
    PROVE  /\ newest \in 1..MaxTerm /\ newest \in Nat
           /\ \A n \in Node : term[n] <= newest
           /\ \E n \in Node : term[n] = newest
<1>1. PICK top \in Node : \A m \in Node : term[m] <= term[top]
  BY Zenon DEF RaftTypes
<1>2. MaxTerm \in Nat /\ term \in [Node -> 1..MaxTerm]
  BY Zenon, TermTypes DEF RaftTypes
<1>3. newest = term[top]
  BY Zenon, <1>1, <1>2, NewestOf DEF newest
<1> QED BY <1>1, <1>2, <1>3

\* Applying an entry to a store gives a store.
LEMMA AppliedType ==
    ASSUME NEW e \in LogEntry, NEW s \in Store
    PROVE  applyWriteSet(e, s) \in Store
BY Zenon DEF applyWriteSet, Store, LogEntry, None

-----------------------------------------------------------------------------
(* What a step does to the logs: besides Elect and Replicate, a voter stops *)
(* leading, or appends an entry of its term while it leads.                *)

Lower(n) == leader' = [leader EXCEPT ![n] = FALSE] /\ UNCHANGED <<bound, committed, term, tail, tailAt>>
Appends(n, e) == leader[n] /\ e.term = term[n] /\ Propose(n, e) /\ UNCHANGED <<bound, committed, term, leader, tailAt>>
Sent(n) == Command(term[n], writer[n].id, writer[n].set, writer[n].del, writer[n].base, writer[n].checked)
Reason(n, e) == e = Mark(term[n]) \/ (WritePropose(n) /\ e = Sent(n))

\* What a step may do to the logs, terms and leaderships.
LEMMA RaftSteps ==
    ASSUME Types, [Next]_vars
    PROVE  \/ UNCHANGED raftVars
           \/ \E n \in Node : \/ Elect(n) \/ Lower(n) \/ Replicate(n)
                              \/ \E e \in LogEntry : Appends(n, e) /\ Reason(n, e)
<1>1. CASE UNCHANGED vars
  BY Zenon, <1>1 DEF vars, raftVars
<1>2. CASE Next
  <2>1. PICK n \in Node :
            \/ Elect(n) \/ StepDown(n) \/ Replicate(n) \/ Snapshot(n) \/ Restart(n)
            \/ \E m \in Node : RestoreBegin(n, m)
            \/ WriteBegin(n)
            \/ \E entry \in Entry : ReadBegin(n, entry)
            \/ NodeStep(n)
    BY Zenon, <1>2 DEF Next
  <2>2. CASE Elect(n) \/ Replicate(n)
    BY Zenon, <2>2
  <2>3. CASE StepDown(n) \/ Restart(n)
    BY Zenon, <2>3 DEF StepDown, Restart, Lower
  <2>4. CASE \/ Snapshot(n) \/ (\E m \in Node : RestoreBegin(n, m))
             \/ Apply(n) \/ ApplyFail(n) \/ RestoreEnd(n) \/ RestoreFail(n)
    BY Zenon, <2>4 DEF Snapshot, RestoreBegin, Apply, ApplyFail, RestoreEnd, RestoreFail, raftVars
  <2>5. CASE WriteBegin(n) \/ BarrierDone(n) \/ Stage(n) \/ WriteDone(n) \/ WriteFail(n)
    BY Zenon, <2>5 DEF WriteBegin, BarrierDone, Stage, WriteDone, WriteFail, writeFrame, raftVars
  <2>6. CASE \/ (\E entry \in Entry : ReadBegin(n, entry))
             \/ ReadCheck(n) \/ ReadBarrierDone(n) \/ View(n) \/ ReadEnd(n)
    BY Zenon, <2>6 DEF ReadBegin, ReadCheck, ReadBarrierDone, View, ReadEnd, readFrame, raftVars
  <2>7. CASE WriteBarrier(n) \/ ReadBarrier(n)
    <3>1. Mark(term[n]) \in LogEntry /\ Mark(term[n]).term = term[n]
      BY Zenon, EntryTypes, TermTypes DEF Types, Mark
    <3>2. \/ UNCHANGED raftVars
          \/ Appends(n, Mark(term[n]))
      BY Zenon, <2>7, <3>1 DEF WriteBarrier, ReadBarrier, writeFrame, readFrame, raftVars, Appends
    <3> QED BY Zenon, <3>1, <3>2 DEF Reason
  <2>8. CASE WritePropose(n)
    <3>1. CASE ~leader[n]
      BY Zenon, <2>8, <3>1 DEF WritePropose, writeFrame, raftVars
    <3>2. CASE leader[n]
      <4> DEFINE w == writer[n]
                 e == Command(term[n], w.id, w.set, w.del, w.base, w.checked)
      <4>1. w \in [pc : {"propose"}, id : Statement, set : SUBSET Key, del : SUBSET Key, base : Store, checked : Nat]
        BY Zenon, <2>8 DEF WritePropose, Types, CallTypes, WriterState
      <4>2. e \in LogEntry /\ e.term = term[n]
        <5>1. term[n] \in Nat
          BY Zenon, TermTypes DEF Types
        <5>2. e \in LogEntry
          BY Zenon, <4>1, <5>1, EntryTypes
        <5> QED BY Zenon, <5>2 DEF Command
      <4>3. Appends(n, e)
        BY Zenon, <2>8, <3>2, <4>2 DEF WritePropose, writeFrame, Appends
      <4>4. Reason(n, e)
        BY Zenon, <2>8 DEF Reason, Sent
      <4> QED BY Zenon, <4>2, <4>3, <4>4
    <3> QED BY Zenon, <3>1, <3>2
  <2> QED BY Zenon, <2>1, <2>2, <2>3, <2>4, <2>5, <2>6, <2>7, <2>8 DEF NodeStep
<1> QED BY Zenon, <1>1, <1>2

\* An election keeps the types of the raft state ...
LEMMA ElectTypes ==
    ASSUME RaftTypes, NEW n \in Node, Elect(n)
    PROVE  /\ RaftTypes'
           /\ newest' = newest + 1
<1>1. newest \in Nat \ {0} /\ newest + 1 \in 1..MaxTerm /\ \A m \in Node : term[m] <= newest
  <2>1. newest \in 1..MaxTerm /\ newest < MaxTerm
    BY Zenon, NewestTerm DEF Elect
  <2> QED BY <2>1, NewestTerm, TermTypes
<1>2. bound' = bound /\ MaxTerm' = MaxTerm /\ LogEntry' = LogEntry
  BY Zenon, BoundsKept DEF Elect
<1>3. PICK m \in Node : \E i \in 0..Len(tail[m]) :
          tail' = [tail EXCEPT ![n] = Append(SubSeq(tail[m], 1, i), Mark(newest + 1))]
  BY Zenon DEF Elect
<1>. PICK i \in 0..Len(tail[m]) : tail' = [tail EXCEPT ![n] = Append(SubSeq(tail[m], 1, i), Mark(newest + 1))]
  BY Zenon, <1>3
<1>4. SubSeq(tail[m], 1, i) \in Seq(LogEntry) /\ Mark(newest + 1) \in LogEntry
  BY <1>1, EntryTypes DEF RaftTypes
<1>5. tail' \in [Node -> Seq(LogEntry)]
  BY SMTT(30), <1>3, <1>4 DEF RaftTypes
<1>6. term' = [term EXCEPT ![n] = newest + 1]
  BY Zenon DEF Elect
<1>7. term \in [Node -> 1..MaxTerm] /\ \A o \in Node : term[o] \in Nat
  BY Zenon, TermTypes DEF RaftTypes
<1>8. term' \in [Node -> 1..MaxTerm] /\ term'[n] = newest + 1 /\ \A o \in Node : term'[o] <= term'[n]
  BY <1>1, <1>6, <1>7
<1>9. MaxTerm' \in Nat /\ term' \in [Node -> 1..MaxTerm']
  BY Zenon, <1>2, <1>8, TermTypes
<1>10. newest' = term'[n]
  BY Zenon, <1>8, <1>9, NewestOf DEF newest
<1>11. leader' \in [Node -> BOOLEAN] /\ tailAt' \in [Node -> Nat] /\ committed' \in Seq(LogEntry) /\ bound' \in Bounds
  BY SMTT(30) DEF Elect, RaftTypes
<1>12. RaftTypes'
  BY Zenon, <1>2, <1>5, <1>8, <1>11 DEF RaftTypes
<1> QED BY Zenon, <1>8, <1>10, <1>12

\* ... and so does every step.
LEMMA RaftTypesStep ==
    ASSUME Types, [Next]_vars
    PROVE  RaftTypes' /\ bound' = bound
<1> USE DEF Types
<1>1. CASE UNCHANGED raftVars
  BY Zenon, <1>1, BoundsKept DEF raftVars, RaftTypes
<1>2. ASSUME NEW n \in Node, Elect(n)
      PROVE  RaftTypes' /\ bound' = bound
  BY Zenon, <1>2, ElectTypes DEF Elect
<1>3. ASSUME NEW n \in Node, Lower(n)
      PROVE  RaftTypes' /\ bound' = bound
  BY Zenon, <1>3, BoundsKept DEF Lower, RaftTypes
<1>4. ASSUME NEW n \in Node, Replicate(n)
      PROVE  RaftTypes' /\ bound' = bound
  <2>1. bound' = bound /\ MaxTerm' = MaxTerm /\ LogEntry' = LogEntry
    BY Zenon, <1>4, BoundsKept DEF Replicate
  <2>2. PICK i \in 1..Len(tail[n]) :
            /\ committed' = committed \o SubSeq(tail[n], 1, i)
            /\ tail' = [tail EXCEPT ![n] = SubSeq(@, i + 1, Len(@))]
            /\ tailAt' = [tailAt EXCEPT ![n] = @ + i]
    BY Zenon, <1>4 DEF Replicate
  <2>3. tail[n] \in Seq(LogEntry) /\ SubSeq(tail[n], 1, i) \in Seq(LogEntry) /\ SubSeq(tail[n], i + 1, Len(tail[n])) \in Seq(LogEntry)
    BY DEF RaftTypes
  <2>4. committed' \in Seq(LogEntry) /\ tail' \in [Node -> Seq(LogEntry)] /\ tailAt' \in [Node -> Nat]
    BY SMTT(30), <2>2, <2>3 DEF RaftTypes
  <2> QED BY Zenon, <1>4, <2>1, <2>4 DEF Replicate, RaftTypes
<1>5. ASSUME NEW n \in Node, NEW e \in LogEntry, Appends(n, e)
      PROVE  RaftTypes' /\ bound' = bound
  BY <1>5, BoundsKept DEF Appends, Propose, RaftTypes
<1> QED BY Zenon, <1>1, <1>2, <1>3, <1>4, <1>5, RaftSteps

\* What a step does to the state machines and to the calls.
LEMMA FsmTypesStep ==
    ASSUME Types, [Next]_vars
    PROVE  FsmTypes'
<1> USE DEF Types, FsmTypes
<1>1. bound' = bound /\ Store' = Store /\ SnapState' = SnapState
  BY Zenon, RaftTypesStep, BoundsKept
<1>2. CASE UNCHANGED fsmVars
  BY Zenon, <1>1, <1>2 DEF fsmVars
<1>3. ASSUME NEW n \in Node, Apply(n) \/ ApplyFail(n)
      PROVE  FsmTypes'
  <2>1. applied[n] + 1 \in 1..Len(committed) /\ committed \in Seq(LogEntry)
    BY SMTT(30), <1>3 DEF Apply, ApplyFail, RaftTypes
  <2>2. applyWriteSet(committed[applied[n] + 1], store[n]) \in Store
    BY <2>1, AppliedType
  <2>3. store' \in [Node -> Store]
    BY Zenon, <1>3, <2>2 DEF Apply, ApplyFail
  <2>4. applied' \in [Node -> Nat] /\ reached' \in [Node -> Nat] /\ failures' \in Nat
    <3>1. (IF reached[n] > applied[n] THEN reached[n] ELSE applied[n] + 1) \in Nat
      OBVIOUS
    <3>2. failures' = failures \/ failures' = failures + 1
      BY Zenon, <1>3 DEF Apply, ApplyFail
    <3>3. /\ applied' = [applied EXCEPT ![n] = @ + 1]
          /\ reached' = [reached EXCEPT ![n] = IF @ > applied[n] THEN @ ELSE applied[n] + 1]
      BY Zenon, <1>3 DEF Apply, ApplyFail
    <3> QED BY <3>1, <3>2, <3>3
  <2>5. missed[n] \ {applied[n] + 1} \in SUBSET Nat /\ missed[n] \cup {applied[n] + 1} \in SUBSET Nat
    BY <2>1
  <2>6. missed' \in [Node -> SUBSET Nat]
    BY Zenon, <1>3, <2>5 DEF Apply, ApplyFail
  <2> QED BY Zenon, <1>1, <1>3, <2>3, <2>4, <2>6 DEF Apply, ApplyFail
<1>4. ASSUME NEW n \in Node, Snapshot(n)
      PROVE  FsmTypes'
  <2>1. snap' \in [Node -> SnapState]
    BY Zenon, <1>4 DEF Snapshot, SnapState
  <2> QED BY Zenon, <1>1, <1>4, <2>1 DEF Snapshot
<1>5. ASSUME NEW n \in Node, NEW m \in Node, RestoreBegin(n, m)
      PROVE  FsmTypes'
  BY Zenon, <1>1, <1>5, EntryTypes DEF RestoreBegin
<1>6. ASSUME NEW n \in Node, RestoreEnd(n) \/ Restart(n)
      PROVE  FsmTypes'
  <2>1. /\ snap[n].at \in Nat /\ snap[n].reached \in Nat
        /\ snap[n].store \in Store /\ snap[n].missed \in SUBSET Nat
    BY Zenon DEF SnapState
  <2> QED BY Zenon, <1>1, <1>6, <2>1 DEF RestoreEnd, Restart
<1>7. ASSUME NEW n \in Node, RestoreFail(n)
      PROVE  FsmTypes'
  <2>1. PICK loaded \in SUBSET Key :
            store' = [store EXCEPT ![n] = [k \in Key |-> IF k \in loaded THEN snap[n].store[k] ELSE None]]
    BY Zenon, <1>7 DEF RestoreFail
  <2>2. snap[n].store \in Store
    BY Zenon DEF SnapState
  <2>3. [k \in Key |-> IF k \in loaded THEN snap[n].store[k] ELSE None] \in Store
    BY Zenon, <2>2 DEF Store
  <2> QED BY Zenon, <1>1, <1>7, <2>1, <2>3 DEF RestoreFail
<1>8. UNCHANGED vars => UNCHANGED fsmVars
  BY Zenon DEF vars, fsmVars
<1>9. ASSUME NEW n \in Node, \/ Elect(n) \/ StepDown(n) \/ Replicate(n) \/ WriteBegin(n)
                             \/ (\E entry \in Entry : ReadBegin(n, entry))
                             \/ WriteBarrier(n) \/ BarrierDone(n) \/ Stage(n) \/ WritePropose(n) \/ WriteDone(n) \/ WriteFail(n)
                             \/ ReadCheck(n) \/ ReadBarrier(n) \/ ReadBarrierDone(n) \/ View(n) \/ ReadEnd(n)
      PROVE  UNCHANGED fsmVars
  BY Zenon, <1>9 DEF Elect, StepDown, Replicate, WriteBegin, ReadBegin, WriteBarrier, BarrierDone, Stage, WritePropose, WriteDone, WriteFail,
      ReadCheck, ReadBarrier, ReadBarrierDone, View, ReadEnd, writeFrame, readFrame
<1> QED BY Zenon, <1>2, <1>3, <1>4, <1>5, <1>6, <1>7, <1>8, <1>9 DEF Next, NodeStep

\* The states that a call starts from have their types.
LEMMA CallStates ==
    /\ IdleWriter \in WriterState /\ IdleReader \in ReaderState
    /\ \A i, t, u \in Nat : /\ [pc |-> "catchUp", seen |-> t] \in WriterState
                            /\ [pc |-> "stage", seen |-> t] \in WriterState
                            /\ [pc |-> "barrier", seen |-> t, at |-> i, term |-> u] \in WriterState
    /\ \A i, t \in Nat, c \in Statement : [pc |-> "wait", id |-> c, at |-> i, term |-> t] \in WriterState
    /\ \A i, m, t \in Nat : /\ [pc |-> "check", must |-> m] \in ReaderState
                            /\ [pc |-> "barrierCall", must |-> m] \in ReaderState
                            /\ [pc |-> "view", must |-> m] \in ReaderState
                            /\ [pc |-> "barrier", must |-> m, at |-> i, term |-> t] \in ReaderState
                            /\ [pc |-> "seen", must |-> m, saw |-> i] \in ReaderState
BY Zenon DEF IdleWriter, IdleReader, WriterState, ReaderState

\* The last index of a log is a natural.
LEMMA LastIndexType ==
    ASSUME RaftTypes, NEW n \in Node
    PROVE  LastIndex(n) \in Nat /\ LastIndex(n) + 1 \in Nat
<1>1. tailAt[n] \in Nat /\ tail[n] \in Seq(LogEntry)
  BY Zenon DEF RaftTypes
<1>2. Len(tail[n]) \in Nat
  BY <1>1
<1> QED BY <1>1, <1>2 DEF LastIndex

\* The record of a reader when only its state changes.
LEMMA CheckedReader ==
    ASSUME NEW must, NEW pc
    PROVE  [[pc |-> "check", must |-> must] EXCEPT !.pc = pc] = [pc |-> pc, must |-> must]
OBVIOUS

\* Every step keeps the types of the calls under way.
LEMMA CallTypesStep ==
    ASSUME Types, [Next]_vars
    PROVE  CallTypes'
<1> USE DEF Types, CallTypes
<1>1. bound' = bound /\ Statement' = Statement /\ WriterState' = WriterState
  BY Zenon, RaftTypesStep, BoundsKept
<1>2. CASE UNCHANGED <<writeVars, readVars, restarts>>
  BY Zenon, <1>1, <1>2 DEF writeVars, readVars
<1>3. ASSUME NEW n \in Node, Restart(n)
      PROVE  CallTypes'
  <2>1. restarts' = restarts + 1 /\ UNCHANGED <<acked, ackedAt, reads>>
    BY Zenon, <1>3 DEF Restart
  <2>2. writer' = [writer EXCEPT ![n] = IdleWriter] /\ reader' = [reader EXCEPT ![n] = IdleReader]
    BY Zenon, <1>3 DEF Restart
  <2>3. barrierTerm' = [barrierTerm EXCEPT ![n] = 0]
    BY Zenon, <1>3 DEF Restart
  <2>4. writer' \in [Node -> WriterState] /\ reader' \in [Node -> ReaderState] /\ barrierTerm' \in [Node -> Nat]
    BY Zenon, <2>2, <2>3, CallStates
  <2> QED BY <1>1, <2>1, <2>4
<1>4. ASSUME NEW n \in Node, UNCHANGED <<readVars, restarts>>, UNCHANGED <<barrierTerm, acked, ackedAt>>,
             NEW w \in WriterState, writer' = [writer EXCEPT ![n] = w]
      PROVE  CallTypes'
  BY Zenon, <1>1, <1>4 DEF readVars
<1>5. IdleWriter \in WriterState
  BY Zenon, CallStates
<1>6. ASSUME NEW n \in Node, WriteBegin(n)
      PROVE  CallTypes'
  <2>1. [pc |-> IF term[n] = barrierTerm[n] THEN "stage" ELSE "catchUp", seen |-> term[n]] \in WriterState
    BY Zenon, TermTypes, CallStates
  <2> QED BY Zenon, <1>4, <1>6, <2>1 DEF WriteBegin, writeFrame
<1>7. ASSUME NEW n \in Node, WriteBarrier(n)
      PROVE  CallTypes'
  <2>1. writer[n].seen \in Nat /\ LastIndex(n) + 1 \in Nat /\ term[n] \in Nat
    BY Zenon, <1>7, TermTypes, LastIndexType DEF WriteBarrier, WriterState
  <2>2. [pc |-> "barrier", seen |-> writer[n].seen, at |-> LastIndex(n) + 1, term |-> term[n]] \in WriterState
    BY Zenon, <2>1, CallStates
  <2> QED BY Zenon, <1>4, <1>5, <1>7, <2>2 DEF WriteBarrier, Return, writeFrame
<1>8. ASSUME NEW n \in Node, BarrierDone(n)
      PROVE  CallTypes'
  <2>1. writer[n].seen \in Nat
    BY Zenon, <1>8 DEF BarrierDone, WriterState
  <2>2. [pc |-> "stage", seen |-> writer[n].seen] \in WriterState
    BY Zenon, <2>1, CallStates
  <2> QED BY Zenon, <1>1, <1>8, <2>1, <2>2 DEF BarrierDone, writeFrame, readVars
<1>9. ASSUME NEW n \in Node, Stage(n)
      PROVE  CallTypes'
  <2>1. writer[n].seen \in Nat /\ store[n] \in Store /\ WriteKey \subseteq Key
    BY Zenon, <1>9, BoundTypes DEF Stage, WriterState, FsmTypes, RaftTypes
  <2>2. PICK w \in WriterState : writer' = [writer EXCEPT ![n] = w]
    BY Zenon, <1>5, <1>9, <2>1 DEF Stage, Return, WriterState
  <2> QED BY Zenon, <1>4, <1>9, <2>2 DEF Stage, writeFrame
<1>10. ASSUME NEW n \in Node, WritePropose(n)
       PROVE  CallTypes'
  <2>1. writer[n].id \in Statement /\ LastIndex(n) + 1 \in Nat /\ term[n] \in Nat
    BY Zenon, <1>10, TermTypes, LastIndexType DEF WritePropose, WriterState
  <2>2. [pc |-> "wait", id |-> writer[n].id, at |-> LastIndex(n) + 1, term |-> term[n]] \in WriterState
    BY Zenon, <2>1, CallStates
  <2> QED BY Zenon, <1>4, <1>5, <1>10, <2>2 DEF WritePropose, Return, writeFrame
<1>11. ASSUME NEW n \in Node, WriteDone(n)
       PROVE  CallTypes'
  <2>1. writer[n].id \in Statement /\ writer[n].at \in Nat
    BY Zenon, <1>11 DEF WriteDone, WriterState
  <2> QED BY Zenon, <1>1, <1>5, <1>11, <2>1 DEF WriteDone, Return, writeFrame, readVars
<1>12. ASSUME NEW n \in Node, WriteFail(n)
       PROVE  CallTypes'
  BY Zenon, <1>4, <1>5, <1>12 DEF WriteFail, Return, writeFrame
<1>13. ASSUME NEW n \in Node, UNCHANGED <<writeVars, restarts>>, reads' \in Nat,
              NEW r \in ReaderState, reader' = [reader EXCEPT ![n] = r]
       PROVE  CallTypes'
  BY Zenon, <1>1, <1>13 DEF writeVars
<1>14. IdleReader \in ReaderState
  BY Zenon, CallStates
<1>15. ASSUME NEW n \in Node, NEW entry, ReadBegin(n, entry)
       PROVE  CallTypes'
  <2>1. [pc |-> IF entry = "query" THEN "check" ELSE "barrierCall", must |-> ackedAt] \in ReaderState
    BY Zenon, CallStates
  <2>2. reads' \in Nat
    <3>1. reads' = reads + 1
      BY Zenon, <1>15 DEF ReadBegin
    <3> QED BY <3>1
  <2> QED BY Zenon, <1>13, <1>15, <2>1, <2>2 DEF ReadBegin, readFrame
<1>16. ASSUME NEW n \in Node, ReadCheck(n)
       PROVE  CallTypes'
  <2>1. PICK must \in Nat : reader[n] = [pc |-> "check", must |-> must]
    BY Zenon, <1>16 DEF ReadCheck, ReaderState
  <2>2. CASE leader[n]
    <3>1. [reader[n] EXCEPT !.pc = "barrierCall"] = [pc |-> "barrierCall", must |-> must]
      BY Zenon, <2>1, CheckedReader
    <3>2. reader' = [reader EXCEPT ![n].pc = "barrierCall"]
      BY Zenon, <1>16, <2>2 DEF ReadCheck
    <3>3. reader' = [reader EXCEPT ![n] = [pc |-> "barrierCall", must |-> must]]
      BY Zenon, <3>1, <3>2
    <3> QED BY Zenon, <1>13, <1>16, <3>3, CallStates DEF ReadCheck, readFrame
  <2>3. CASE ~leader[n]
    <3>1. [reader[n] EXCEPT !.pc = "view"] = [pc |-> "view", must |-> must]
      BY Zenon, <2>1, CheckedReader
    <3>2. reader' = [reader EXCEPT ![n].pc = "view"]
      BY Zenon, <1>16, <2>3 DEF ReadCheck
    <3>3. reader' = [reader EXCEPT ![n] = [pc |-> "view", must |-> must]]
      BY Zenon, <3>1, <3>2
    <3> QED BY Zenon, <1>13, <1>16, <3>3, CallStates DEF ReadCheck, readFrame
  <2> QED BY Zenon, <2>2, <2>3
<1>17. ASSUME NEW n \in Node, ReadBarrier(n)
       PROVE  CallTypes'
  <2>1. reader[n].must \in Nat /\ LastIndex(n) + 1 \in Nat /\ term[n] \in Nat
    BY Zenon, <1>17, TermTypes, LastIndexType DEF ReadBarrier, ReaderState
  <2>2. [pc |-> "barrier", must |-> reader[n].must, at |-> LastIndex(n) + 1, term |-> term[n]] \in ReaderState
    BY Zenon, <2>1, CallStates
  <2> QED BY Zenon, <1>13, <1>14, <1>17, <2>2 DEF ReadBarrier, readFrame
<1>18. ASSUME NEW n \in Node, ReadBarrierDone(n)
       PROVE  CallTypes'
  <2>1. reader[n].must \in Nat
    BY Zenon, <1>18 DEF ReadBarrierDone, ReaderState
  <2>2. [pc |-> "view", must |-> reader[n].must] \in ReaderState
    BY Zenon, <2>1, CallStates
  <2> QED BY Zenon, <1>13, <1>14, <1>18, <2>2 DEF ReadBarrierDone, readFrame
<1>19. ASSUME NEW n \in Node, View(n)
       PROVE  CallTypes'
  <2>1. reader[n].must \in Nat /\ applied[n] \in Nat
    BY Zenon, <1>19 DEF View, ReaderState, FsmTypes
  <2>2. [pc |-> "seen", must |-> reader[n].must, saw |-> applied[n]] \in ReaderState
    BY Zenon, <2>1, CallStates
  <2> QED BY Zenon, <1>13, <1>19, <2>2 DEF View, readFrame
<1>20. ASSUME NEW n \in Node, ReadEnd(n)
       PROVE  CallTypes'
  BY Zenon, <1>13, <1>14, <1>20 DEF ReadEnd, readFrame
<1>21. ASSUME NEW n \in Node, \/ Elect(n) \/ StepDown(n) \/ Replicate(n) \/ Snapshot(n)
                              \/ (\E m \in Node : RestoreBegin(n, m))
                              \/ Apply(n) \/ ApplyFail(n) \/ RestoreEnd(n) \/ RestoreFail(n)
       PROVE  UNCHANGED <<writeVars, readVars, restarts>>
  BY Zenon, <1>21 DEF Elect, StepDown, Replicate, Snapshot, RestoreBegin, Apply, ApplyFail, RestoreEnd, RestoreFail
<1>22. UNCHANGED vars => UNCHANGED <<writeVars, readVars, restarts>>
  BY Zenon DEF vars, writeVars, readVars
<1> QED
  BY Zenon, <1>2, <1>3, <1>6, <1>7, <1>8, <1>9, <1>10, <1>11, <1>12, <1>15, <1>16, <1>17, <1>18, <1>19, <1>20, <1>21, <1>22
  DEF Next, NodeStep

\* Type correctness is inductive ...
LEMMA TypesStep ==
    ASSUME Types, [Next]_vars
    PROVE  Types'
BY Zenon, RaftTypesStep, FsmTypesStep, CallTypesStep DEF Types

\* ... and holds at the start.
LEMMA TypesInit ==
    ASSUME Init
    PROVE  Types
<1>1. MaxTerm \in Nat \ {0} /\ bound \in Bounds
  BY Zenon, BoundTypes DEF Init
<1>2. Mark(1) \in LogEntry /\ Empty \in Store
  BY Zenon, EntryTypes
<1>3. committed \in Seq(LogEntry)
  BY <1>2 DEF Init
<1>4. RaftTypes
  BY <1>1, <1>3 DEF Init, RaftTypes
<1>5. FsmTypes
  BY <1>2 DEF Init, FsmTypes, SnapState, NoSnap
<1>6. CallTypes
  <2>1. /\ writer = [n \in Node |-> IdleWriter] /\ reader = [n \in Node |-> IdleReader]
        /\ barrierTerm = [n \in Node |-> 0] /\ acked = {} /\ ackedAt = 0 /\ restarts = 0 /\ reads = 0
    BY Zenon DEF Init
  <2> QED BY Zenon, <2>1, CallStates DEF CallTypes
<1> QED BY Zenon, <1>4, <1>5, <1>6 DEF Types

-----------------------------------------------------------------------------
(* Elections.  An entry is logged at an index when the committed log has it *)
(* there, or the tail of some voter.                                       *)

Logged(j, e) ==
    \/ j \in 1..Len(committed) /\ committed[j] = e
    \/ \E m \in Node : \E p \in 1..Len(tail[m]) : j = tailAt[m] + p /\ tail[m][p] = e

\* One leader per term, whose log is the longest with entries of the term; the
\* newest one has all committed entries.
Elections ==
    /\ \A n, m \in Node : leader[n] /\ leader[m] /\ term[n] = term[m] => n = m
    /\ \A n \in Node : tailAt[n] <= Len(committed)
    /\ \A n \in Node : leader[n] /\ term[n] = newest => tailAt[n] = Len(committed)
    /\ \A j \in Nat, e \in LogEntry : Logged(j, e) =>
           /\ e.term <= newest
           /\ \A n \in Node : leader[n] /\ e.term = term[n] => j <= LastIndex(n)

\* The log of a voter that is elected ...
LEMMA ElectLog ==
    ASSUME RaftTypes, NEW n \in Node, Elect(n)
    PROVE  \E m \in Node : \E i \in 0..Len(tail[m]) :
               /\ i > 0 => tailAt[m] = Len(committed)
               /\ tail'[n] = Append(SubSeq(tail[m], 1, i), Mark(newest + 1))
               /\ Len(tail'[n]) = i + 1 /\ tail'[n][i + 1] = Mark(newest + 1)
               /\ \A p \in 1..i : tail'[n][p] = tail[m][p]
               /\ committed' = committed /\ tailAt'[n] = Len(committed)
               /\ \A o \in Node \ {n} : tail'[o] = tail[o] /\ tailAt'[o] = tailAt[o]
<1>1. PICK m \in Node : \E i \in 0..Len(tail[m]) :
          /\ i > 0 => tailAt[m] = Len(committed)
          /\ tail' = [tail EXCEPT ![n] = Append(SubSeq(tail[m], 1, i), Mark(newest + 1))]
  BY Zenon DEF Elect
<1>2. PICK i \in 0..Len(tail[m]) :
          /\ i > 0 => tailAt[m] = Len(committed)
          /\ tail' = [tail EXCEPT ![n] = Append(SubSeq(tail[m], 1, i), Mark(newest + 1))]
  BY Zenon, <1>1
<1>3. tail[m] \in Seq(LogEntry) /\ Len(tail[m]) \in Nat /\ i \in Nat /\ Mark(newest + 1) \in LogEntry
  BY SMTT(30), NewestTerm, EntryTypes DEF RaftTypes
<1>4. tail'[n] = Append(SubSeq(tail[m], 1, i), Mark(newest + 1))
  BY Zenon, <1>2 DEF RaftTypes
<1> DEFINE s == SubSeq(tail[m], 1, i)
<1>5. s \in Seq(LogEntry) /\ Len(s) = i /\ \A p \in 1..i : s[p] = tail[m][p]
  BY <1>3
<1> HIDE DEF s
<1>6. Len(tail'[n]) = i + 1 /\ tail'[n][i + 1] = Mark(newest + 1) /\ \A p \in 1..i : tail'[n][p] = tail[m][p]
  BY <1>3, <1>4, <1>5 DEF s
<1>7. committed' = committed /\ tailAt'[n] = Len(committed) /\ \A o \in Node \ {n} : tail'[o] = tail[o] /\ tailAt'[o] = tailAt[o]
  BY Zenon, <1>2 DEF Elect, RaftTypes
<1> QED BY Zenon, <1>2, <1>4, <1>6, <1>7

\* ... of a leader that commits entries ...
LEMMA ReplicateLog ==
    ASSUME RaftTypes, NEW n \in Node, Replicate(n)
    PROVE  \E i \in 1..Len(tail[n]) :
               /\ Len(committed') = Len(committed) + i
               /\ \A j \in 1..Len(committed) : committed'[j] = committed[j]
               /\ \A p \in 1..i : committed'[Len(committed) + p] = tail[n][p]
               /\ Len(tail'[n]) = Len(tail[n]) - i /\ tailAt'[n] = tailAt[n] + i
               /\ \A p \in 1..Len(tail'[n]) : tail'[n][p] = tail[n][p + i]
               /\ \A o \in Node \ {n} : tail'[o] = tail[o] /\ tailAt'[o] = tailAt[o]
<1>1. PICK i \in 1..Len(tail[n]) :
          /\ committed' = committed \o SubSeq(tail[n], 1, i)
          /\ tail' = [tail EXCEPT ![n] = SubSeq(@, i + 1, Len(@))]
          /\ tailAt' = [tailAt EXCEPT ![n] = @ + i]
  BY Zenon DEF Replicate
<1>2. tail[n] \in Seq(LogEntry) /\ Len(tail[n]) \in Nat /\ committed \in Seq(LogEntry) /\ Len(committed) \in Nat
  BY DEF RaftTypes
<1> DEFINE s == SubSeq(tail[n], 1, i)
           r == SubSeq(tail[n], i + 1, Len(tail[n]))
<1>3. s \in Seq(LogEntry) /\ Len(s) = i /\ \A p \in 1..i : s[p] = tail[n][p]
  BY <1>2
<1>4. r \in Seq(LogEntry) /\ Len(r) = Len(tail[n]) - i /\ \A p \in 1..Len(r) : r[p] = tail[n][p + i]
  BY <1>2
<1>5. committed' = committed \o s /\ tail' = [tail EXCEPT ![n] = r] /\ tailAt' = [tailAt EXCEPT ![n] = @ + i]
  BY Zenon, <1>1
<1> HIDE DEF s, r
<1>6. /\ Len(committed') = Len(committed) + i
      /\ \A j \in 1..Len(committed) : committed'[j] = committed[j]
      /\ \A p \in 1..i : committed'[Len(committed) + p] = tail[n][p]
  <2>1. Len(committed') = Len(committed) + i /\ \A j \in 1..Len(committed) : committed'[j] = committed[j]
    <3>1. Len(committed \o s) = Len(committed) + Len(s)
      BY <1>2, <1>3
    <3>2. \A j \in 1..Len(committed) : (committed \o s)[j] = committed[j]
      BY <1>2, <1>3
    <3> QED BY Zenon, <1>3, <1>5, <3>1, <3>2
  <2>2. ASSUME NEW p \in 1..i
        PROVE  committed'[Len(committed) + p] = tail[n][p]
    <3>1. i \in Nat /\ p \in Nat /\ Len(committed) + p \in (Len(committed) + 1)..(Len(committed) + Len(s))
      BY <1>2, <1>3
    <3>2. (committed \o s)[Len(committed) + p] = s[(Len(committed) + p) - Len(committed)]
      BY <1>2, <1>3, <3>1
    <3>3. (Len(committed) + p) - Len(committed) = p
      BY <1>2, <3>1
    <3> QED BY Zenon, <1>3, <1>5, <3>2, <3>3
  <2> QED BY Zenon, <2>1, <2>2
<1>7. tail'[n] = r /\ tailAt'[n] = tailAt[n] + i /\ \A o \in Node \ {n} : tail'[o] = tail[o] /\ tailAt'[o] = tailAt[o]
  BY Zenon, <1>5 DEF RaftTypes
<1> QED BY Zenon, <1>4, <1>6, <1>7

\* ... and of one that appends an entry.
LEMMA AppendLog ==
    ASSUME RaftTypes, NEW n \in Node, NEW e \in LogEntry, Propose(n, e)
    PROVE  /\ Len(tail'[n]) = Len(tail[n]) + 1 /\ tail'[n][Len(tail[n]) + 1] = e
           /\ \A p \in 1..Len(tail[n]) : tail'[n][p] = tail[n][p]
           /\ \A o \in Node \ {n} : tail'[o] = tail[o]
<1>1. tail[n] \in Seq(LogEntry) /\ tail' = [tail EXCEPT ![n] = Append(@, e)]
  BY Zenon DEF RaftTypes, Propose
<1>2. tail'[n] = Append(tail[n], e) /\ \A o \in Node \ {n} : tail'[o] = tail[o]
  BY Zenon, <1>1 DEF RaftTypes
<1> QED BY <1>1, <1>2

\* What is logged after a step was logged there before, or is the noop of the
\* voter elected, or the entry appended.
LEMMA ElectLogged ==
    ASSUME RaftTypes, NEW n \in Node, Elect(n), NEW j \in Nat, NEW e, Logged(j, e)'
    PROVE  Logged(j, e) \/ (e = Mark(newest + 1) /\ j = LastIndex(n)')
<1>1. PICK m \in Node : \E i \in 0..Len(tail[m]) :
               /\ i > 0 => tailAt[m] = Len(committed)
               /\ tail'[n] = Append(SubSeq(tail[m], 1, i), Mark(newest + 1))
               /\ Len(tail'[n]) = i + 1 /\ tail'[n][i + 1] = Mark(newest + 1)
               /\ \A p \in 1..i : tail'[n][p] = tail[m][p]
               /\ committed' = committed /\ tailAt'[n] = Len(committed)
               /\ \A o \in Node \ {n} : tail'[o] = tail[o] /\ tailAt'[o] = tailAt[o]
  BY Zenon, ElectLog
<1>2. PICK i \in 0..Len(tail[m]) :
               /\ i > 0 => tailAt[m] = Len(committed)
               /\ Len(tail'[n]) = i + 1 /\ tail'[n][i + 1] = Mark(newest + 1)
               /\ \A p \in 1..i : tail'[n][p] = tail[m][p]
               /\ committed' = committed /\ tailAt'[n] = Len(committed)
               /\ \A o \in Node \ {n} : tail'[o] = tail[o] /\ tailAt'[o] = tailAt[o]
  BY Zenon, <1>1
<1>3. i \in Nat /\ Len(tail[m]) \in Nat
  BY DEF RaftTypes
<1>4. CASE j \in 1..Len(committed') /\ committed'[j] = e
  BY Zenon, <1>2, <1>4 DEF Logged
<1>5. ASSUME NEW o \in Node, NEW p \in 1..Len(tail'[o]), j = tailAt'[o] + p, tail'[o][p] = e
      PROVE  Logged(j, e) \/ (e = Mark(newest + 1) /\ j = LastIndex(n)')
  <2>1. CASE o # n
    BY Zenon, <1>2, <1>5, <2>1 DEF Logged
  <2>2. CASE o = n /\ p = i + 1
    BY Zenon, <1>2, <1>5, <2>2 DEF LastIndex
  <2>3. CASE o = n /\ p # i + 1
    <3>1. p \in 1..i /\ i > 0
      BY <1>2, <1>3, <1>5, <2>3
    <3>2. p \in 1..Len(tail[m]) /\ tail[m][p] = e /\ j = tailAt[m] + p
      BY SMTT(30), <1>2, <1>3, <1>5, <2>3, <3>1
    <3> QED BY Zenon, <3>2 DEF Logged
  <2> QED BY Zenon, <2>1, <2>2, <2>3
<1> QED BY Zenon, <1>4, <1>5 DEF Logged

\* What is logged after a replication was logged before.
LEMMA ReplicateLogged ==
    ASSUME RaftTypes, Elections, NEW n \in Node, Replicate(n)
    PROVE  /\ \A j \in Nat : \A e : Logged(j, e)' => Logged(j, e)
           /\ \A m \in Node : LastIndex(m)' = LastIndex(m)
           /\ tailAt'[n] = Len(committed') /\ Len(committed) < Len(committed')
           /\ \A m \in Node \ {n} : tailAt'[m] = tailAt[m]
<1>1. PICK i \in 1..Len(tail[n]) :
               /\ Len(committed') = Len(committed) + i
               /\ \A j \in 1..Len(committed) : committed'[j] = committed[j]
               /\ \A p \in 1..i : committed'[Len(committed) + p] = tail[n][p]
               /\ Len(tail'[n]) = Len(tail[n]) - i /\ tailAt'[n] = tailAt[n] + i
               /\ \A p \in 1..Len(tail'[n]) : tail'[n][p] = tail[n][p + i]
               /\ \A o \in Node \ {n} : tail'[o] = tail[o] /\ tailAt'[o] = tailAt[o]
  BY Zenon, ReplicateLog
<1>2. i \in Nat /\ Len(tail[n]) \in Nat /\ Len(committed) \in Nat /\ tailAt[n] = Len(committed)
  BY DEF RaftTypes, Elections, Replicate
<1>3. ASSUME NEW j \in Nat, NEW e, j \in 1..Len(committed'), committed'[j] = e
      PROVE  Logged(j, e)
  <2>1. CASE j <= Len(committed)
    BY <1>1, <1>2, <1>3, <2>1 DEF Logged
  <2>2. CASE j > Len(committed)
    <3>1. j - Len(committed) \in 1..i /\ j = Len(committed) + (j - Len(committed))
      BY <1>1, <1>2, <1>3, <2>2
    <3>2. tail[n][j - Len(committed)] = e /\ j - Len(committed) \in 1..Len(tail[n]) /\ j = tailAt[n] + (j - Len(committed))
      BY <1>1, <1>2, <1>3, <3>1
    <3> QED BY Zenon, <3>2 DEF Logged
  <2> QED BY <1>2, <2>1, <2>2
<1>4. ASSUME NEW j \in Nat, NEW e, NEW o \in Node, NEW p \in 1..Len(tail'[o]), j = tailAt'[o] + p, tail'[o][p] = e
      PROVE  Logged(j, e)
  <2>1. CASE o # n
    BY Zenon, <1>1, <1>4, <2>1 DEF Logged
  <2>2. CASE o = n
    <3>1. p + i \in 1..Len(tail[n]) /\ tail[n][p + i] = e /\ j = tailAt[n] + (p + i)
      <4>1. p \in 1..(Len(tail[n]) - i) /\ j = (tailAt[n] + i) + p /\ tail'[n][p] = e /\ p \in 1..Len(tail'[n])
        BY Zenon, <1>1, <1>4, <2>2
      <4>2. tail[n][p + i] = e
        BY Zenon, <1>1, <4>1
      <4>3. p \in Nat /\ tailAt[n] \in Nat
        BY <1>2, <4>1
      <4>4. p + i \in 1..Len(tail[n])
        BY <1>2, <4>1, <4>3
      <4>5. j = tailAt[n] + (p + i)
        BY <1>2, <4>1, <4>3
      <4> QED BY Zenon, <4>2, <4>4, <4>5
    <3> QED BY Zenon, <3>1 DEF Logged
  <2> QED BY Zenon, <2>1, <2>2
<1>5. ASSUME NEW j \in Nat, NEW e, Logged(j, e)'
      PROVE  Logged(j, e)
  <2>1. CASE j \in 1..Len(committed') /\ committed'[j] = e
    BY Zenon, <1>3, <2>1
  <2>2. CASE \E m \in Node : \E p \in 1..Len(tail'[m]) : j = tailAt'[m] + p /\ tail'[m][p] = e
    BY Zenon, <1>4, <2>2
  <2> QED BY Zenon, <1>5, <2>1, <2>2 DEF Logged
<1>6. ASSUME NEW m \in Node
      PROVE  LastIndex(m)' = LastIndex(m)
  <2>1. CASE m = n
    BY <1>1, <1>2, <2>1 DEF LastIndex
  <2>2. CASE m # n
    BY Zenon, <1>1, <2>2 DEF LastIndex
  <2> QED BY Zenon, <2>1, <2>2
<1> QED BY <1>1, <1>2, <1>5, <1>6

\* What is logged after an append was logged before, or is the new entry.
LEMMA AppendLogged ==
    ASSUME RaftTypes, NEW n \in Node, NEW e \in LogEntry, Propose(n, e), UNCHANGED <<committed, tailAt>>
    PROVE  /\ \A j \in Nat : \A f : Logged(j, f)' => Logged(j, f) \/ (f = e /\ j = LastIndex(n) + 1)
           /\ LastIndex(n)' = LastIndex(n) + 1
           /\ \A m \in Node \ {n} : LastIndex(m)' = LastIndex(m)
<1>1. /\ Len(tail'[n]) = Len(tail[n]) + 1 /\ tail'[n][Len(tail[n]) + 1] = e
      /\ \A p \in 1..Len(tail[n]) : tail'[n][p] = tail[n][p]
      /\ \A o \in Node \ {n} : tail'[o] = tail[o]
  BY Zenon, AppendLog
<1>2. Len(tail[n]) \in Nat /\ tailAt[n] \in Nat
  BY DEF RaftTypes
<1>3. ASSUME NEW j \in Nat, NEW f, NEW o \in Node, NEW p \in 1..Len(tail'[o]), j = tailAt'[o] + p, tail'[o][p] = f
      PROVE  Logged(j, f) \/ (f = e /\ j = LastIndex(n) + 1)
  <2>1. CASE o # n
    BY Zenon, <1>1, <1>3, <2>1 DEF Logged
  <2>2. CASE o = n /\ p = Len(tail[n]) + 1
    <3>1. f = e
      BY Zenon, <1>1, <1>3, <2>2
    <3>2. j = tailAt[n] + (Len(tail[n]) + 1)
      BY Zenon, <1>3, <2>2
    <3>3. j = LastIndex(n) + 1
      BY <1>2, <3>2 DEF LastIndex
    <3> QED BY Zenon, <3>1, <3>3
  <2>3. CASE o = n /\ p # Len(tail[n]) + 1
    <3>1. p \in 1..Len(tail[n]) /\ tail[n][p] = f /\ j = tailAt[n] + p
      BY SMTT(30), <1>1, <1>2, <1>3, <2>3
    <3> QED BY Zenon, <3>1 DEF Logged
  <2> QED BY Zenon, <2>1, <2>2, <2>3
<1>4. ASSUME NEW j \in Nat, NEW f, Logged(j, f)'
      PROVE  Logged(j, f) \/ (f = e /\ j = LastIndex(n) + 1)
  <2>1. CASE j \in 1..Len(committed') /\ committed'[j] = f
    BY Zenon, <2>1 DEF Logged
  <2>2. CASE \E m \in Node : \E p \in 1..Len(tail'[m]) : j = tailAt'[m] + p /\ tail'[m][p] = f
    BY Zenon, <1>3, <2>2
  <2> QED BY Zenon, <1>4, <2>1, <2>2 DEF Logged
<1> QED BY <1>1, <1>2, <1>4 DEF LastIndex

\* The newest term is that of the terms.
LEMMA NewestKept ==
    ASSUME RaftTypes, bound' = bound, term' = term
    PROVE  newest' = newest
<1>1. PICK top \in Node : \A m \in Node : term[m] <= term[top]
  BY Zenon DEF RaftTypes
<1>2. MaxTerm \in Nat /\ term \in [Node -> 1..MaxTerm] /\ MaxTerm' = MaxTerm
  BY Zenon, TermTypes, BoundsKept DEF RaftTypes
<1>3. newest = term[top]
  BY Zenon, <1>1, <1>2, NewestOf DEF newest
<1>4. MaxTerm' \in Nat /\ term' \in [Node -> 1..MaxTerm'] /\ \A m \in Node : term'[m] <= term'[top]
  BY Zenon, <1>1, <1>2
<1>5. newest' = term'[top]
  BY <1>4, NewestOf DEF newest
<1> QED BY Zenon, <1>3, <1>5

\* Elections is inductive given types ...
LEMMA ElectionsStep ==
    ASSUME Types, Elections, [Next]_vars
    PROVE  Elections'
<1>1. RaftTypes /\ RaftTypes' /\ bound' = bound /\ LogEntry' = LogEntry
  BY Zenon, RaftTypesStep, BoundsKept DEF Types
<1>2. CASE UNCHANGED raftVars
  <2>1. newest' = newest
    BY Zenon, <1>1, <1>2, NewestKept DEF raftVars
  <2> QED BY <1>1, <1>2, <2>1 DEF raftVars, Elections, Logged, LastIndex
<1>3. ASSUME NEW n \in Node, Elect(n)
      PROVE  Elections'
  <2>1. newest' = newest + 1 /\ newest \in Nat /\ (\A m \in Node : term[m] \in Nat /\ term[m] <= newest) /\ term' = [term EXCEPT ![n] = newest + 1]
    BY Zenon, <1>1, <1>3, ElectTypes, NewestTerm, TermTypes DEF Elect
  <2>2. /\ committed' = committed /\ tailAt'[n] = Len(committed) /\ Len(committed) \in Nat
        /\ leader' = [leader EXCEPT ![n] = TRUE]
        /\ \A o \in Node \ {n} : tail'[o] = tail[o] /\ tailAt'[o] = tailAt[o]
    BY <1>1, <1>3, ElectLog DEF Elect, RaftTypes
  <2>3. /\ \A o \in Node : term'[o] = IF o = n THEN newest + 1 ELSE term[o]
        /\ \A o \in Node : leader'[o] = IF o = n THEN TRUE ELSE leader[o]
    BY Zenon, <1>1, <2>1, <2>2 DEF RaftTypes
  <2>4. \A o, m \in Node : leader'[o] /\ leader'[m] /\ term'[o] = term'[m] => o = m
    <3> SUFFICES ASSUME NEW o \in Node, NEW m \in Node, leader'[o], leader'[m], term'[o] = term'[m]
                 PROVE  o = m
      BY Zenon
    <3>1. \A q \in Node : term[q] # newest + 1
      BY <2>1
    <3>2. CASE o # n /\ m # n
      BY Zenon, <2>3, <3>2 DEF Elections
    <3>3. CASE o = n \/ m = n
      BY Zenon, <2>3, <3>1, <3>3
    <3> QED BY Zenon, <3>2, <3>3
  <2>5. \A o \in Node : tailAt'[o] <= Len(committed')
    BY <2>2 DEF Elections
  <2>6. \A o \in Node : leader'[o] /\ term'[o] = newest' => tailAt'[o] = Len(committed')
    BY <2>1, <2>2, <2>3
  <2>7. ASSUME NEW j \in Nat, NEW e \in LogEntry, Logged(j, e)'
        PROVE  e.term <= newest' /\ \A o \in Node : leader'[o] /\ e.term = term'[o] => j <= LastIndex(o)'
    <3>1. CASE Logged(j, e)
      <4>1. e.term <= newest /\ e.term \in Nat
        BY Zenon, <3>1 DEF Elections, LogEntry
      <4>2. \A o \in Node \ {n} : LastIndex(o)' = LastIndex(o)
        BY Zenon, <2>2 DEF LastIndex
      <4>3. e.term <= newest'
        BY <2>1, <4>1
      <4>4. ASSUME NEW o \in Node, leader'[o], e.term = term'[o]
            PROVE  j <= LastIndex(o)'
        <5>1. o # n
          BY <2>1, <2>3, <4>1, <4>4
        <5>2. leader[o] /\ e.term = term[o]
          BY Zenon, <2>3, <4>4, <5>1
        <5>3. j <= LastIndex(o)
          BY Zenon, <3>1, <5>2 DEF Elections
        <5> QED BY Zenon, <4>2, <5>1, <5>3
      <4> QED BY Zenon, <4>3, <4>4
    <3>2. CASE e = Mark(newest + 1) /\ j = LastIndex(n)'
      <4>1. e.term = newest + 1
        BY Zenon, <3>2 DEF Mark
      <4>2. LastIndex(n)' \in Nat
        BY Zenon, <3>2
      <4> QED BY <2>1, <2>3, <3>2, <4>1, <4>2
    <3> QED BY <1>1, <1>3, <2>7, <3>1, <3>2, ElectLogged
  <2> QED BY Zenon, <1>1, <2>4, <2>5, <2>6, <2>7 DEF Elections
<1>4. ASSUME NEW n \in Node, Lower(n)
      PROVE  Elections'
  <2>1. newest' = newest
    BY Zenon, <1>1, <1>4, NewestKept DEF Lower
  <2>2. \A o \in Node : leader'[o] => leader[o]
    BY Zenon, <1>1, <1>4 DEF Lower, RaftTypes
  <2> QED BY <1>1, <1>4, <2>1, <2>2 DEF Lower, Elections, Logged, LastIndex
<1>5. ASSUME NEW n \in Node, Replicate(n)
      PROVE  Elections'
  <2>1. newest' = newest /\ term' = term /\ leader' = leader /\ leader[n] /\ term[n] = newest
    BY Zenon, <1>1, <1>5, NewestKept DEF Replicate
  <2>2. /\ \A j \in Nat : \A e : Logged(j, e)' => Logged(j, e)
        /\ \A m \in Node : LastIndex(m)' = LastIndex(m)
        /\ tailAt'[n] = Len(committed') /\ Len(committed) < Len(committed')
        /\ \A m \in Node \ {n} : tailAt'[m] = tailAt[m]
    BY Zenon, <1>1, <1>5, ReplicateLogged
  <2>3. Len(committed) \in Nat /\ Len(committed') \in Nat /\ \A m \in Node : tailAt[m] \in Nat
    <3>1. committed \in Seq(LogEntry) /\ tailAt \in [Node -> Nat]
      BY Zenon, <1>1 DEF RaftTypes
    <3>2. committed' \in Seq(LogEntry)
      BY Zenon, <1>1 DEF RaftTypes
    <3> QED BY <3>1, <3>2
  <2>4. \A m \in Node : tailAt'[m] <= Len(committed')
    BY <2>2, <2>3 DEF Elections
  <2>5. \A m \in Node : leader'[m] /\ term'[m] = newest' => tailAt'[m] = Len(committed')
    BY Zenon, <2>1, <2>2 DEF Elections
  <2>6. \A j \in Nat, e \in LogEntry : Logged(j, e)' =>
           e.term <= newest /\ \A m \in Node : leader[m] /\ e.term = term[m] => j <= LastIndex(m)'
    BY Zenon, <2>2 DEF Elections
  <2> QED BY Zenon, <1>1, <2>1, <2>4, <2>5, <2>6 DEF Elections
<1>6. ASSUME NEW n \in Node, NEW e \in LogEntry, Appends(n, e)
      PROVE  Elections'
  <2>1. /\ newest' = newest /\ term' = term /\ leader' = leader /\ leader[n] /\ e.term = term[n]
        /\ committed' = committed /\ tailAt' = tailAt
    BY Zenon, <1>1, <1>6, NewestKept DEF Appends
  <2>2. /\ \A j \in Nat : \A f : Logged(j, f)' => Logged(j, f) \/ (f = e /\ j = LastIndex(n) + 1)
        /\ LastIndex(n)' = LastIndex(n) + 1
        /\ \A m \in Node \ {n} : LastIndex(m)' = LastIndex(m)
    BY Zenon, <1>1, <1>6, <2>1, AppendLogged DEF Appends
  <2>3. term[n] <= newest /\ \A m \in Node : LastIndex(m) \in Nat
    BY Zenon, <1>1, NewestTerm, LastIndexType
  <2>4. ASSUME NEW j \in Nat, NEW f \in LogEntry, Logged(j, f)'
        PROVE  f.term <= newest /\ \A m \in Node : leader[m] /\ f.term = term[m] => j <= LastIndex(m)'
    <3>1. CASE Logged(j, f)
      <4>1. f.term <= newest /\ \A m \in Node : leader[m] /\ f.term = term[m] => j <= LastIndex(m)
        BY Zenon, <3>1 DEF Elections
      <4>2. \A m \in Node : LastIndex(m) <= LastIndex(m)' /\ LastIndex(m)' \in Nat
        BY <2>2, <2>3
      <4> QED BY <2>3, <4>1, <4>2
    <3>2. CASE f = e /\ j = LastIndex(n) + 1
      <4>1. \A m \in Node : leader[m] /\ f.term = term[m] => m = n
        BY Zenon, <2>1, <3>2 DEF Elections
      <4> QED BY <2>1, <2>2, <2>3, <3>2, <4>1
    <3> QED BY Zenon, <2>2, <2>4, <3>1, <3>2
  <2> QED BY Zenon, <1>1, <2>1, <2>4 DEF Elections
<1> QED BY Zenon, <1>2, <1>3, <1>4, <1>5, <1>6, RaftSteps

\* ... and holds at the start.
LEMMA ElectionsInit ==
    ASSUME Init
    PROVE  Elections
<1>1. RaftTypes
  BY Zenon, TypesInit DEF Types
<1>2. /\ committed = <<Mark(1)>> /\ tail = [n \in Node |-> <<>>] /\ tailAt = [n \in Node |-> 1]
      /\ term = [n \in Node |-> 1] /\ \E n0 \in Node : leader = [n \in Node |-> n = n0]
  BY Zenon DEF Init
<1>3. newest \in Nat /\ newest = 1 /\ Len(committed) = 1 /\ \A n \in Node : Len(tail[n]) = 0 /\ LastIndex(n) = 1
  BY <1>1, <1>2, NewestTerm DEF LastIndex
<1>4. ASSUME NEW j \in Nat, NEW e, Logged(j, e)
      PROVE  j = 1 /\ e = Mark(1)
  BY <1>2, <1>3, <1>4 DEF Logged
<1>5. Mark(1).term = 1
  BY Zenon DEF Mark
<1>6. ASSUME NEW j \in Nat, NEW e \in LogEntry, Logged(j, e)
      PROVE  e.term <= newest /\ \A n \in Node : j <= LastIndex(n)
  BY <1>3, <1>4, <1>5, <1>6
<1>7. \A n, m \in Node : leader[n] /\ leader[m] => n = m
  BY Zenon, <1>2
<1>8. \A n \in Node : tailAt[n] = 1
  BY Zenon, <1>2
<1> QED BY <1>3, <1>6, <1>7, <1>8 DEF Elections

-----------------------------------------------------------------------------
(* Stores.  A store that has seen the entries up to r, and has applied the *)
(* ones up to a since it last started, is what the log describes up to r,  *)
(* but for the keys that an entry after a touches, and for those whose     *)
(* last entry was missed.                                                  *)

Rebuilt(log, s, a, r, miss) ==
    /\ a <= r /\ r <= Len(log)
    /\ \A k \in Key :
           \/ \E j \in (a + 1)..r : Touches(log, j, k)
           \/ \E j \in 1..r : j \in miss /\ Touches(log, j, k) /\ \A h \in (j + 1)..r : ~Touches(log, h, k)
           \/ s[k] = StoreOf(log, r)[k]

\* A store that is rebuilt from a log is so from a longer one.
LEMMA RebuiltLonger ==
    ASSUME NEW log1, NEW log2, NEW s, NEW a \in Nat, NEW r \in Nat, NEW miss,
           Len(log1) \in Nat, Len(log2) \in Nat, Len(log1) <= Len(log2),
           \A i \in 1..Len(log1) : log2[i] = log1[i],
           Rebuilt(log1, s, a, r, miss)
    PROVE  Rebuilt(log2, s, a, r, miss)
<1>1. a <= r /\ r <= Len(log1) /\ r <= Len(log2)
  BY DEF Rebuilt
<1>2. \A j \in 1..r : log2[j] = log1[j]
  BY <1>1
<1>3. \A j \in 1..r, k \in Key : Touches(log2, j, k) <=> Touches(log1, j, k)
  BY Zenon, <1>2 DEF Touches
<1>4. ASSUME NEW k \in Key
      PROVE  \/ \E j \in (a + 1)..r : Touches(log2, j, k)
             \/ \E j \in 1..r : j \in miss /\ Touches(log2, j, k) /\ \A h \in (j + 1)..r : ~Touches(log2, h, k)
             \/ s[k] = StoreOf(log2, r)[k]
  <2>1. CASE \E j \in (a + 1)..r : Touches(log1, j, k)
    BY <1>3, <2>1
  <2>2. CASE \E j \in 1..r : j \in miss /\ Touches(log1, j, k) /\ \A h \in (j + 1)..r : ~Touches(log1, h, k)
    <3>1. PICK j \in 1..r : j \in miss /\ Touches(log1, j, k) /\ \A h \in (j + 1)..r : ~Touches(log1, h, k)
      BY Zenon, <2>2
    <3>2. \A h \in (j + 1)..r : h \in 1..r
      OBVIOUS
    <3> QED BY Zenon, <1>3, <3>1, <3>2
  <2>3. CASE s[k] = StoreOf(log1, r)[k]
    <3>1. StoreOf(log1, r)[k] = StoreOf(log2, r)[k]
      <4>1. \A j \in 1..r : Touches(log1, j, k) => j <= r /\ log2[j] = log1[j]
        BY <1>2
      <4>2. \A j \in 1..r : Touches(log2, j, k) => j <= r /\ log2[j] = log1[j]
        BY <1>2
      <4>3. Alike(log1, r, log2, r, k)
        BY Zenon, <4>1, <4>2 DEF Alike
      <4> QED BY <4>3, SameTouches
    <3> QED BY Zenon, <2>3, <3>1
  <2> QED BY Zenon, <2>1, <2>2, <2>3 DEF Rebuilt
<1> QED BY Zenon, <1>1, <1>4 DEF Rebuilt

\* One more entry, applied or missed.
LEMMA RebuiltStep ==
    ASSUME NEW log, NEW s, NEW t, NEW a \in Nat, NEW r \in Nat, NEW miss, NEW miss1, Len(log) \in Nat, a < Len(log),
           Rebuilt(log, s, a, r, miss),
           miss1 = miss \ {a + 1} \/ miss1 = miss \cup {a + 1},
           \A k \in Key : ~Touches(log, a + 1, k) => t[k] = s[k],
           \A k \in Key : Touches(log, a + 1, k) =>
               a + 1 \in miss1 \/ t[k] = IF k \in log[a + 1].set THEN log[a + 1].id ELSE None
    PROVE  Rebuilt(log, t, a + 1, IF r > a THEN r ELSE a + 1, miss1)
<1> DEFINE r1 == IF r > a THEN r ELSE a + 1
<1>1. a <= r /\ r <= Len(log) /\ r1 \in Nat /\ a + 1 <= r1 /\ r1 <= Len(log) /\ (r1 = r \/ (r = a /\ r1 = a + 1))
  BY DEF Rebuilt
<1> HIDE DEF r1
<1>2. ASSUME NEW k \in Key, Touches(log, a + 1, k), \A j \in (a + 2)..r1 : ~Touches(log, j, k)
      PROVE  \/ \E j \in 1..r1 : j \in miss1 /\ Touches(log, j, k) /\ \A h \in (j + 1)..r1 : ~Touches(log, h, k)
             \/ t[k] = StoreOf(log, r1)[k]
  <2>1. a + 1 \in 1..r1 /\ \A h \in ((a + 1) + 1)..r1 : ~Touches(log, h, k)
    BY <1>1, <1>2
  <2>2. StoreOf(log, r1)[k] = IF k \in log[a + 1].set THEN log[a + 1].id ELSE None
    BY <1>1, <1>2, <2>1, LastTouch
  <2> QED BY Zenon, <1>2, <2>1, <2>2
<1>3. ASSUME NEW k \in Key, ~Touches(log, a + 1, k), \A j \in (a + 2)..r1 : ~Touches(log, j, k)
      PROVE  \/ \E j \in 1..r1 : j \in miss1 /\ Touches(log, j, k) /\ \A h \in (j + 1)..r1 : ~Touches(log, h, k)
             \/ t[k] = StoreOf(log, r1)[k]
  <2>1. \A h \in (a + 1)..r1 : ~Touches(log, h, k)
    <3>1. \A h \in (a + 1)..r1 : h = a + 1 \/ h \in (a + 2)..r1
      BY <1>1
    <3> QED BY Zenon, <1>3, <3>1
  <2>2. t[k] = s[k]
    BY Zenon, <1>3
  <2>3. ~\E j \in (a + 1)..r : Touches(log, j, k)
    BY <1>1, <2>1
  <2>4. CASE \E j \in 1..r : j \in miss /\ Touches(log, j, k) /\ \A h \in (j + 1)..r : ~Touches(log, h, k)
    <3>1. PICK j \in 1..r : j \in miss /\ Touches(log, j, k) /\ \A h \in (j + 1)..r : ~Touches(log, h, k)
      BY Zenon, <2>4
    <3>2. j # a + 1 /\ j \in miss1 /\ j \in 1..r1
      BY <1>1, <1>3, <3>1
    <3>3. ASSUME NEW h \in (j + 1)..r1
          PROVE  ~Touches(log, h, k)
      <4>1. h \in (j + 1)..r \/ h \in (a + 1)..r1
        BY <1>1
      <4> QED BY Zenon, <2>1, <3>1, <4>1
    <3> QED BY Zenon, <3>1, <3>2, <3>3
  <2>5. CASE s[k] = StoreOf(log, r)[k]
    <3>1. StoreOf(log, r)[k] = StoreOf(log, r1)[k]
      <4>1. \A j \in 1..r : j <= r1
        BY <1>1
      <4>2. \A j \in 1..r1 : Touches(log, j, k) => j <= r
        <5>1. \A j \in 1..r1 : j <= r \/ j \in (a + 1)..r1
          BY <1>1
        <5> QED BY Zenon, <2>1, <5>1
      <4>3. \A j \in 1..r : Touches(log, j, k) => j <= r1 /\ log[j] = log[j]
        BY Zenon, <4>1
      <4>4. \A j \in 1..r1 : Touches(log, j, k) => j <= r /\ log[j] = log[j]
        BY Zenon, <4>2
      <4>5. r1 \in Nat
        BY Zenon, <1>1
      <4>6. Alike(log, r, log, r1, k)
        BY Zenon, <4>3, <4>4 DEF Alike
      <4> QED BY <4>5, <4>6, SameTouches
    <3> QED BY Zenon, <2>2, <2>5, <3>1
  <2> QED BY Zenon, <2>3, <2>4, <2>5 DEF Rebuilt
<1>4. \A k \in Key : \/ \E j \in ((a + 1) + 1)..r1 : Touches(log, j, k)
                     \/ \A j \in (a + 2)..r1 : ~Touches(log, j, k)
  BY <1>1
<1>5. Rebuilt(log, t, a + 1, r1, miss1)
  BY Zenon, <1>1, <1>2, <1>3, <1>4 DEF Rebuilt
<1> QED BY Zenon, <1>5 DEF r1

\* Applying the next entry of the log keeps a store rebuilt.
LEMMA RebuiltApply ==
    ASSUME NEW log \in Seq(LogEntry), NEW s \in Store, NEW a \in Nat, NEW r \in Nat, NEW miss, a < Len(log),
           Rebuilt(log, s, a, r, miss)
    PROVE  /\ Rebuilt(log, applyWriteSet(log[a + 1], s), a + 1, IF r > a THEN r ELSE a + 1, miss \ {a + 1})
           /\ Rebuilt(log, s, a + 1, IF r > a THEN r ELSE a + 1, miss \cup {a + 1})
<1>1. Len(log) \in Nat
  OBVIOUS
<1> DEFINE t == applyWriteSet(log[a + 1], s)
<1>2. /\ \A k \in Key : ~Touches(log, a + 1, k) => t[k] = s[k]
      /\ \A k \in Key : Touches(log, a + 1, k) => t[k] = IF k \in log[a + 1].set THEN log[a + 1].id ELSE None
  BY Zenon DEF applyWriteSet, Touches
<1> HIDE DEF t
<1>3. Rebuilt(log, t, a + 1, IF r > a THEN r ELSE a + 1, miss \ {a + 1})
  BY Zenon, <1>1, <1>2, RebuiltStep
<1>4. Rebuilt(log, s, a + 1, IF r > a THEN r ELSE a + 1, miss \cup {a + 1})
  BY Zenon, <1>1, RebuiltStep
<1> QED BY Zenon, <1>3, <1>4 DEF t

\* Starting again from the first entry; and what is left to say at the end.
LEMMA RebuiltAgain ==
    ASSUME NEW log, NEW s, NEW a \in Nat, NEW r \in Nat, NEW miss, Rebuilt(log, s, a, r, miss)
    PROVE  Rebuilt(log, s, 0, r, miss)
<1>1. \A j \in (a + 1)..r : j \in (0 + 1)..r
  OBVIOUS
<1>2. 0 <= r
  OBVIOUS
<1> QED BY Zenon, <1>1, <1>2 DEF Rebuilt

\* A store that has caught up, and missed nothing, is the store of the prefix.
LEMMA RebuiltDone ==
    ASSUME NEW log, NEW s \in Store, NEW a \in Nat, NEW r \in Nat, a >= r, Rebuilt(log, s, a, r, {})
    PROVE  a = r /\ s = StoreOf(log, a)
<1>1. a = r /\ \A j \in (a + 1)..r : FALSE
  BY DEF Rebuilt
<1>2. \A k \in Key : s[k] = StoreOf(log, r)[k]
  BY Zenon, <1>1 DEF Rebuilt
<1> QED BY Zenon, <1>1, <1>2 DEF StoreOf, Store

\* The committed log only grows, and a step of a state machine leaves it alone.
Grows == Len(committed) <= Len(committed') /\ \A i \in 1..Len(committed) : committed'[i] = committed[i]

\* The committed log only grows.
LEMMA LogGrows ==
    ASSUME Types, [Next]_vars
    PROVE  Grows /\ Len(committed) \in Nat /\ Len(committed') \in Nat
<1>1. RaftTypes /\ committed \in Seq(LogEntry) /\ Len(committed) \in Nat
  BY DEF Types, RaftTypes
<1>2. Len(committed') \in Nat
  <2>1. RaftTypes'
    BY Zenon, RaftTypesStep
  <2>2. committed' \in Seq(LogEntry')
    BY Zenon, <2>1 DEF RaftTypes
  <2> QED BY <2>2
<1>3. CASE committed' = committed
  BY <1>1, <1>3 DEF Grows
<1>4. ASSUME NEW n \in Node, Replicate(n)
      PROVE  Grows
  <2>1. PICK i \in 1..Len(tail[n]) : committed' = committed \o SubSeq(tail[n], 1, i)
    BY Zenon, <1>4 DEF Replicate
  <2>2. SubSeq(tail[n], 1, i) \in Seq(LogEntry)
    BY <1>1, <2>1 DEF RaftTypes
  <2>3. Len(committed') = Len(committed) + Len(SubSeq(tail[n], 1, i)) /\ Len(SubSeq(tail[n], 1, i)) \in Nat
    BY <1>1, <2>1, <2>2
  <2>4. ASSUME NEW j \in 1..Len(committed)
        PROVE  committed'[j] = committed[j]
    BY <1>1, <2>1, <2>2
  <2> QED BY <1>1, <2>3, <2>4 DEF Grows
<1>5. (\E n \in Node : Replicate(n)) \/ committed' = committed
  BY Zenon, RaftSteps DEF raftVars, Elect, Lower, Appends
<1> QED BY Zenon, <1>1, <1>2, <1>3, <1>4, <1>5

\* What a step may do to the state machines.
LEMMA FsmSteps ==
    ASSUME [Next]_vars
    PROVE  \/ UNCHANGED <<fsmVars, restarts>>
           \/ /\ committed' = committed
              /\ \E n \in Node : \/ Apply(n) \/ ApplyFail(n) \/ Snapshot(n) \/ (\E m \in Node : RestoreBegin(n, m))
                                 \/ RestoreEnd(n) \/ RestoreFail(n) \/ Restart(n)
<1>1. CASE UNCHANGED vars
  BY Zenon, <1>1 DEF vars, fsmVars
<1>2. ASSUME NEW n \in Node, \/ Elect(n) \/ StepDown(n) \/ Replicate(n) \/ WriteBegin(n)
                             \/ (\E entry \in Entry : ReadBegin(n, entry))
                             \/ WriteBarrier(n) \/ BarrierDone(n) \/ Stage(n) \/ WritePropose(n) \/ WriteDone(n) \/ WriteFail(n)
                             \/ ReadCheck(n) \/ ReadBarrier(n) \/ ReadBarrierDone(n) \/ View(n) \/ ReadEnd(n)
      PROVE  UNCHANGED <<fsmVars, restarts>>
  BY Zenon, <1>2 DEF Elect, StepDown, Replicate, WriteBegin, ReadBegin, WriteBarrier, BarrierDone, Stage, WritePropose, WriteDone, WriteFail,
      ReadCheck, ReadBarrier, ReadBarrierDone, View, ReadEnd, writeFrame, readFrame
<1>3. ASSUME NEW n \in Node, \/ Apply(n) \/ ApplyFail(n) \/ Snapshot(n) \/ (\E m \in Node : RestoreBegin(n, m))
                             \/ RestoreEnd(n) \/ RestoreFail(n) \/ Restart(n)
      PROVE  committed' = committed
  BY Zenon, <1>3 DEF Apply, ApplyFail, Snapshot, RestoreBegin, RestoreEnd, RestoreFail, Restart, raftVars
<1> QED BY Zenon, <1>1, <1>2, <1>3 DEF Next, NodeStep

\* What holds of every store and every snapshot.
Fresh(n) == Rebuilt(committed, store[n], applied[n], reached[n], missed[n])
Kept(n) == Rebuilt(committed, snap[n].store, snap[n].at, snap[n].reached, snap[n].missed)
Stores ==
    \A n \in Node :
        /\ applied[n] <= reached[n] /\ reached[n] <= Len(committed)
        /\ Kept(n)
        /\ restore[n] = "no" => Fresh(n)
        /\ restore[n] # "no" => snap[n].at > applied[n]
        /\ restarts = 0 => reached[n] = applied[n] /\ snap[n].reached = snap[n].at
        /\ failures = 0 => missed[n] = {} /\ snap[n].missed = {}

\* Stores holds at the start ...
LEMMA StoresInit ==
    ASSUME Init
    PROVE  Stores
<1>1. Types /\ Len(committed) = 1
  BY Zenon, TypesInit DEF Init
<1>2. ASSUME NEW n \in Node
      PROVE  /\ applied[n] = 0 /\ reached[n] = 0 /\ store[n] = Empty /\ missed[n] = {} /\ restore[n] = "no"
             /\ snap[n].at = 0 /\ snap[n].reached = 0 /\ snap[n].store = Empty /\ snap[n].missed = {}
  BY DEF Init, NoSnap
<1>3. Rebuilt(committed, Empty, 0, 0, {})
  <2>1. ASSUME NEW k \in Key
        PROVE  Empty[k] = StoreOf(committed, 0)[k]
    <3>1. \A j \in 1..0 : ~Touches(committed, j, k)
      OBVIOUS
    <3> QED BY Zenon, <3>1, Untouched DEF Empty
  <2> QED BY <1>1, <2>1 DEF Rebuilt
<1>4. \A n \in Node : Fresh(n) /\ Kept(n)
  BY Zenon, <1>2, <1>3 DEF Fresh, Kept
<1>5. \A n \in Node : applied[n] <= reached[n] /\ reached[n] <= Len(committed)
  <2>1. \A n \in Node : applied[n] = 0 /\ reached[n] = 0
    BY Zenon, <1>2
  <2>2. 0 <= 0 /\ 0 <= Len(committed)
    BY <1>1
  <2> QED BY Zenon, <2>1, <2>2
<1> QED BY Zenon, <1>2, <1>4, <1>5 DEF Stores

\* ... and is inductive given types ...
LEMMA StoresStep ==
    ASSUME Types, Stores, [Next]_vars
    PROVE  Stores'
<1>1. Grows /\ Len(committed) \in Nat /\ Len(committed') \in Nat /\ committed \in Seq(LogEntry)
  BY Zenon, LogGrows DEF Types, RaftTypes
<1>2. \A n \in Node : /\ applied[n] \in Nat /\ reached[n] \in Nat /\ store[n] \in Store /\ snap[n] \in SnapState
                      /\ snap[n].at \in Nat /\ snap[n].reached \in Nat
  BY Zenon DEF Types, FsmTypes, SnapState
<1>3. CASE UNCHANGED <<fsmVars, restarts>>
  <2> SUFFICES ASSUME NEW n \in Node
               PROVE  /\ applied[n] <= reached[n] /\ reached[n] <= Len(committed')
                      /\ Rebuilt(committed', snap[n].store, snap[n].at, snap[n].reached, snap[n].missed)
                      /\ restore[n] = "no" => Rebuilt(committed', store[n], applied[n], reached[n], missed[n])
    BY Zenon, <1>3 DEF Stores, Fresh, Kept, fsmVars
  <2>1. applied[n] <= reached[n] /\ reached[n] <= Len(committed')
    BY <1>1, <1>2 DEF Stores, Grows
  <2>2. ASSUME NEW s, NEW a \in Nat, NEW r \in Nat, NEW miss, Rebuilt(committed, s, a, r, miss)
        PROVE  Rebuilt(committed', s, a, r, miss)
    BY Zenon, <1>1, <2>2, RebuiltLonger DEF Grows
  <2>3. Rebuilt(committed', snap[n].store, snap[n].at, snap[n].reached, snap[n].missed)
    BY Zenon, <1>2, <2>2 DEF Stores, Kept
  <2>4. restore[n] = "no" => Rebuilt(committed', store[n], applied[n], reached[n], missed[n])
    BY Zenon, <1>2, <2>2 DEF Stores, Fresh
  <2> QED BY Zenon, <2>1, <2>3, <2>4
<1>4. ASSUME NEW n \in Node, Apply(n) \/ ApplyFail(n), committed' = committed
      PROVE  Stores'
  <2> DEFINE a == applied[n]
             r == IF reached[n] > a THEN reached[n] ELSE a + 1
  <2>1. /\ applied' = [applied EXCEPT ![n] = a + 1] /\ reached' = [reached EXCEPT ![n] = r]
        /\ snap' = snap /\ restore' = restore /\ restarts' = restarts /\ restore[n] = "no" /\ a < Len(committed)
    BY Zenon, <1>4 DEF Apply, ApplyFail
  <2>2. \/ /\ Apply(n) /\ failures' = failures
           /\ store' = [store EXCEPT ![n] = applyWriteSet(committed[a + 1], store[n])]
           /\ missed' = [missed EXCEPT ![n] = missed[n] \ {a + 1}]
        \/ /\ failures' = failures + 1 /\ store' = store
           /\ missed' = [missed EXCEPT ![n] = missed[n] \cup {a + 1}]
    BY Zenon, <1>4 DEF Apply, ApplyFail
  <2>3. Rebuilt(committed, store[n], a, reached[n], missed[n])
    BY Zenon, <2>1 DEF Stores, Fresh
  <2>4. /\ Rebuilt(committed, applyWriteSet(committed[a + 1], store[n]), a + 1, r, missed[n] \ {a + 1})
        /\ Rebuilt(committed, store[n], a + 1, r, missed[n] \cup {a + 1})
    BY Zenon, <1>1, <1>2, <2>1, <2>3, RebuiltApply
  <2>5. /\ applied'[n] = a + 1 /\ reached'[n] = r
        /\ a \in Nat /\ reached[n] \in Nat /\ a <= reached[n] /\ reached[n] <= Len(committed)
    BY Zenon, <1>2, <2>1 DEF Stores, Types, FsmTypes
  <2>6. Fresh(n)'
    <3>1. \/ /\ store'[n] = applyWriteSet(committed[a + 1], store[n])
             /\ missed'[n] = missed[n] \ {a + 1}
          \/ /\ store'[n] = store[n]
             /\ missed'[n] = missed[n] \cup {a + 1}
      BY Zenon, <2>2 DEF Types, FsmTypes
    <3> HIDE DEF a, r
    <3> QED BY Zenon, <1>4, <2>4, <2>5, <3>1 DEF Fresh
  <2>7. a + 1 <= r /\ r <= Len(committed) /\ (reached[n] = a => r = a + 1)
    BY <1>1, <2>1, <2>5
  <2>8. failures' = 0 => missed'[n] = {}
    <3> SUFFICES ASSUME failures' = 0 PROVE missed'[n] = {}
      BY Zenon
    <3>1. failures \in Nat
      BY Zenon DEF Types, FsmTypes
    <3>2. failures = 0 /\ missed' = [missed EXCEPT ![n] = missed[n] \ {a + 1}]
      BY <2>2, <3>1
    <3> QED BY Zenon, <3>2 DEF Stores, Types, FsmTypes
  <2>9. \A m \in Node \ {n} : /\ applied'[m] = applied[m] /\ reached'[m] = reached[m]
                              /\ store'[m] = store[m] /\ missed'[m] = missed[m]
    BY Zenon, <2>1, <2>2 DEF Types, FsmTypes
  <2>10. failures' = 0 => failures = 0
    BY <2>2 DEF Types, FsmTypes
  <2>11. ASSUME NEW m \in Node \ {n}
         PROVE  Fresh(m) => Fresh(m)'
    BY Zenon, <1>4, <2>9 DEF Fresh
  <2>12. \A m \in Node : Kept(m)'
    BY Zenon, <1>4, <2>1 DEF Stores, Kept
  <2> HIDE DEF a, r
  <2>13. ASSUME NEW m \in Node
         PROVE  /\ applied'[m] <= reached'[m] /\ reached'[m] <= Len(committed')
                /\ restore'[m] = "no" => Fresh(m)'
                /\ restore'[m] # "no" => snap'[m].at > applied'[m]
                /\ restarts' = 0 => reached'[m] = applied'[m] /\ snap'[m].reached = snap'[m].at
                /\ failures' = 0 => missed'[m] = {} /\ snap'[m].missed = {}
    <3>1. CASE m = n
      <4>1. a = applied[n]
        BY Zenon DEF a
      <4> QED BY Zenon, <1>4, <2>1, <2>5, <2>6, <2>7, <2>8, <2>10, <3>1, <4>1 DEF Stores
    <3>2. CASE m # n
      BY Zenon, <1>4, <2>1, <2>9, <2>10, <2>11, <3>2 DEF Stores
    <3> QED BY Zenon, <3>1, <3>2
  <2> QED BY Zenon, <2>12, <2>13 DEF Stores
<1>5. ASSUME NEW n \in Node, Snapshot(n), committed' = committed
      PROVE  Stores'
  <2>1. /\ snap'[n] = [at |-> applied[n], reached |-> reached[n], store |-> store[n], missed |-> missed[n]]
        /\ \A m \in Node \ {n} : snap'[m] = snap[m]
    BY Zenon, <1>5 DEF Snapshot, Types, FsmTypes
  <2>2. /\ snap'[n].at = applied[n] /\ snap'[n].reached = reached[n] /\ snap'[n].store = store[n] /\ snap'[n].missed = missed[n]
    BY <2>1
  <2>3. UNCHANGED <<applied, reached, store, missed, failures, restore, restarts>> /\ restore[n] = "no"
    BY Zenon, <1>5 DEF Snapshot
  <2>4. Kept(n)'
    BY Zenon, <1>5, <2>2, <2>3 DEF Stores, Fresh, Kept
  <2>5. \A m \in Node \ {n} : Kept(m)'
    BY Zenon, <1>5, <2>1 DEF Stores, Kept
  <2>6. \A m \in Node : restore[m] = "no" => Fresh(m)'
    BY Zenon, <1>5, <2>3 DEF Stores, Fresh
  <2> QED BY Zenon, <1>5, <2>1, <2>2, <2>3, <2>4, <2>5, <2>6 DEF Stores
<1>6. ASSUME NEW n \in Node, NEW o \in Node, RestoreBegin(n, o), committed' = committed
      PROVE  Stores'
  <2>1. /\ snap'[n] = snap[o] /\ snap[o].at > applied[n] /\ restore'[n] = "loading"
        /\ \A m \in Node \ {n} : snap'[m] = snap[m] /\ store'[m] = store[m] /\ restore'[m] = restore[m]
        /\ UNCHANGED <<applied, reached, missed, failures, restarts>>
    BY Zenon, <1>6 DEF RestoreBegin, Types, FsmTypes
  <2>2. \A m \in Node : Kept(m)'
    BY ZenonT(30), <1>6, <2>1 DEF Stores, Kept
  <2>3. \A m \in Node \ {n} : restore[m] = "no" => Fresh(m)'
    BY Zenon, <1>6, <2>1 DEF Stores, Fresh
  <2> QED BY <1>6, <2>1, <2>2, <2>3 DEF Stores
<1>7. ASSUME NEW n \in Node, RestoreEnd(n) \/ (Restart(n) /\ snap[n].at > 0), committed' = committed
      PROVE  Stores'
  <2>1. /\ applied' = [applied EXCEPT ![n] = snap[n].at] /\ reached' = [reached EXCEPT ![n] = snap[n].reached]
        /\ store' = [store EXCEPT ![n] = snap[n].store] /\ missed' = [missed EXCEPT ![n] = snap[n].missed]
        /\ restore' = [restore EXCEPT ![n] = "no"] /\ snap' = snap /\ failures' = failures
        /\ restarts' = restarts \/ restarts' = restarts + 1
    BY Zenon, <1>7 DEF RestoreEnd, Restart
  <2>2. restarts' = 0 => restarts = 0
    BY <2>1 DEF Types, CallTypes
  <2>3. /\ applied'[n] = snap[n].at /\ reached'[n] = snap[n].reached /\ store'[n] = snap[n].store /\ missed'[n] = snap[n].missed
        /\ restore'[n] = "no"
        /\ \A m \in Node \ {n} : /\ applied'[m] = applied[m] /\ reached'[m] = reached[m] /\ store'[m] = store[m]
                                 /\ missed'[m] = missed[m] /\ restore'[m] = restore[m]
    BY Zenon, <2>1 DEF Types, FsmTypes
  <2>4. \A m \in Node : Kept(m)'
    BY Zenon, <1>7, <2>1 DEF Stores, Kept
  <2>5. \A m \in Node \ {n} : restore[m] = "no" => Fresh(m)'
    BY Zenon, <1>7, <2>3 DEF Stores, Fresh
  <2>6. Fresh(n)'
    BY Zenon, <1>7, <2>3 DEF Stores, Fresh, Kept
  <2>7. snap[n].at <= snap[n].reached /\ snap[n].reached <= Len(committed)
    BY Zenon DEF Stores, Kept, Rebuilt
  <2> QED BY <1>7, <2>1, <2>2, <2>3, <2>4, <2>5, <2>6, <2>7 DEF Stores
<1>8. ASSUME NEW n \in Node, Restart(n), ~(snap[n].at > 0), committed' = committed
      PROVE  Stores'
  <2>1. /\ applied' = [applied EXCEPT ![n] = snap[n].at] /\ snap[n].at = 0
        /\ restore' = [restore EXCEPT ![n] = "no"]
        /\ restarts' = restarts + 1 /\ UNCHANGED <<store, reached, missed, snap, failures>>
    BY SMTT(30), <1>2, <1>8 DEF Restart
  <2>2. restarts' # 0 /\ restore[n] = "no"
    BY <1>2, <2>1 DEF Types, CallTypes, Stores
  <2>3. applied'[n] = 0 /\ restore' = restore /\ \A m \in Node \ {n} : applied'[m] = applied[m]
    BY Zenon, <2>1, <2>2 DEF Types, FsmTypes
  <2>4. \A m \in Node : Kept(m)'
    BY Zenon, <1>8, <2>1 DEF Stores, Kept
  <2>5. \A m \in Node \ {n} : restore[m] = "no" => Fresh(m)'
    BY Zenon, <1>8, <2>1, <2>3 DEF Stores, Fresh
  <2>6. Rebuilt(committed, store[n], 0, reached[n], missed[n])
    BY Zenon, <1>2, <2>2, RebuiltAgain DEF Stores, Fresh
  <2>7. Fresh(n)'
    BY Zenon, <1>8, <2>1, <2>3, <2>6 DEF Fresh
  <2>8. 0 <= reached[n]
    BY <1>2
  <2> QED BY <1>8, <2>1, <2>2, <2>3, <2>4, <2>5, <2>7, <2>8 DEF Stores
<1>9. ASSUME NEW n \in Node, RestoreFail(n), committed' = committed
      PROVE  Stores'
  <2>1. /\ restore[n] # "no" /\ restore'[n] = "failed"
        /\ \A m \in Node \ {n} : store'[m] = store[m] /\ restore'[m] = restore[m]
        /\ UNCHANGED <<applied, reached, missed, snap, failures, restarts>>
    BY Zenon, <1>9 DEF RestoreFail, Types, FsmTypes
  <2>2. \A m \in Node : Kept(m)'
    BY Zenon, <1>9, <2>1 DEF Stores, Kept
  <2>3. \A m \in Node \ {n} : restore[m] = "no" => Fresh(m)'
    BY Zenon, <1>9, <2>1 DEF Stores, Fresh
  <2> QED BY Zenon, <1>9, <2>1, <2>2, <2>3 DEF Stores
<1> QED BY Zenon, <1>3, <1>4, <1>5, <1>6, <1>7, <1>8, <1>9, FsmSteps

\* ... and implies what readers are promised.
LEMMA StoresServed ==
    ASSUME Types, Stores
    PROVE  StoreMatchesLog /\ ServedWithoutFaults
<1>1. ASSUME NEW n \in Node, restore[n] = "no", applied[n] >= reached[n], missed[n] = {}
      PROVE  store[n] = LogStore(applied[n]) /\ applied[n] <= Len(committed)
  <2>1. applied[n] \in Nat /\ reached[n] \in Nat /\ store[n] \in Store
    BY Zenon DEF Types, FsmTypes
  <2>2. Rebuilt(committed, store[n], applied[n], reached[n], {})
    BY Zenon, <1>1 DEF Stores, Fresh
  <2>3. applied[n] = reached[n] /\ store[n] = StoreOf(committed, applied[n])
    BY Zenon, <1>1, <2>1, <2>2, RebuiltDone
  <2> QED BY Zenon, <2>3, LogStoreOf DEF Stores
<1>2. ASSUME restarts = 0, failures = 0, \A n \in Node : restore[n] # "failed", NEW n \in Node, restore[n] # "loading"
      PROVE  \E i \in applied[n]..Len(committed) : store[n] = LogStore(i)
  <2>1. restore[n] = "no" /\ missed[n] = {} /\ applied[n] = reached[n] /\ applied[n] \in Nat /\ Len(committed) \in Nat
    BY <1>2 DEF Stores, Types, FsmTypes, RaftTypes
  <2>2. applied[n] >= reached[n]
    BY <2>1
  <2>3. applied[n] \in applied[n]..Len(committed) /\ store[n] = LogStore(applied[n])
    BY <1>1, <2>1, <2>2
  <2> QED BY Zenon, <2>3
<1> QED BY Zenon, <1>1, <1>2 DEF StoreMatchesLog, ServedWithoutFaults, ServedStatesArePrefixes

\* Once a voter has reapplied what its store had, the store is the one the
\* committed log describes, through any restarts, snapshots and failed writes.
THEOREM StoresRebuilt == Spec => []StoreMatchesLog
<1>1. Init => Types /\ Stores
  BY Zenon, TypesInit, StoresInit
<1>2. Types /\ Stores /\ [Next]_vars => Types' /\ Stores'
  BY Zenon, TypesStep, StoresStep
<1>3. Types /\ Stores => StoreMatchesLog
  BY Zenon, StoresServed
<1> QED BY <1>1, <1>2, <1>3, PTL DEF Spec

\* Without restarts and failures a reader sees the store after a prefix of the
\* log, while snapshots are installed too.
THEOREM PrefixesServed == Spec => []ServedWithoutFaults
<1>1. Init => Types /\ Stores
  BY Zenon, TypesInit, StoresInit
<1>2. Types /\ Stores /\ [Next]_vars => Types' /\ Stores'
  BY Zenon, TypesStep, StoresStep
<1>3. Types /\ Stores => ServedWithoutFaults
  BY Zenon, StoresServed
<1> QED BY <1>1, <1>2, <1>3, PTL DEF Spec

-----------------------------------------------------------------------------
(* The log of a voter, the committed log and its tail, and the statements   *)
(* it holds.                                                               *)

LogOf(n) == committed \o tail[n]
Live(n) == tailAt[n] = Len(committed)
Leads(n) == leader[n] /\ Live(n)

Serial(e, s) == e.id # None /\ e.checked = e.term => e.base = s
SerialLog(log) == \A i \in 1..Len(log) : Serial(log[i], StoreOf(log, i - 1))

\* Entries after lo touch nothing, but for the one at x.
QuietBut(log, lo, x) == \A j \in 1..Len(log) : j > lo /\ j # x => log[j].set = {} /\ log[j].del = {}

\* A prefix of a serial log is serial.
LEMMA SerialPrefix ==
    ASSUME NEW log1, NEW log2, Len(log1) \in Nat, Len(log2) \in Nat, Len(log2) <= Len(log1),
           \A i \in 1..Len(log2) : log2[i] = log1[i], SerialLog(log1)
    PROVE  SerialLog(log2)
<1> SUFFICES ASSUME NEW i \in 1..Len(log2)
             PROVE  Serial(log2[i], StoreOf(log2, i - 1))
  BY Zenon DEF SerialLog
<1>1. i \in 1..Len(log1) /\ i - 1 \in Nat /\ log2[i] = log1[i]
  OBVIOUS
<1>2. ASSUME NEW k \in Key
      PROVE  StoreOf(log1, i - 1)[k] = StoreOf(log2, i - 1)[k]
  <2>1. \A j \in 1..(i - 1) : j <= i - 1 /\ log2[j] = log1[j]
    BY <1>1
  <2>2. Alike(log1, i - 1, log2, i - 1, k)
    BY Zenon, <2>1 DEF Alike
  <2> QED BY <1>1, <2>2, SameTouches
<1>3. StoreOf(log1, i - 1) = StoreOf(log2, i - 1)
  BY Zenon, <1>2 DEF StoreOf
<1> QED BY Zenon, <1>1, <1>3 DEF SerialLog

\* The entries of a log after an append.
LEMMA AppendEntry ==
    ASSUME NEW log \in Seq(LogEntry), NEW e \in LogEntry
    PROVE  /\ Append(log, e) \in Seq(LogEntry) /\ Len(log) \in Nat
           /\ Len(Append(log, e)) = Len(log) + 1 /\ Append(log, e)[Len(log) + 1] = e
           /\ \A i \in 1..Len(log) : Append(log, e)[i] = log[i]
OBVIOUS

\* Appending an entry staged on the store of the log keeps it serial.
LEMMA SerialAppend ==
    ASSUME NEW log \in Seq(LogEntry), NEW e \in LogEntry, SerialLog(log), Serial(e, StoreOf(log, Len(log)))
    PROVE  SerialLog(Append(log, e))
<1> DEFINE longer == Append(log, e)
<1>1. /\ Len(log) \in Nat /\ Len(longer) = Len(log) + 1 /\ longer[Len(log) + 1] = e
      /\ \A i \in 1..Len(log) : longer[i] = log[i]
  BY Zenon, AppendEntry
<1> HIDE DEF longer
<1>2. ASSUME NEW i \in 1..Len(longer)
      PROVE  i - 1 \in Nat /\ StoreOf(log, i - 1) = StoreOf(longer, i - 1)
  <2>1. i - 1 \in Nat /\ \A j \in 1..(i - 1) : j <= i - 1 /\ longer[j] = log[j]
    BY <1>1
  <2>2. ASSUME NEW k \in Key
        PROVE  StoreOf(log, i - 1)[k] = StoreOf(longer, i - 1)[k]
    <3>1. Alike(log, i - 1, longer, i - 1, k)
      BY Zenon, <2>1 DEF Alike
    <3> QED BY <2>1, <3>1, SameTouches
  <2> QED BY Zenon, <2>1, <2>2 DEF StoreOf
<1>3. ASSUME NEW i \in 1..Len(longer)
      PROVE  Serial(longer[i], StoreOf(longer, i - 1))
  <2>1. CASE i \in 1..Len(log)
    <3>1. Serial(log[i], StoreOf(log, i - 1))
      BY Zenon, <2>1 DEF SerialLog
    <3> QED BY Zenon, <1>1, <1>2, <2>1, <3>1
  <2>2. CASE i = Len(log) + 1
    <3>1. i - 1 = Len(log)
      BY <1>1, <2>2
    <3> QED BY Zenon, <1>1, <1>2, <2>2, <3>1
  <2> QED BY <1>1, <2>1, <2>2
<1> QED BY Zenon, <1>3 DEF SerialLog, longer

\* Quiet entries leave the store alone.
LEMMA QuietStore ==
    ASSUME NEW log1, NEW log2, NEW lo \in Nat, Len(log1) \in Nat, Len(log2) \in Nat, lo <= Len(log1), lo <= Len(log2),
           \A i \in 1..lo : log2[i] = log1[i], QuietBut(log2, lo, 0)
    PROVE  StoreOf(log2, Len(log2)) = StoreOf(log1, lo)
<1>1. ASSUME NEW k \in Key
      PROVE  StoreOf(log1, lo)[k] = StoreOf(log2, Len(log2))[k]
  <2>1. \A j \in 1..lo : j <= Len(log2) /\ log2[j] = log1[j]
    OBVIOUS
  <2>2. \A j \in 1..Len(log2) : Touches(log2, j, k) => j <= lo
    BY DEF QuietBut, Touches
  <2>3. Alike(log1, lo, log2, Len(log2), k)
    BY <2>1, <2>2 DEF Alike
  <2> QED BY <2>3, SameTouches
<1> QED BY Zenon, <1>1 DEF StoreOf

\* An append is the one exception of a quiet log.
LEMMA QuietAppend ==
    ASSUME NEW log \in Seq(LogEntry), NEW e \in LogEntry, NEW lo \in Nat, NEW x, NEW y,
           QuietBut(log, lo, x),
           \/ e.set = {} /\ e.del = {} /\ y = x
           \/ y = Len(log) + 1 /\ x = 0
    PROVE  QuietBut(Append(log, e), lo, y)
<1> DEFINE longer == Append(log, e)
<1>1. /\ Len(log) \in Nat /\ Len(longer) = Len(log) + 1 /\ longer[Len(log) + 1] = e
      /\ \A i \in 1..Len(log) : longer[i] = log[i]
  BY Zenon, AppendEntry
<1> HIDE DEF longer
<1>2. ASSUME NEW j \in 1..Len(longer), j > lo, j # y
      PROVE  longer[j].set = {} /\ longer[j].del = {}
  <2>1. CASE j \in 1..Len(log)
    <3>1. j # x
      BY <1>2, <2>1
    <3> QED BY Zenon, <1>1, <1>2, <2>1, <3>1 DEF QuietBut
  <2>2. CASE j = Len(log) + 1
    BY Zenon, <1>1, <1>2, <2>2
  <2> QED BY <1>1, <2>1, <2>2
<1> QED BY Zenon, <1>2 DEF QuietBut, longer

\* A log that is quiet from lo on is quiet from any later index on.
LEMMA QuietLater ==
    ASSUME NEW log, NEW lo \in Nat, NEW hi \in Nat, NEW x, NEW y, lo <= hi, QuietBut(log, lo, x),
           Len(log) \in Nat, x = y \/ (x \in Nat /\ x <= hi)
    PROVE  QuietBut(log, hi, y)
<1>1. ASSUME NEW j \in 1..Len(log), j > hi, j # y
      PROVE  j > lo /\ j # x
  BY <1>1
<1> QED BY Zenon, <1>1 DEF QuietBut

\* Logs with the same entries are equal.
LEMMA SameLog ==
    ASSUME NEW log1 \in Seq(LogEntry), NEW log2 \in Seq(LogEntry), Len(log1) = Len(log2),
           \A i \in 1..Len(log1) : log1[i] = log2[i]
    PROVE  log1 = log2
OBVIOUS

\* The entries of a concatenation.
LEMMA Joined ==
    ASSUME NEW s \in Seq(LogEntry), NEW t \in Seq(LogEntry)
    PROVE  /\ s \o t \in Seq(LogEntry) /\ Len(s) \in Nat /\ Len(t) \in Nat /\ Len(s \o t) = Len(s) + Len(t)
           /\ \A i \in 1..Len(s) : (s \o t)[i] = s[i]
           /\ \A p \in 1..Len(t) : (s \o t)[Len(s) + p] = t[p]
<1>1. s \o t \in Seq(LogEntry) /\ Len(s) \in Nat /\ Len(t) \in Nat /\ Len(s \o t) = Len(s) + Len(t)
  OBVIOUS
<1>2. \A i \in 1..Len(s) : (s \o t)[i] = s[i]
  OBVIOUS
<1>3. ASSUME NEW p \in 1..Len(t)
      PROVE  (s \o t)[Len(s) + p] = t[p]
  <2>1. Len(s) + p \in 1..(Len(s) + Len(t)) /\ ~(Len(s) + p <= Len(s))
    BY <1>1
  <2>2. (s \o t)[Len(s) + p] = t[(Len(s) + p) - Len(s)]
    BY <1>1, <2>1
  <2>3. (Len(s) + p) - Len(s) = p
    BY <1>1
  <2> QED BY Zenon, <2>2, <2>3
<1> QED BY Zenon, <1>1, <1>2, <1>3

\* The log of a voter: its type, length and entries.
LEMMA LogOfType ==
    ASSUME RaftTypes, NEW n \in Node
    PROVE  /\ LogOf(n) \in Seq(LogEntry) /\ Len(committed) \in Nat /\ Len(tail[n]) \in Nat
           /\ Len(LogOf(n)) = Len(committed) + Len(tail[n])
           /\ \A i \in 1..Len(committed) : LogOf(n)[i] = committed[i]
           /\ \A p \in 1..Len(tail[n]) : LogOf(n)[Len(committed) + p] = tail[n][p]
           /\ Live(n) => Len(LogOf(n)) = LastIndex(n)
<1>1. committed \in Seq(LogEntry) /\ tail[n] \in Seq(LogEntry)
  BY Zenon DEF RaftTypes
<1> QED BY <1>1, Joined DEF LogOf, Live, LastIndex

\* Appending to the second part appends to the whole.
LEMMA JoinAppend ==
    ASSUME NEW s \in Seq(LogEntry), NEW t \in Seq(LogEntry), NEW e \in LogEntry
    PROVE  s \o Append(t, e) = Append(s \o t, e)
<1> DEFINE log1 == s \o Append(t, e)
           log2 == Append(s \o t, e)
<1>1. log1 \in Seq(LogEntry) /\ log2 \in Seq(LogEntry)
  OBVIOUS
<1>2. /\ Len(s) \in Nat /\ Len(t) \in Nat
      /\ Len(log1) = Len(s) + Len(t) + 1 /\ Len(log2) = Len(s) + Len(t) + 1
  OBVIOUS
<1>3. ASSUME NEW i \in 1..Len(log1)
      PROVE  log1[i] = log2[i]
  <2>1. /\ \A j \in 1..Len(s) : log1[j] = s[j] /\ (s \o t)[j] = s[j]
        /\ \A p \in 1..Len(t) : (s \o t)[Len(s) + p] = t[p]
        /\ \A p \in 1..(Len(t) + 1) : log1[Len(s) + p] = Append(t, e)[p]
        /\ s \o t \in Seq(LogEntry) /\ Len(s \o t) = Len(s) + Len(t)
    BY AppendEntry, Joined
  <2>2. CASE i \in 1..Len(s)
    BY <1>2, <2>1, <2>2, AppendEntry
  <2>3. CASE i > Len(s) /\ i # Len(log1)
    <3> DEFINE p == i - Len(s)
    <3>1. p \in 1..Len(t) /\ p \in 1..(Len(t) + 1) /\ i = Len(s) + p /\ i \in 1..(Len(s) + Len(t))
      BY <1>2, <2>3
    <3> HIDE DEF p
    <3>2. log1[i] = t[p] /\ log2[i] = (s \o t)[i]
      BY <2>1, <3>1, AppendEntry
    <3> QED BY Zenon, <2>1, <3>1, <3>2
  <2>4. CASE i = Len(log1)
    <3>1. i = Len(s) + (Len(t) + 1) /\ i = Len(s \o t) + 1 /\ Len(t) + 1 \in 1..(Len(t) + 1)
      BY <1>2, <2>1, <2>4
    <3>2. log1[i] = e
      BY <2>1, <3>1, AppendEntry
    <3>3. log2[i] = e
      BY <2>1, <3>1, AppendEntry
    <3> QED BY Zenon, <3>2, <3>3
  <2> QED BY <1>2, <2>2, <2>3, <2>4
<1>4. log1 = log2
  <2> HIDE DEF log1, log2
  <2> QED BY Zenon, <1>1, <1>2, <1>3, SameLog
<1> QED BY Zenon, <1>4

\* A proposal appends to the log of its leader ...
LEMMA LogOfAppend ==
    ASSUME Types, [Next]_vars, NEW n \in Node, NEW e \in LogEntry, Appends(n, e)
    PROVE  LogOf(n)' = Append(LogOf(n), e) /\ \A m \in Node \ {n} : LogOf(m)' = LogOf(m)
<1>1. RaftTypes /\ Propose(n, e) /\ committed' = committed
  BY Zenon DEF Types, Appends
<1>2. /\ Len(tail'[n]) = Len(tail[n]) + 1 /\ tail'[n][Len(tail[n]) + 1] = e
      /\ \A p \in 1..Len(tail[n]) : tail'[n][p] = tail[n][p]
      /\ \A o \in Node \ {n} : tail'[o] = tail[o]
  BY Zenon, <1>1, AppendLog
<1>3. tail'[n] = Append(tail[n], e) /\ committed \in Seq(LogEntry) /\ tail[n] \in Seq(LogEntry)
  BY Zenon, <1>1 DEF Propose, RaftTypes
<1>4. committed \o Append(tail[n], e) = Append(committed \o tail[n], e)
  BY Zenon, <1>3, JoinAppend
<1> QED BY Zenon, <1>1, <1>2, <1>3, <1>4 DEF LogOf

\* ... and a commit only moves where its tail begins.
LEMMA LogOfReplicate ==
    ASSUME Types, Elections, [Next]_vars, NEW n \in Node, Replicate(n)
    PROVE  /\ Leads(n) /\ Leads(n)' /\ LogOf(n)' = LogOf(n)
           /\ \A m \in Node \ {n} : ~Live(m)'
           /\ Len(committed') <= Len(LogOf(n)) /\ \A i \in 1..Len(committed') : committed'[i] = LogOf(n)[i]
<1>1. RaftTypes /\ RaftTypes' /\ LogEntry' = LogEntry
  BY Zenon, RaftTypesStep, BoundsKept DEF Types
<1>2. PICK i \in 1..Len(tail[n]) :
               /\ Len(committed') = Len(committed) + i
               /\ \A j \in 1..Len(committed) : committed'[j] = committed[j]
               /\ \A p \in 1..i : committed'[Len(committed) + p] = tail[n][p]
               /\ Len(tail'[n]) = Len(tail[n]) - i /\ tailAt'[n] = tailAt[n] + i
               /\ \A p \in 1..Len(tail'[n]) : tail'[n][p] = tail[n][p + i]
               /\ \A o \in Node \ {n} : tail'[o] = tail[o] /\ tailAt'[o] = tailAt[o]
  BY Zenon, <1>1, ReplicateLog
<1>3. leader[n] /\ leader' = leader /\ tailAt[n] = Len(committed)
  BY Zenon DEF Replicate, Elections
<1>4. Leads(n) /\ Leads(n)'
  BY Zenon, <1>2, <1>3 DEF Leads, Live
<1>5. \A m \in Node \ {n} : ~Live(m)'
  <2>1. \A m \in Node \ {n} : tailAt'[m] <= Len(committed) /\ tailAt'[m] \in Nat
    BY Zenon, <1>1, <1>2 DEF Elections, RaftTypes
  <2>2. Len(committed) \in Nat
    BY <1>1 DEF RaftTypes
  <2> QED BY <1>2, <2>1, <2>2 DEF Live
<1>6. /\ LogOf(n) \in Seq(LogEntry) /\ Len(committed) \in Nat /\ Len(tail[n]) \in Nat
      /\ Len(LogOf(n)) = Len(committed) + Len(tail[n])
      /\ \A j \in 1..Len(committed) : LogOf(n)[j] = committed[j]
      /\ \A p \in 1..Len(tail[n]) : LogOf(n)[Len(committed) + p] = tail[n][p]
  BY Zenon, <1>1, LogOfType
<1>7. committed' \in Seq(LogEntry) /\ tail'[n] \in Seq(LogEntry)
  BY Zenon, <1>1 DEF RaftTypes
<1> DEFINE log1 == committed' \o tail'[n]
<1>8. /\ log1 \in Seq(LogEntry) /\ Len(log1) = Len(LogOf(n))
      /\ \A p \in 1..Len(tail'[n]) : log1[Len(committed') + p] = tail'[n][p]
  <2>1. /\ log1 \in Seq(LogEntry) /\ Len(log1) = Len(committed') + Len(tail'[n])
        /\ \A p \in 1..Len(tail'[n]) : log1[Len(committed') + p] = tail'[n][p]
    BY Zenon, <1>7, Joined
  <2>2. Len(committed') + Len(tail'[n]) = Len(LogOf(n))
    <3>1. i \in Nat /\ Len(committed') = Len(committed) + i /\ Len(tail'[n]) = Len(tail[n]) - i
      BY <1>2, <1>6
    <3>2. Len(committed) \in Nat /\ Len(tail[n]) \in Nat /\ Len(LogOf(n)) = Len(committed) + Len(tail[n])
      BY Zenon, <1>6
    <3>3. (Len(committed) + i) + (Len(tail[n]) - i) = Len(committed) + Len(tail[n])
      <4>1. \A a, b, c \in Nat : (a + c) + (b - c) = a + b
        OBVIOUS
      <4>2. i \in Nat /\ Len(committed) \in Nat /\ Len(tail[n]) \in Nat
        BY Zenon, <3>1, <3>2
      <4> QED BY Zenon, <4>1, <4>2
    <3> QED BY Zenon, <3>1, <3>2, <3>3
  <2> QED BY Zenon, <2>1, <2>2
<1>9. \A j \in 1..Len(committed') : committed'[j] = LogOf(n)[j]
  <2> SUFFICES ASSUME NEW j \in 1..Len(committed')
               PROVE  committed'[j] = LogOf(n)[j]
    BY Zenon
  <2>1. CASE j \in 1..Len(committed)
    BY Zenon, <1>2, <1>6, <2>1
  <2>2. CASE j > Len(committed)
    <3> DEFINE p == j - Len(committed)
    <3>1. p \in 1..i /\ p \in 1..Len(tail[n]) /\ j = Len(committed) + p
      BY <1>2, <1>6, <2>2
    <3> HIDE DEF p
    <3> QED BY Zenon, <1>2, <1>6, <3>1
  <2> QED BY <1>2, <1>6, <2>1, <2>2
<1>10. ASSUME NEW j \in 1..Len(log1)
       PROVE  log1[j] = LogOf(n)[j]
  <2>1. CASE j \in 1..Len(committed')
    <3>1. log1[j] = committed'[j]
      BY <1>7, <2>1
    <3> QED BY Zenon, <1>9, <2>1, <3>1
  <2>2. CASE j > Len(committed')
    <3> DEFINE p == j - Len(committed')
    <3>1. p \in 1..Len(tail'[n]) /\ log1[j] = tail'[n][p]
      <4>1. j \in 1..(Len(committed) + Len(tail[n])) /\ Len(committed') \in Nat
        BY <1>2, <1>6, <1>8
      <4>2. p \in 1..Len(tail'[n]) /\ j = Len(committed') + p
        BY <1>2, <1>6, <2>2, <4>1
      <4> HIDE DEF p, log1
      <4> QED BY Zenon, <1>8, <4>2
    <3>2. p + i \in 1..Len(tail[n]) /\ j = Len(committed) + (p + i)
      BY <1>2, <1>6, <2>2, <3>1
    <3> HIDE DEF p
    <3> QED BY Zenon, <1>2, <1>6, <3>1, <3>2
  <2> QED BY SMTT(30), <1>2, <1>6, <1>8, <2>1, <2>2
<1>11. log1 = LogOf(n)
  <2> HIDE DEF log1
  <2> QED BY Zenon, <1>6, <1>8, <1>10, SameLog
<1>12. Len(committed') <= Len(LogOf(n))
  BY <1>2, <1>6
<1> QED BY Zenon, <1>4, <1>5, <1>9, <1>11, <1>12 DEF LogOf

-----------------------------------------------------------------------------
(* Writes.  The entry that a caller waits for is the only one that any log  *)
(* has or will ever have at its index with its term.                       *)

Placed(n, at, t, id) ==
    /\ at > 0 /\ t <= newest
    /\ \A m \in Node : leader[m] /\ term[m] = t => m = n /\ at <= LastIndex(n)
    /\ \A j \in Nat, e \in LogEntry : j = at /\ Logged(j, e) /\ e.term = t => e.id = id
PlacedNext(n, at, t, id) ==
    /\ at > 0 /\ t <= newest'
    /\ \A m \in Node : leader'[m] /\ term'[m] = t => m = n /\ at <= LastIndex(n)'
    /\ \A j \in Nat, e \in LogEntry : j = at /\ Logged(j, e)' /\ e.term = t => e.id = id

\* A proposed entry is so placed ...
LEMMA PlacedFirst ==
    ASSUME Types, Elections, NEW n \in Node, NEW e \in LogEntry, Appends(n, e)
    PROVE  PlacedNext(n, LastIndex(n) + 1, term[n], e.id)
<1>1. RaftTypes /\ newest' = newest /\ term' = term /\ leader' = leader /\ leader[n] /\ e.term = term[n]
  BY Zenon, NewestKept DEF Appends, Types
<1>2. /\ \A j \in Nat : \A f : Logged(j, f)' => Logged(j, f) \/ (f = e /\ j = LastIndex(n) + 1)
      /\ LastIndex(n)' = LastIndex(n) + 1
  BY Zenon, <1>1, AppendLogged DEF Appends
<1>3. term[n] <= newest /\ LastIndex(n) \in Nat
  BY Zenon, <1>1, NewestTerm, LastIndexType
<1>4. \A m \in Node : leader'[m] /\ term'[m] = term[n] => m = n
  BY Zenon, <1>1 DEF Elections
<1>5. ASSUME NEW f \in LogEntry, Logged(LastIndex(n) + 1, f), f.term = term[n]
      PROVE  FALSE
  <2>1. LastIndex(n) + 1 <= LastIndex(n)
    BY <1>1, <1>3, <1>5 DEF Elections
  <2> QED BY <1>3, <2>1
<1>6. ASSUME NEW j \in Nat, NEW f \in LogEntry, j = LastIndex(n) + 1, Logged(j, f)', f.term = term[n]
      PROVE  f.id = e.id
  BY Zenon, <1>2, <1>5, <1>6
<1>7. LastIndex(n) + 1 > 0 /\ LastIndex(n) + 1 <= LastIndex(n)'
  BY <1>2, <1>3
<1> QED BY Zenon, <1>1, <1>3, <1>4, <1>6, <1>7 DEF PlacedNext

\* ... and stays so.
LEMMA PlacedKept ==
    ASSUME Types, Elections, [Next]_vars, NEW n \in Node, NEW at \in Nat, NEW t \in Nat, NEW id, Placed(n, at, t, id)
    PROVE  PlacedNext(n, at, t, id)
<1>1. RaftTypes /\ newest \in Nat /\ \A m \in Node : LastIndex(m) \in Nat
  BY Zenon, NewestTerm, LastIndexType DEF Types
<1>2. /\ at > 0 /\ t <= newest
      /\ \A m \in Node : leader[m] /\ term[m] = t => m = n /\ at <= LastIndex(n)
      /\ \A e \in LogEntry : Logged(at, e) /\ e.term = t => e.id = id
  BY Zenon DEF Placed
<1>3. CASE UNCHANGED raftVars
  <2>1. newest' = newest /\ LastIndex(n)' = LastIndex(n) /\ term' = term /\ leader' = leader
    BY Zenon, <1>1, <1>3, NewestKept DEF raftVars, LastIndex
  <2>2. \A j \in Nat : \A e : Logged(j, e)' => Logged(j, e)
    BY Zenon, <1>3 DEF raftVars, Logged
  <2> QED BY Zenon, <1>2, <2>1, <2>2 DEF PlacedNext
<1>4. ASSUME NEW o \in Node, Elect(o)
      PROVE  PlacedNext(n, at, t, id)
  <2>1. /\ newest' = newest + 1 /\ term' = [term EXCEPT ![o] = newest + 1]
        /\ leader' = [leader EXCEPT ![o] = TRUE]
    BY Zenon, <1>1, <1>4, ElectTypes DEF Elect
  <2>2. /\ \A m \in Node : term'[m] = IF m = o THEN newest + 1 ELSE term[m]
        /\ \A m \in Node : leader'[m] = IF m = o THEN TRUE ELSE leader[m]
    BY Zenon, <1>1, <2>1 DEF RaftTypes
  <2>3. \A m \in Node \ {o} : LastIndex(m)' = LastIndex(m)
    BY Zenon, <1>1, <1>4 DEF RaftTypes, Elect, LastIndex
  <2>4. t <= newest' /\ t # newest + 1
    BY <1>1, <1>2, <2>1
  <2>5. ASSUME NEW m \in Node, leader'[m], term'[m] = t
        PROVE  m = n /\ at <= LastIndex(n)'
    <3>1. m # o /\ leader[m] /\ term[m] = t
      BY Zenon, <2>2, <2>4, <2>5
    <3>2. m = n /\ at <= LastIndex(n)
      BY Zenon, <1>2, <3>1
    <3> QED BY Zenon, <2>3, <3>1, <3>2
  <2>6. ASSUME NEW j \in Nat, NEW e \in LogEntry, j = at, Logged(j, e)', e.term = t
        PROVE  e.id = id
    <3>1. Logged(j, e) \/ e = Mark(newest + 1)
      BY <1>1, <1>4, <2>6, ElectLogged
    <3>2. Mark(newest + 1).term = newest + 1
      BY Zenon DEF Mark
    <3> QED BY Zenon, <1>2, <2>4, <2>6, <3>1, <3>2
  <2> QED BY Zenon, <1>2, <2>4, <2>5, <2>6 DEF PlacedNext
<1>5. ASSUME NEW o \in Node, Lower(o)
      PROVE  PlacedNext(n, at, t, id)
  <2>1. newest' = newest /\ LastIndex(n)' = LastIndex(n) /\ term' = term
    BY Zenon, <1>1, <1>5, NewestKept DEF Lower, LastIndex
  <2>2. \A j \in Nat : \A e : Logged(j, e)' => Logged(j, e)
    BY Zenon, <1>5 DEF Lower, Logged
  <2>3. \A m \in Node : leader'[m] => leader[m]
    BY Zenon, <1>1, <1>5 DEF Lower, RaftTypes
  <2> QED BY Zenon, <1>2, <2>1, <2>2, <2>3 DEF PlacedNext
<1>6. ASSUME NEW o \in Node, Replicate(o)
      PROVE  PlacedNext(n, at, t, id)
  <2>1. newest' = newest /\ term' = term /\ leader' = leader
    BY Zenon, <1>1, <1>6, NewestKept DEF Replicate
  <2>2. LastIndex(n)' = LastIndex(n) /\ \A j \in Nat : \A e : Logged(j, e)' => Logged(j, e)
    BY Zenon, <1>1, <1>6, ReplicateLogged
  <2> QED BY Zenon, <1>2, <2>1, <2>2 DEF PlacedNext
<1>7. ASSUME NEW o \in Node, NEW f \in LogEntry, Appends(o, f)
      PROVE  PlacedNext(n, at, t, id)
  <2>1. newest' = newest /\ term' = term /\ leader' = leader /\ leader[o] /\ f.term = term[o]
    BY Zenon, <1>1, <1>7, NewestKept DEF Appends
  <2>2. /\ \A j \in Nat : \A e : Logged(j, e)' => Logged(j, e) \/ (e = f /\ j = LastIndex(o) + 1)
        /\ LastIndex(o)' = LastIndex(o) + 1
        /\ \A m \in Node \ {o} : LastIndex(m)' = LastIndex(m)
    BY Zenon, <1>1, <1>7, AppendLogged DEF Appends
  <2>3. LastIndex(n) <= LastIndex(n)' /\ LastIndex(n)' \in Nat /\ LastIndex(n) \in Nat /\ LastIndex(o) \in Nat
    BY <1>1, <2>2
  <2>4. ASSUME NEW j \in Nat, NEW e \in LogEntry, j = at, Logged(j, e)', e.term = t
        PROVE  e.id = id
    <3>1. CASE Logged(j, e)
      BY Zenon, <1>2, <2>4, <3>1
    <3>2. CASE e = f /\ j = LastIndex(o) + 1
      <4>1. o = n /\ at <= LastIndex(n)
        BY Zenon, <1>2, <2>1, <2>4, <3>2
      <4> QED BY <2>3, <2>4, <3>2, <4>1
    <3> QED BY Zenon, <2>2, <2>4, <3>1, <3>2
  <2>5. \A m \in Node : leader'[m] /\ term'[m] = t => m = n /\ at <= LastIndex(n)'
    BY <1>2, <2>1, <2>3
  <2> QED BY Zenon, <1>2, <2>1, <2>4, <2>5 DEF PlacedNext
<1> QED BY Zenon, <1>3, <1>4, <1>5, <1>6, <1>7, RaftSteps

\* Terms only grow.
LEMMA TermsGrow ==
    ASSUME Types, [Next]_vars, NEW n \in Node
    PROVE  term[n] <= term'[n] /\ term[n] \in Nat /\ term'[n] \in Nat
<1>1. RaftTypes /\ RaftTypes'
  BY Zenon, RaftTypesStep DEF Types
<1>2. term[n] \in Nat /\ newest \in Nat /\ term[n] <= newest
  BY Zenon, <1>1, NewestTerm, TermTypes
<1>3. term'[n] = term[n] \/ term'[n] = newest + 1
  <2>1. term' = term \/ \E m \in Node : term' = [term EXCEPT ![m] = newest + 1]
    BY Zenon, RaftSteps DEF raftVars, Elect, Lower, Replicate, Appends
  <2> QED BY Zenon, <1>1, <2>1 DEF RaftTypes
<1> QED BY <1>2, <1>3

\* What a step may do to the writers.
LEMMA WriteSteps ==
    ASSUME [Next]_vars
    PROVE  \/ UNCHANGED writeVars
           \/ \E n \in Node : \/ Restart(n) \/ WriteBegin(n) \/ WriteBarrier(n) \/ BarrierDone(n)
                              \/ Stage(n) \/ WritePropose(n) \/ WriteDone(n) \/ WriteFail(n)
<1>1. CASE UNCHANGED vars
  BY Zenon, <1>1 DEF vars, writeVars
<1>2. ASSUME NEW n \in Node, \/ Elect(n) \/ StepDown(n) \/ Replicate(n)
                             \/ Apply(n) \/ ApplyFail(n) \/ Snapshot(n) \/ (\E m \in Node : RestoreBegin(n, m))
                             \/ RestoreEnd(n) \/ RestoreFail(n)
                             \/ (\E entry \in Entry : ReadBegin(n, entry))
                             \/ ReadCheck(n) \/ ReadBarrier(n) \/ ReadBarrierDone(n) \/ View(n) \/ ReadEnd(n)
      PROVE  UNCHANGED writeVars
  BY Zenon, <1>2 DEF Elect, StepDown, Replicate, Apply, ApplyFail, Snapshot, RestoreBegin, RestoreEnd, RestoreFail,
      ReadBegin, ReadCheck, ReadBarrier, ReadBarrierDone, View, ReadEnd, readFrame
<1> QED BY Zenon, <1>1, <1>2 DEF Next, NodeStep

Waits(n) == writer[n].pc = "wait" => Placed(n, writer[n].at, writer[n].term, writer[n].id)
Checks(n) ==
    /\ barrierTerm[n] <= term[n]
    /\ writer[n].pc \in {"catchUp", "stage", "barrier"} => writer[n].seen <= term[n]
Acks == ackedAt <= Len(committed) /\ acked \subseteq {committed[i].id : i \in 1..Len(committed)}
Writes == Acks /\ \A n \in Node : Waits(n) /\ Checks(n)

\* The fields of a writer, by where it is.
LEMMA WriterFields ==
    ASSUME Types, NEW n \in Node
    PROVE  /\ writer[n].pc \in {"catchUp", "stage", "barrier"} => writer[n].seen \in Nat
           /\ writer[n].pc \in {"barrier", "wait"} => writer[n].at \in Nat /\ writer[n].term \in Nat
           /\ writer[n].pc = "wait" => writer[n].id \in Statement
           /\ writer[n].pc = "propose" => /\ writer[n].id \in Statement /\ writer[n].set \in SUBSET Key /\ writer[n].del \in SUBSET Key
                                          /\ writer[n].base \in Store /\ writer[n].checked \in Nat
<1>1. writer[n] \in WriterState
  BY Zenon DEF Types, CallTypes
<1> QED BY Zenon, <1>1 DEF WriterState

\* What a step of ApplyWrite, or a restart, makes of its writer.
LEMMA WriterChange ==
    ASSUME Types, NEW n \in Node, \/ Restart(n) \/ WriteBegin(n) \/ WriteBarrier(n) \/ BarrierDone(n)
                                  \/ Stage(n) \/ WritePropose(n) \/ WriteDone(n) \/ WriteFail(n)
    PROVE  /\ \A m \in Node \ {n} : writer'[m] = writer[m] /\ barrierTerm'[m] = barrierTerm[m]
           /\ \/ writer'[n].pc \in {"idle", "propose"}
              \/ writer'[n].pc \in {"catchUp", "stage"} /\ writer'[n].seen = term[n]
              \/ /\ writer[n].pc \in {"catchUp", "barrier"} /\ writer'[n].pc \in {"stage", "barrier"}
                 /\ writer'[n].seen = writer[n].seen
              \/ WritePropose(n) /\ leader[n]
           /\ \/ barrierTerm'[n] \in {barrierTerm[n], 0}
              \/ writer[n].pc = "barrier" /\ barrierTerm'[n] = writer[n].seen
<1>1. writer \in [Node -> WriterState] /\ barrierTerm \in [Node -> Nat]
  BY Zenon DEF Types, CallTypes
<1>2. CASE Restart(n)
  BY Zenon, <1>1, <1>2 DEF Restart, IdleWriter
<1>3. CASE WriteBegin(n)
  <2>1. /\ writer'[n] = [pc |-> IF term[n] = barrierTerm[n] THEN "stage" ELSE "catchUp", seen |-> term[n]]
        /\ barrierTerm' = barrierTerm /\ \A m \in Node \ {n} : writer'[m] = writer[m]
    BY Zenon, <1>1, <1>3 DEF WriteBegin
  <2>2. writer'[n].pc \in {"catchUp", "stage"} /\ writer'[n].seen = term[n]
    <3>1. CASE term[n] = barrierTerm[n]
      BY <2>1, <3>1
    <3>2. CASE term[n] # barrierTerm[n]
      <4>1. writer'[n] = [pc |-> "catchUp", seen |-> term[n]]
        BY Zenon, <2>1, <3>2
      <4>2. writer'[n].pc = "catchUp"
        BY <4>1
      <4>3. writer'[n].seen = term[n]
        BY <4>1
      <4> QED BY Zenon, <4>2, <4>3
    <3> QED BY Zenon, <3>1, <3>2
  <2> QED BY Zenon, <2>1, <2>2
<1>4. CASE WriteBarrier(n)
  <2>1. /\ writer[n].pc = "catchUp" /\ barrierTerm' = barrierTerm
        /\ \/ writer' = [writer EXCEPT ![n] = [pc |-> "barrier", seen |-> @.seen, at |-> LastIndex(n) + 1, term |-> term[n]]]
           \/ writer' = [writer EXCEPT ![n] = IdleWriter]
    BY Zenon, <1>4 DEF WriteBarrier, Return
  <2>2. CASE writer' = [writer EXCEPT ![n] = [pc |-> "barrier", seen |-> @.seen, at |-> LastIndex(n) + 1, term |-> term[n]]]
    <3>1. writer'[n] = [pc |-> "barrier", seen |-> writer[n].seen, at |-> LastIndex(n) + 1, term |-> term[n]]
      BY Zenon, <1>1, <2>2
    <3>2. writer'[n].pc = "barrier" /\ writer'[n].seen = writer[n].seen
      BY <3>1
    <3> QED BY Zenon, <1>1, <2>1, <2>2, <3>2
  <2>3. CASE writer' = [writer EXCEPT ![n] = IdleWriter]
    BY Zenon, <1>1, <2>1, <2>3 DEF IdleWriter
  <2> QED BY Zenon, <2>1, <2>2, <2>3
<1>5. CASE BarrierDone(n)
  <2>1. /\ writer[n].pc = "barrier" /\ barrierTerm'[n] = writer[n].seen
        /\ writer'[n] = [pc |-> "stage", seen |-> writer[n].seen]
        /\ \A m \in Node \ {n} : writer'[m] = writer[m] /\ barrierTerm'[m] = barrierTerm[m]
    BY Zenon, <1>1, <1>5 DEF BarrierDone
  <2>2. writer'[n].pc = "stage" /\ writer'[n].seen = writer[n].seen
    BY <2>1
  <2> QED BY Zenon, <2>1, <2>2
<1>6. CASE Stage(n)
  <2>1. barrierTerm' = barrierTerm
    BY Zenon, <1>6 DEF Stage
  <2>2. CASE writer' = [writer EXCEPT ![n] = IdleWriter]
    <3>1. writer'[n] = IdleWriter /\ \A m \in Node \ {n} : writer'[m] = writer[m]
      BY Zenon, <1>1, <2>2
    <3> QED BY <2>1, <3>1 DEF IdleWriter
  <2>3. ASSUME NEW w, w.pc = "propose", writer' = [writer EXCEPT ![n] = w]
        PROVE  writer'[n].pc = "propose" /\ \A m \in Node \ {n} : writer'[m] = writer[m]
    BY Zenon, <1>1, <2>3
  <2>4. CASE writer' # [writer EXCEPT ![n] = IdleWriter]
    <3>1. PICK set \in SUBSET WriteKey, del \in SUBSET WriteKey :
              writer' = [writer EXCEPT ![n] = [pc |-> "propose", id |-> NextId, set |-> set,
                                del |-> del, base |-> store[n], checked |-> @.seen]]
      BY Zenon, <1>6, <2>4 DEF Stage, Return
    <3> DEFINE w == [pc |-> "propose", id |-> NextId, set |-> set, del |-> del, base |-> store[n], checked |-> writer[n].seen]
    <3>2. w.pc = "propose" /\ writer' = [writer EXCEPT ![n] = w]
      BY Zenon, <3>1
    <3> HIDE DEF w
    <3> QED BY Zenon, <2>1, <2>3, <3>2
  <2> QED BY Zenon, <2>2, <2>4
<1>7. CASE WritePropose(n)
  <2>1. barrierTerm' = barrierTerm /\ \A m \in Node \ {n} : writer'[m] = writer[m]
    BY Zenon, <1>1, <1>7 DEF WritePropose, Return
  <2>2. ~leader[n] => writer'[n].pc = "idle"
    BY <1>1, <1>7 DEF WritePropose, Return, IdleWriter
  <2> QED BY Zenon, <1>7, <2>1, <2>2
<1>8. CASE WriteDone(n) \/ WriteFail(n)
  <2>1. writer' = [writer EXCEPT ![n] = IdleWriter] /\ barrierTerm' = barrierTerm
    BY Zenon, <1>8 DEF WriteDone, WriteFail, Return
  <2>2. IdleWriter.pc = "idle"
    BY Zenon DEF IdleWriter
  <2> QED BY Zenon, <1>1, <2>1, <2>2
<1> QED BY Zenon, <1>2, <1>3, <1>4, <1>5, <1>6, <1>7, <1>8

\* Writes holds at the start.
LEMMA WritesInit ==
    ASSUME Init
    PROVE  Writes
<1>1. Types
  BY Zenon, TypesInit
<1>2. \A n \in Node : writer[n].pc = "idle" /\ barrierTerm[n] = 0
  <2>1. writer = [n \in Node |-> IdleWriter] /\ barrierTerm = [n \in Node |-> 0]
    BY Zenon DEF Init
  <2> QED BY Zenon, <2>1 DEF IdleWriter
<1>3. \A n \in Node : term[n] = 1
  <2>1. term = [n \in Node |-> 1]
    BY Zenon DEF Init
  <2> QED BY Zenon, <2>1
<1>4. 0 <= 1
  OBVIOUS
<1>5. Len(committed) = 1 /\ ackedAt = 0 /\ acked = {}
  BY Zenon DEF Init
<1>6. 0 <= Len(committed)
  BY <1>5
<1> QED BY Zenon, <1>2, <1>3, <1>4, <1>5, <1>6 DEF Writes, Acks, Waits, Checks

\* The entry of a waiting write stays where it is, or is lost to another term.
LEMMA WaitsStep ==
    ASSUME Types, Elections, Writes, [Next]_vars, NEW n \in Node
    PROVE  Waits(n)'
<1>1. LogEntry' = LogEntry /\ bound' = bound
  BY Zenon, RaftTypesStep, BoundsKept
<1>2. CASE writer'[n] = writer[n]
  <2> SUFFICES ASSUME writer[n].pc = "wait"
               PROVE  Placed(n, writer[n].at, writer[n].term, writer[n].id)'
    BY Zenon, <1>2 DEF Waits
  <2>1. PlacedNext(n, writer[n].at, writer[n].term, writer[n].id)
    BY Zenon, PlacedKept, WriterFields DEF Writes, Waits
  <2> QED BY Zenon, <1>1, <1>2, <2>1 DEF Placed, PlacedNext
<1>3. CASE writer'[n].pc # "wait"
  BY Zenon, <1>3 DEF Waits
<1>4. CASE WritePropose(n) /\ leader[n]
  <2> DEFINE w == writer[n]
             e == Command(term[n], w.id, w.set, w.del, w.base, w.checked)
  <2>1. e \in LogEntry /\ e.term = term[n] /\ e.id = w.id
    <3>1. term[n] \in Nat
      BY Zenon, TermTypes DEF Types
    <3>2. w.pc = "propose"
      BY Zenon, <1>4 DEF WritePropose
    <3>3. e \in LogEntry
      BY Zenon, <3>1, <3>2, WriterFields, EntryTypes
    <3> QED BY Zenon, <3>3 DEF Command
  <2>2. Appends(n, e)
    BY Zenon, <1>4, <2>1 DEF WritePropose, writeFrame, Appends
  <2>3. PlacedNext(n, LastIndex(n) + 1, term[n], e.id)
    BY Zenon, <2>1, <2>2, PlacedFirst
  <2>4. writer'[n] = [pc |-> "wait", id |-> w.id, at |-> LastIndex(n) + 1, term |-> term[n]]
    BY Zenon, <1>4 DEF WritePropose, Types, CallTypes
  <2>5. writer'[n].at = LastIndex(n) + 1 /\ writer'[n].term = term[n] /\ writer'[n].id = e.id
    BY <2>1, <2>4
  <2> HIDE DEF e, w
  <2>6. Placed(n, writer[n].at, writer[n].term, writer[n].id)'
    BY Zenon, <1>1, <2>3, <2>5 DEF Placed, PlacedNext
  <2> QED BY Zenon, <2>6 DEF Waits
<1>5. writer'[n] = writer[n] \/ writer'[n].pc # "wait" \/ (WritePropose(n) /\ leader[n])
  <2>1. CASE UNCHANGED writeVars
    BY Zenon, <2>1 DEF writeVars
  <2> QED BY Zenon, <2>1, WriteSteps, WriterChange
<1> QED BY Zenon, <1>2, <1>3, <1>4, <1>5

\* No barrier, and no statement, is ahead of the term of its voter.
LEMMA ChecksStep ==
    ASSUME Types, Writes, [Next]_vars, NEW n \in Node
    PROVE  Checks(n)'
<1>1. term[n] <= term'[n] /\ term[n] \in Nat /\ term'[n] \in Nat
  BY Zenon, TermsGrow
<1>2. /\ barrierTerm[n] \in Nat /\ barrierTerm[n] <= term[n]
      /\ writer[n].pc \in {"catchUp", "stage", "barrier"} => writer[n].seen \in Nat /\ writer[n].seen <= term[n]
  BY Zenon, WriterFields DEF Writes, Checks, Types, CallTypes
<1>3. /\ \/ writer'[n] = writer[n]
         \/ writer'[n].pc \in {"idle", "propose", "wait"}
         \/ writer'[n].seen = term[n]
         \/ writer[n].pc \in {"catchUp", "barrier"} /\ writer'[n].seen = writer[n].seen
      /\ \/ barrierTerm'[n] \in {barrierTerm[n], 0}
         \/ writer[n].pc = "barrier" /\ barrierTerm'[n] = writer[n].seen
  <2>1. CASE UNCHANGED writeVars
    BY Zenon, <2>1 DEF writeVars
  <2>2. WritePropose(n) /\ leader[n] => writer'[n].pc = "wait"
    BY DEF WritePropose, Types, CallTypes
  <2> QED BY Zenon, <2>1, <2>2, WriteSteps, WriterChange
<1>4. barrierTerm'[n] <= term'[n]
  BY <1>1, <1>2, <1>3
<1>5. ASSUME writer'[n].pc \in {"catchUp", "stage", "barrier"}
      PROVE  writer'[n].seen <= term'[n]
  BY <1>1, <1>2, <1>3, <1>5
<1> QED BY Zenon, <1>4, <1>5 DEF Checks

\* Only committed writes are acknowledged.
LEMMA AcksStep ==
    ASSUME Types, Stores, Writes, [Next]_vars
    PROVE  Acks'
<1>1. Grows /\ Len(committed) \in Nat /\ Len(committed') \in Nat /\ committed \in Seq(LogEntry)
  BY Zenon, LogGrows DEF Types, RaftTypes
<1>2. ackedAt \in Nat /\ ackedAt <= Len(committed) /\ acked \subseteq {committed[i].id : i \in 1..Len(committed)}
  BY Zenon DEF Types, CallTypes, Writes, Acks
<1>3. {committed[i].id : i \in 1..Len(committed)} \subseteq {committed'[i].id : i \in 1..Len(committed')}
  BY <1>1 DEF Grows
<1>4. CASE acked' = acked /\ ackedAt' = ackedAt
  <2>1. ackedAt' <= Len(committed')
    BY <1>1, <1>2, <1>4 DEF Grows
  <2> QED BY Zenon, <1>2, <1>3, <1>4, <2>1 DEF Acks
<1>5. ASSUME NEW n \in Node, WriteDone(n)
      PROVE  Acks'
  <2> DEFINE at == writer[n].at
  <2>1. /\ writer[n].pc = "wait" /\ applied[n] >= at /\ committed[at].term = writer[n].term
        /\ acked' = acked \cup {writer[n].id} /\ ackedAt' = IF at > ackedAt THEN at ELSE ackedAt
        /\ committed' = committed
    BY Zenon, <1>5 DEF WriteDone, Settled, writeFrame
  <2>2. at \in Nat /\ applied[n] \in Nat /\ applied[n] <= reached[n] /\ reached[n] \in Nat /\ reached[n] <= Len(committed)
    BY Zenon, <2>1, WriterFields DEF Types, FsmTypes, Stores
  <2>3. Placed(n, at, writer[n].term, writer[n].id)
    BY Zenon, <2>1 DEF Writes, Waits
  <2>4. at \in 1..Len(committed)
    BY <1>1, <2>1, <2>2, <2>3 DEF Placed
  <2> HIDE DEF at
  <2>5. Logged(at, committed[at]) /\ committed[at] \in LogEntry
    BY <1>1, <2>4 DEF Logged
  <2>6. committed[at].id = writer[n].id
    BY Zenon, <2>1, <2>2, <2>3, <2>5 DEF Placed
  <2>7. ackedAt' <= Len(committed)
    BY <1>1, <1>2, <2>1, <2>4
  <2> QED BY Zenon, <1>2, <2>1, <2>4, <2>6, <2>7 DEF Acks
<1>6. (acked' = acked /\ ackedAt' = ackedAt) \/ \E n \in Node : WriteDone(n)
  BY Zenon, WriteSteps DEF writeVars, Restart, WriteBegin, WriteBarrier, BarrierDone, Stage, WritePropose, WriteFail
<1> QED BY Zenon, <1>4, <1>5, <1>6

\* Writes is inductive given types, elections and stores ...
LEMMA WritesStep ==
    ASSUME Types, Elections, Stores, Writes, [Next]_vars
    PROVE  Writes'
<1>1. Acks' /\ \A n \in Node : Waits(n)' /\ Checks(n)'
  BY Zenon, WaitsStep, ChecksStep, AcksStep
<1> QED BY Zenon, <1>1 DEF Writes

\* ... and implies that what was acknowledged is committed.
LEMMA WritesCommitted ==
    ASSUME Types, Stores, Writes
    PROVE  AckedCommitted
<1>1. committed \in Seq(LogEntry) /\ Len(committed) \in Nat /\ MaxTerm \in Nat
  BY TermTypes DEF Types, RaftTypes
<1>2. ASSUME NEW i \in 1..Len(committed)
      PROVE  committed[i].id \in Statement \cup {None}
  <2>1. committed[i] \in LogEntry
    BY <1>1
  <2> QED BY Zenon, <2>1 DEF LogEntry
<1>3. term \in [Node -> 0..MaxTerm] /\ leader \in [Node -> BOOLEAN]
  BY <1>1 DEF Types, RaftTypes
<1>4. ASSUME NEW n \in Node
      PROVE  applied[n] \in 0..Len(committed) /\ reached[n] \in 0..Len(committed)
  <2>1. applied[n] \in Nat /\ reached[n] \in Nat /\ applied[n] <= reached[n] /\ reached[n] <= Len(committed)
    BY Zenon DEF Types, FsmTypes, Stores
  <2> QED BY <1>1, <2>1
<1>5. store \in [Node -> Store] /\ restore \in [Node -> {"no", "loading", "failed"}]
  BY Zenon DEF Types, FsmTypes
<1>6. barrierTerm \in [Node -> 0..MaxTerm]
  <2>1. ASSUME NEW n \in Node
        PROVE  barrierTerm[n] \in 0..MaxTerm
    <3>1. barrierTerm[n] \in Nat /\ barrierTerm[n] <= term[n] /\ term[n] \in 0..MaxTerm
      BY Zenon, <1>3 DEF Types, CallTypes, Writes, Checks
    <3> QED BY <1>1, <3>1
  <2> QED BY Zenon, <2>1 DEF Types, CallTypes
<1>7. acked \subseteq Statement /\ ackedAt \in 0..Len(committed)
  BY <1>1 DEF Types, CallTypes, Writes, Acks
<1>8. TypeOK
  BY Zenon, <1>2, <1>3, <1>4, <1>5, <1>6, <1>7 DEF TypeOK
<1> QED BY Zenon, <1>8 DEF AckedCommitted, Writes, Acks

\* A write that ApplyWrite reports is in the committed log, for any elections,
\* crashes and lost leaderships, and every variable holds what it can hold.
THEOREM WritesAcknowledged == Spec => []AckedCommitted
<1> DEFINE Inv == Types /\ Elections /\ Stores /\ Writes
<1>1. Init => Inv
  BY Zenon, TypesInit, ElectionsInit, StoresInit, WritesInit
<1>2. Inv /\ [Next]_vars => Inv'
  BY Zenon, TypesStep, ElectionsStep, StoresStep, WritesStep
<1>3. Inv => AckedCommitted
  BY Zenon, WritesCommitted
<1> QED BY <1>1, <1>2, <1>3, PTL DEF Spec

WriteAction(n) ==
    \/ Restart(n) \/ WriteBegin(n) \/ WriteBarrier(n) \/ BarrierDone(n)
    \/ Stage(n) \/ WritePropose(n) \/ WriteDone(n) \/ WriteFail(n)

\* A step either is one of the writer or leaves it as it is.
LEMMA WriterCases ==
    ASSUME Types, [Next]_vars, NEW n \in Node
    PROVE  WriteAction(n) \/ (writer'[n] = writer[n] /\ barrierTerm'[n] = barrierTerm[n])
<1>1. CASE UNCHANGED writeVars
  BY Zenon, <1>1 DEF writeVars
<1> QED BY Zenon, <1>1, WriteSteps, WriterChange DEF WriteAction

\* Where each state of a writer comes from.
LEMMA WriterFrom ==
    ASSUME Types, NEW n \in Node, WriteAction(n)
    PROVE  /\ writer'[n].pc = "stage" => writer'[n].seen = barrierTerm'[n]
           /\ writer'[n].pc = "propose" => /\ Stage(n) /\ writer[n].pc = "stage"
                                           /\ writer'[n].base = store[n] /\ writer'[n].checked = writer[n].seen
           /\ writer'[n].pc = "barrier" => /\ WriteBarrier(n) /\ leader[n] /\ writer[n].pc = "catchUp"
                                           /\ writer'[n].seen = writer[n].seen
                                           /\ writer'[n].at = LastIndex(n) + 1 /\ writer'[n].term = term[n]
           /\ writer'[n].pc = "wait" => /\ WritePropose(n) /\ leader[n]
                                        /\ writer'[n].at = LastIndex(n) + 1 /\ writer'[n].term = term[n]
           /\ barrierTerm'[n] = barrierTerm[n] \/ Restart(n) \/ BarrierDone(n)
<1>1. writer \in [Node -> WriterState] /\ barrierTerm \in [Node -> Nat] /\ IdleWriter.pc = "idle"
  BY Zenon DEF Types, CallTypes, IdleWriter
<1>2. CASE Restart(n)
  <2>1. writer'[n] = IdleWriter
    BY Zenon, <1>1, <1>2 DEF Restart
  <2> QED BY Zenon, <1>1, <1>2, <2>1
<1>3. CASE WriteDone(n) \/ WriteFail(n) \/ (WritePropose(n) /\ ~leader[n]) \/ (WriteBarrier(n) /\ ~leader[n])
  <2>1. writer' = [writer EXCEPT ![n] = IdleWriter] /\ barrierTerm' = barrierTerm
    BY Zenon, <1>3 DEF WriteDone, WriteFail, WritePropose, WriteBarrier, Return
  <2>2. writer'[n] = IdleWriter
    BY Zenon, <1>1, <2>1
  <2> QED BY Zenon, <1>1, <2>1, <2>2
<1>4. CASE WriteBegin(n)
  <2>1. writer'[n] = [pc |-> IF term[n] = barrierTerm[n] THEN "stage" ELSE "catchUp", seen |-> term[n]] /\ barrierTerm' = barrierTerm
    BY Zenon, <1>1, <1>4 DEF WriteBegin
  <2>2. CASE term[n] = barrierTerm[n]
    <3>1. writer'[n].pc = "stage" /\ writer'[n].seen = term[n]
      BY <2>1, <2>2
    <3> QED BY Zenon, <2>1, <2>2, <3>1
  <2>3. CASE term[n] # barrierTerm[n]
    <3>1. writer'[n].pc = "catchUp"
      BY <2>1, <2>3
    <3> QED BY Zenon, <2>1, <3>1
  <2> QED BY Zenon, <2>2, <2>3
<1>5. CASE WriteBarrier(n) /\ leader[n]
  <2>1. /\ writer'[n] = [pc |-> "barrier", seen |-> writer[n].seen, at |-> LastIndex(n) + 1, term |-> term[n]]
        /\ barrierTerm' = barrierTerm /\ writer[n].pc = "catchUp"
    BY Zenon, <1>1, <1>5 DEF WriteBarrier
  <2>2. /\ writer'[n].pc = "barrier" /\ writer'[n].seen = writer[n].seen
        /\ writer'[n].at = LastIndex(n) + 1 /\ writer'[n].term = term[n]
    BY <2>1
  <2> QED BY Zenon, <1>5, <2>1, <2>2
<1>6. CASE BarrierDone(n)
  <2>1. barrierTerm'[n] = writer[n].seen /\ writer'[n] = [pc |-> "stage", seen |-> writer[n].seen]
    BY Zenon, <1>1, <1>6 DEF BarrierDone
  <2>2. writer'[n].pc = "stage" /\ writer'[n].seen = writer[n].seen
    BY <2>1
  <2> QED BY Zenon, <1>6, <2>1, <2>2
<1>7. CASE Stage(n)
  <2>1. barrierTerm' = barrierTerm /\ writer[n].pc = "stage"
    BY Zenon, <1>7 DEF Stage
  <2>2. CASE writer' = [writer EXCEPT ![n] = IdleWriter]
    <3>1. writer'[n] = IdleWriter
      BY Zenon, <1>1, <2>2
    <3> QED BY Zenon, <1>1, <2>1, <3>1
  <2>3. CASE writer' # [writer EXCEPT ![n] = IdleWriter]
    <3>1. PICK set \in SUBSET WriteKey, del \in SUBSET WriteKey :
              writer' = [writer EXCEPT ![n] = [pc |-> "propose", id |-> NextId, set |-> set,
                                del |-> del, base |-> store[n], checked |-> @.seen]]
      BY Zenon, <1>7, <2>3 DEF Stage, Return
    <3>2. writer'[n] = [pc |-> "propose", id |-> NextId, set |-> set, del |-> del, base |-> store[n], checked |-> writer[n].seen]
      BY Zenon, <1>1, <3>1
    <3>3. writer'[n].pc = "propose" /\ writer'[n].base = store[n] /\ writer'[n].checked = writer[n].seen
      BY <3>2
    <3> QED BY Zenon, <1>7, <2>1, <3>3
  <2> QED BY Zenon, <2>2, <2>3
<1>8. CASE WritePropose(n) /\ leader[n]
  <2>1. /\ writer'[n] = [pc |-> "wait", id |-> writer[n].id, at |-> LastIndex(n) + 1, term |-> term[n]]
        /\ barrierTerm' = barrierTerm
    BY Zenon, <1>1, <1>8 DEF WritePropose
  <2>2. writer'[n].pc = "wait" /\ writer'[n].at = LastIndex(n) + 1 /\ writer'[n].term = term[n]
    BY <2>1
  <2> QED BY Zenon, <1>8, <2>1, <2>2
<1> QED BY Zenon, <1>2, <1>3, <1>4, <1>5, <1>6, <1>7, <1>8 DEF WriteAction

-----------------------------------------------------------------------------
(* Reads.  The barrier of a read either lies after every write that was    *)
(* acknowledged when it began, or its index has an entry of another term   *)
(* by now and the barrier fails.                                           *)

Read(n) ==
    LET r == reader[n]
    IN /\ r.pc # "check"
       /\ r.pc \in {"barrierCall", "barrier", "view"} => r.must <= Len(committed)
       /\ r.pc = "barrier" => r.at > r.must \/ (r.at \in 1..Len(committed) /\ committed[r.at].term # r.term)
       /\ r.pc = "view" => applied[n] >= r.must
       /\ r.pc = "seen" => r.saw >= r.must
Reads == Entry \subseteq {"rpc"} /\ \A n \in Node : Read(n)

\* The fields of a reader, by its state.
LEMMA ReaderFields ==
    ASSUME Types, NEW n \in Node
    PROVE  /\ reader[n].pc \in {"check", "barrierCall", "barrier", "view", "seen"} => reader[n].must \in Nat
           /\ reader[n].pc = "barrier" => reader[n].at \in Nat /\ reader[n].term \in Nat
           /\ reader[n].pc = "seen" => reader[n].saw \in Nat
<1>1. reader[n] \in ReaderState
  BY Zenon DEF Types, CallTypes
<1> QED BY Zenon, <1>1 DEF ReaderState

\* What a step may do to the readers.
LEMMA ReadSteps ==
    ASSUME [Next]_vars
    PROVE  \/ UNCHANGED reader
           \/ \E n \in Node : \/ Restart(n) \/ (\E entry \in Entry : ReadBegin(n, entry))
                              \/ ReadCheck(n) \/ ReadBarrier(n) \/ ReadBarrierDone(n) \/ View(n) \/ ReadEnd(n)
<1>1. CASE UNCHANGED vars
  BY Zenon, <1>1 DEF vars
<1>2. ASSUME NEW n \in Node, \/ Elect(n) \/ StepDown(n) \/ Replicate(n)
                             \/ Apply(n) \/ ApplyFail(n) \/ Snapshot(n) \/ (\E m \in Node : RestoreBegin(n, m))
                             \/ RestoreEnd(n) \/ RestoreFail(n)
                             \/ WriteBegin(n) \/ WriteBarrier(n) \/ BarrierDone(n)
                             \/ Stage(n) \/ WritePropose(n) \/ WriteDone(n) \/ WriteFail(n)
      PROVE  UNCHANGED reader
  BY Zenon, <1>2 DEF Elect, StepDown, Replicate, Apply, ApplyFail, Snapshot, RestoreBegin, RestoreEnd, RestoreFail,
      WriteBegin, WriteBarrier, BarrierDone, Stage, WritePropose, WriteDone, WriteFail, writeFrame, readVars
<1> QED BY Zenon, <1>1, <1>2 DEF Next, NodeStep

\* A state machine goes back only in a restart.
LEMMA AppliedGrows ==
    ASSUME Types, Stores, [Next]_vars, NEW n \in Node
    PROVE  Restart(n) \/ (applied[n] <= applied'[n] /\ applied[n] \in Nat /\ applied'[n] \in Nat)
<1>1. applied \in [Node -> Nat] /\ applied' \in [Node -> Nat]
  BY Zenon, TypesStep DEF Types, FsmTypes
<1>2. CASE applied' = applied
  BY <1>1, <1>2
<1>3. ASSUME NEW m \in Node, applied' = [applied EXCEPT ![m] = applied[m] + 1]
      PROVE  applied[n] <= applied'[n]
  BY <1>1, <1>3
<1>4. ASSUME NEW m \in Node, RestoreEnd(m)
      PROVE  applied[n] <= applied'[n]
  <2>1. applied' = [applied EXCEPT ![m] = snap[m].at] /\ snap[m].at > applied[m] /\ snap[m].at \in Nat
    BY Zenon, <1>4 DEF RestoreEnd, Stores, Types, FsmTypes, SnapState
  <2> QED BY <1>1, <2>1
<1>5. ASSUME NEW m \in Node, Restart(m), m # n
      PROVE  applied[n] <= applied'[n]
  BY <1>1, <1>5 DEF Restart
<1>6. \/ applied' = applied
      \/ \E m \in Node : \/ applied' = [applied EXCEPT ![m] = applied[m] + 1]
                         \/ RestoreEnd(m) \/ Restart(m)
  BY Zenon, FsmSteps DEF fsmVars, Apply, ApplyFail, Snapshot, RestoreBegin, RestoreFail
<1> QED BY Zenon, <1>1, <1>2, <1>3, <1>4, <1>5, <1>6

\* Every step keeps what is known of a read ...
LEMMA ReadStep ==
    ASSUME Types, Elections, Stores, Writes, Reads, [Next]_vars, NEW n \in Node
    PROVE  Read(n)'
<1>1. Grows /\ Len(committed) \in Nat /\ Len(committed') \in Nat /\ Len(committed) <= Len(committed') /\ reader \in [Node -> ReaderState]
  BY Zenon, LogGrows DEF Grows, Types, CallTypes
<1>2. CASE reader'[n].pc = "idle"
  BY Zenon, <1>2 DEF Read
<1>3. CASE reader'[n] = reader[n] /\ ~Restart(n)
  <2>1. applied[n] <= applied'[n] /\ applied[n] \in Nat /\ applied'[n] \in Nat
    BY Zenon, <1>3, AppliedGrows
  <2>2. Read(n)
    BY Zenon DEF Reads
  <2>3. reader[n].pc = "view" => applied'[n] >= reader[n].must
    BY <2>1, <2>2, ReaderFields DEF Read
  <2>4. reader[n].pc \in {"barrierCall", "barrier", "view"} => reader[n].must <= Len(committed')
    BY <1>1, <2>2, ReaderFields DEF Read
  <2>5. \A at \in 1..Len(committed) : at \in 1..Len(committed') /\ committed'[at] = committed[at]
    BY <1>1 DEF Grows
  <2>6. reader[n].pc = "barrier" => \/ reader[n].at > reader[n].must
                                    \/ reader[n].at \in 1..Len(committed') /\ committed'[reader[n].at].term # reader[n].term
    BY Zenon, <2>2, <2>5 DEF Read
  <2> QED BY Zenon, <1>3, <2>2, <2>3, <2>4, <2>6 DEF Read
<1>4. ASSUME NEW entry \in Entry, ReadBegin(n, entry)
      PROVE  Read(n)'
  <2>1. entry = "rpc"
    BY Zenon DEF Reads
  <2>2. reader'[n] = [pc |-> "barrierCall", must |-> ackedAt] /\ committed' = committed
    BY Zenon, <1>1, <1>4, <2>1 DEF ReadBegin, readFrame
  <2>3. reader'[n].pc = "barrierCall" /\ reader'[n].must = ackedAt
    BY <2>2
  <2>4. ackedAt <= Len(committed)
    BY Zenon DEF Writes, Acks
  <2> QED BY Zenon, <2>2, <2>3, <2>4 DEF Read
<1>5. ASSUME ReadBarrier(n), leader[n]
      PROVE  Read(n)'
  <2>1. /\ reader[n].pc = "barrierCall" /\ committed' = committed
        /\ reader'[n] = [pc |-> "barrier", must |-> reader[n].must, at |-> LastIndex(n) + 1, term |-> term[n]]
    BY Zenon, <1>1, <1>5 DEF ReadBarrier, readFrame
  <2>2. /\ reader'[n].pc = "barrier" /\ reader'[n].must = reader[n].must
        /\ reader'[n].at = LastIndex(n) + 1 /\ reader'[n].term = term[n]
    BY <2>1
  <2>3. reader[n].must \in Nat /\ reader[n].must <= Len(committed) /\ LastIndex(n) \in Nat
    BY Zenon, <2>1, ReaderFields, LastIndexType DEF Reads, Read, Types
  <2>4. CASE LastIndex(n) + 1 > Len(committed)
    <3>1. LastIndex(n) + 1 > reader[n].must
      BY <1>1, <2>3, <2>4
    <3> QED BY Zenon, <2>1, <2>2, <2>3, <3>1 DEF Read
  <2>5. CASE ~(LastIndex(n) + 1 > Len(committed))
    <3> DEFINE at == LastIndex(n) + 1
    <3>1. at \in 1..Len(committed) /\ at \in Nat /\ ~(at <= LastIndex(n))
      BY <1>1, <2>3, <2>5
    <3> HIDE DEF at
    <3>2. Logged(at, committed[at]) /\ committed[at] \in LogEntry
      BY <3>1 DEF Logged, Types, RaftTypes
    <3>3. committed[at].term # term[n]
      BY Zenon, <1>5, <3>1, <3>2 DEF Elections
    <3>4. reader'[n].at = at
      BY Zenon, <2>2 DEF at
    <3> QED BY Zenon, <2>1, <2>2, <2>3, <3>1, <3>3, <3>4 DEF Read
  <2> QED BY Zenon, <2>4, <2>5
<1>6. ASSUME ReadBarrierDone(n), reader'[n].pc # "idle"
      PROVE  Read(n)'
  <2>1. /\ reader[n].pc = "barrier" /\ applied[n] >= reader[n].at /\ committed[reader[n].at].term = reader[n].term
        /\ reader'[n] = [pc |-> "view", must |-> reader[n].must] /\ applied' = applied /\ committed' = committed
    BY <1>1, <1>6 DEF ReadBarrierDone, Settled, readFrame, fsmVars, IdleReader
  <2>2. reader'[n].pc = "view" /\ reader'[n].must = reader[n].must
    BY <2>1
  <2>3. /\ reader[n].at > reader[n].must /\ reader[n].at \in Nat /\ reader[n].must \in Nat /\ applied[n] \in Nat
        /\ reader[n].must <= Len(committed)
    BY Zenon, <2>1, ReaderFields DEF Reads, Read, Types, FsmTypes
  <2>4. applied[n] >= reader[n].must
    BY <2>1, <2>3
  <2> QED BY Zenon, <2>1, <2>2, <2>3, <2>4 DEF Read
<1>7. ASSUME View(n)
      PROVE  Read(n)'
  <2>1. /\ reader[n].pc = "view" /\ reader'[n] = [pc |-> "seen", must |-> reader[n].must, saw |-> applied[n]]
    BY Zenon, <1>1, <1>7 DEF View
  <2>2. reader'[n].pc = "seen" /\ reader'[n].must = reader[n].must /\ reader'[n].saw = applied[n]
    BY <2>1
  <2>3. applied[n] >= reader[n].must
    BY Zenon, <2>1 DEF Reads, Read
  <2> QED BY Zenon, <2>2, <2>3 DEF Read
<1>8. Restart(n) \/ (ReadBarrier(n) /\ ~leader[n]) \/ ReadEnd(n) => reader'[n].pc = "idle"
  BY <1>1 DEF Restart, ReadBarrier, ReadEnd, IdleReader
<1>9. ~ReadCheck(n)
  BY Zenon DEF ReadCheck, Reads, Read
<1>10. ASSUME NEW m \in Node \ {n}, \/ Restart(m) \/ (\E entry \in Entry : ReadBegin(m, entry))
                                   \/ ReadCheck(m) \/ ReadBarrier(m) \/ ReadBarrierDone(m) \/ View(m) \/ ReadEnd(m)
       PROVE  reader'[n] = reader[n]
  BY Zenon, <1>1, <1>10 DEF Restart, ReadBegin, ReadCheck, ReadBarrier, ReadBarrierDone, View, ReadEnd
<1> QED BY Zenon, <1>2, <1>3, <1>4, <1>5, <1>6, <1>7, <1>8, <1>9, <1>10, ReadSteps

\* ... which holds at the start.
LEMMA ReadsInit ==
    ASSUME Init, Entry \subseteq {"rpc"}
    PROVE  Reads
<1>1. reader = [n \in Node |-> IdleReader]
  BY Zenon DEF Init
<1>2. \A n \in Node : reader[n].pc = "idle"
  BY Zenon, <1>1 DEF IdleReader
<1> QED BY Zenon, <1>2 DEF Reads, Read

\* A read that enters through the leader's RPC handler sees every write that was
\* acknowledged before it began, whichever leaders come and go meanwhile.
THEOREM ReadsLinearizable == Spec /\ Entry \subseteq {"rpc"} => []LinearizableReads
<1> DEFINE Inv == Types /\ Elections /\ Stores /\ Writes /\ Reads
<1>1. Init /\ Entry \subseteq {"rpc"} => Inv
  BY Zenon, TypesInit, ElectionsInit, StoresInit, WritesInit, ReadsInit
<1>2. Inv /\ [Next]_vars => Inv'
  <2> SUFFICES ASSUME Inv, [Next]_vars PROVE Inv'
    BY Zenon
  <2>1. bound' = bound /\ Entry \subseteq {"rpc"}
    BY Zenon, RaftTypesStep DEF Reads
  <2>2. Entry' \subseteq {"rpc"}
    BY Zenon, <2>1 DEF Entry
  <2>3. \A n \in Node : Read(n)'
    BY Zenon, ReadStep
  <2>4. Reads'
    BY Zenon, <2>2, <2>3 DEF Reads
  <2> QED BY Zenon, <2>4, TypesStep, ElectionsStep, StoresStep, WritesStep
<1>3. Inv => LinearizableReads
  BY Zenon DEF Reads, Read, LinearizableReads
<1> QED BY <1>1, <1>2, <1>3, PTL DEF Spec

-----------------------------------------------------------------------------
(* Serial statements: leaders, the barrier of a term and staged writes. *)

\* A leader with a live log was elected now, or it led before, and its log is
\* the one it had, with at most one entry more.
LEMMA LeadsStep ==
    ASSUME Types, Elections, [Next]_vars, NEW n \in Node, Leads(n)'
    PROVE  \/ Elect(n)
           \/ /\ Leads(n) /\ term'[n] = term[n]
              /\ \/ LogOf(n)' = LogOf(n)
                 \/ LogOf(n)' = Append(LogOf(n), Mark(term[n])) /\ ~WritePropose(n)
                 \/ WritePropose(n) /\ Sent(n) \in LogEntry /\ LogOf(n)' = Append(LogOf(n), Sent(n))
<1>1. RaftTypes
  BY Zenon DEF Types
<1>2. CASE UNCHANGED raftVars
  BY Zenon, <1>2 DEF raftVars, Leads, Live, LogOf
<1>3. ASSUME NEW o \in Node \ {n}, Elect(o)
      PROVE  Leads(n) /\ term'[n] = term[n] /\ LogOf(n)' = LogOf(n)
  <2>1. committed' = committed /\ tail'[n] = tail[n] /\ tailAt'[n] = tailAt[n] /\ term'[n] = term[n] /\ leader'[n] = leader[n]
    BY Zenon, <1>1, <1>3 DEF Elect, RaftTypes
  <2> QED BY Zenon, <2>1 DEF Leads, Live, LogOf
<1>4. ASSUME NEW o \in Node, Lower(o)
      PROVE  Leads(n) /\ term'[n] = term[n] /\ LogOf(n)' = LogOf(n)
  <2>1. committed' = committed /\ tail' = tail /\ tailAt' = tailAt /\ term' = term /\ (leader'[n] => leader[n])
    BY Zenon, <1>1, <1>4 DEF Lower, RaftTypes
  <2> QED BY Zenon, <2>1 DEF Leads, Live, LogOf
<1>5. ASSUME NEW o \in Node, Replicate(o)
      PROVE  Leads(n) /\ term'[n] = term[n] /\ LogOf(n)' = LogOf(n)
  <2>1. o = n
    BY Zenon, <1>5, LogOfReplicate DEF Leads
  <2>2. term' = term
    BY Zenon, <1>5 DEF Replicate
  <2> QED BY Zenon, <1>5, <2>1, <2>2, LogOfReplicate
<1>6. ASSUME NEW o \in Node, NEW e \in LogEntry, Appends(o, e), Reason(o, e)
      PROVE  /\ Leads(n) /\ term'[n] = term[n]
             /\ \/ LogOf(n)' = LogOf(n)
                \/ LogOf(n)' = Append(LogOf(n), Mark(term[n])) /\ ~WritePropose(n)
                \/ WritePropose(n) /\ Sent(n) \in LogEntry /\ LogOf(n)' = Append(LogOf(n), Sent(n))
  <2>1. committed' = committed /\ tailAt' = tailAt /\ term' = term /\ leader' = leader
    BY Zenon, <1>6 DEF Appends
  <2>2. Leads(n)
    BY Zenon, <2>1 DEF Leads, Live
  <2>3. CASE o # n
    BY Zenon, <1>6, <2>1, <2>2, <2>3, LogOfAppend
  <2>4. CASE o = n /\ ~WritePropose(n)
    BY Zenon, <1>6, <2>1, <2>2, <2>4, LogOfAppend DEF Reason
  <2>5. CASE o = n /\ WritePropose(n)
    <3>1. tail' = [tail EXCEPT ![n] = Append(@, Sent(n))]
      BY Zenon, <2>2, <2>5 DEF WritePropose, Propose, Sent, Leads
    <3>2. writer[n].pc = "propose" /\ term[n] \in Nat
      BY Zenon, <1>1, <2>5, TermTypes DEF WritePropose
    <3>3. Sent(n) \in LogEntry /\ Sent(n).term = term[n]
      <4>1. Sent(n) \in LogEntry
        BY Zenon, <3>2, WriterFields, EntryTypes DEF Sent
      <4> QED BY Zenon, <4>1 DEF Sent, Command
    <3>4. Appends(n, Sent(n))
      BY Zenon, <1>6, <2>1, <2>2, <3>1, <3>3 DEF Appends, Propose, Leads
    <3> QED BY Zenon, <2>1, <2>2, <2>5, <3>3, <3>4, LogOfAppend
  <2> QED BY Zenon, <2>3, <2>4, <2>5
<1> QED BY Zenon, <1>2, <1>3, <1>4, <1>5, <1>6, RaftSteps

\* A leader's store is not being restored.
Guarded == \A n \in Node : leader[n] => restore[n] = "no"

\* A voter that leads is not installing a snapshot.
LEMMA GuardedStep ==
    ASSUME Types, Guarded, [Next]_vars
    PROVE  Guarded'
<1>1. leader \in [Node -> BOOLEAN] /\ restore \in [Node -> {"no", "loading", "failed"}]
  BY Zenon DEF Types, RaftTypes, FsmTypes
<1>2. ASSUME NEW n \in Node, leader'[n]
      PROVE  restore'[n] = "no"
  <2>1. leader[n] \/ Elect(n)
    <3>1. ASSUME NEW m \in Node, m # n, Elect(m)
          PROVE  leader[n]
      BY Zenon, <1>1, <1>2, <3>1 DEF Elect
    <3>2. ASSUME NEW m \in Node, Lower(m)
          PROVE  leader[n]
      BY Zenon, <1>1, <1>2, <3>2 DEF Lower
    <3>3. leader' = leader \/ \E m \in Node : Elect(m) \/ Lower(m)
      BY Zenon, RaftSteps DEF raftVars, Replicate, Appends
    <3> QED BY Zenon, <1>2, <3>1, <3>2, <3>3
  <2>2. restore[n] = "no"
    BY Zenon, <2>1 DEF Guarded, Elect
  <2>3. restore'[n] = restore[n] \/ restore'[n] = "no" \/ (\E o \in Node : RestoreBegin(n, o)) \/ RestoreFail(n)
    <3>1. ASSUME NEW m \in Node, m # n, NEW v, restore' = [restore EXCEPT ![m] = v]
          PROVE  restore'[n] = restore[n]
      BY Zenon, <1>1, <3>1
    <3>2. RestoreEnd(n) \/ Restart(n) => restore'[n] = "no"
      BY Zenon, <1>1 DEF RestoreEnd, Restart
    <3>3. ASSUME NEW m \in Node, \/ (\E o \in Node : RestoreBegin(m, o)) \/ RestoreFail(m) \/ RestoreEnd(m) \/ Restart(m)
          PROVE  \E v : restore' = [restore EXCEPT ![m] = v]
      BY Zenon, <3>3 DEF RestoreBegin, RestoreFail, RestoreEnd, Restart
    <3>4. \/ restore' = restore
          \/ \E m \in Node : (\E o \in Node : RestoreBegin(m, o)) \/ RestoreFail(m) \/ RestoreEnd(m) \/ Restart(m)
      BY Zenon, FsmSteps DEF fsmVars, Apply, ApplyFail, Snapshot
    <3> QED BY Zenon, <3>1, <3>2, <3>3, <3>4
  <2>4. ~RestoreFail(n)
    BY Zenon, <2>2 DEF RestoreFail
  <2>5. ~\E o \in Node : RestoreBegin(n, o)
    BY Zenon, <1>2 DEF RestoreBegin, raftVars
  <2> QED BY Zenon, <2>2, <2>3, <2>4, <2>5
<1> QED BY Zenon, <1>2 DEF Guarded

\* What its state machine may do while no store fails.
LEMMA LeaderApplies ==
    ASSUME Types, Stores, Guarded, [Next]_vars, NEW n \in Node, leader[n], leader'[n], failures' = 0
    PROVE  /\ failures = 0
           /\ applied[n] \in Nat /\ applied'[n] \in Nat /\ reached[n] \in Nat /\ reached'[n] \in Nat
           /\ applied[n] <= applied'[n]
           /\ reached'[n] = reached[n] \/ applied'[n] >= reached'[n]
           /\ applied[n] >= reached[n] => applied'[n] >= reached'[n]
<1>1. /\ applied \in [Node -> Nat] /\ reached \in [Node -> Nat] /\ failures \in Nat
      /\ applied' \in [Node -> Nat] /\ reached' \in [Node -> Nat] /\ leader \in [Node -> BOOLEAN]
  BY Zenon, TypesStep DEF Types, FsmTypes, RaftTypes
<1>2. failures' = failures \/ failures' = failures + 1
  BY Zenon, FsmSteps DEF fsmVars, Apply, ApplyFail, Snapshot, RestoreBegin, RestoreEnd, RestoreFail, Restart
<1>3. failures = 0 /\ \A m \in Node : ~ApplyFail(m)
  BY <1>1, <1>2 DEF ApplyFail
<1>4. CASE applied'[n] = applied[n] /\ reached'[n] = reached[n]
  BY <1>1, <1>3, <1>4
<1>5. CASE Apply(n)
  <2>1. /\ applied'[n] = applied[n] + 1
        /\ reached'[n] = IF reached[n] > applied[n] THEN reached[n] ELSE applied[n] + 1
    BY Zenon, <1>1, <1>5 DEF Apply
  <2>2. applied[n] \in Nat /\ reached[n] \in Nat /\ applied'[n] \in Nat /\ reached'[n] \in Nat
    BY Zenon, <1>1
  <2> QED BY <1>3, <2>1, <2>2
<1>6. ~RestoreEnd(n) /\ ~Restart(n)
  BY Zenon, <1>1 DEF Guarded, RestoreEnd, Restart
<1>7. ASSUME NEW m \in Node, m # n, Apply(m) \/ RestoreEnd(m) \/ Restart(m)
      PROVE  applied'[n] = applied[n] /\ reached'[n] = reached[n]
  <2>1. \E v : applied' = [applied EXCEPT ![m] = v]
    BY Zenon, <1>7 DEF Apply, RestoreEnd, Restart
  <2>2. reached' = reached \/ \E v : reached' = [reached EXCEPT ![m] = v]
    BY Zenon, <1>7 DEF Apply, RestoreEnd, Restart
  <2> QED BY Zenon, <1>1, <1>7, <2>1, <2>2
<1>8. \/ applied' = applied /\ reached' = reached
      \/ \E m \in Node : Apply(m) \/ RestoreEnd(m) \/ Restart(m)
  BY Zenon, <1>3, FsmSteps DEF fsmVars, Snapshot, RestoreBegin, RestoreFail
<1> QED BY Zenon, <1>4, <1>5, <1>6, <1>7, <1>8

\* The entry that the writer of the term waits for.
Pending(n) == IF writer[n].pc = "wait" /\ writer[n].term = term[n] THEN writer[n].at ELSE 0

\* A leader past the barrier of its term has applied all that has an effect,
\* but for the entry that its writer waits for ...
Caught(n) ==
    Leads(n) /\ barrierTerm[n] = term[n] /\ failures = 0 =>
        applied[n] >= reached[n] /\ QuietBut(LogOf(n), applied[n], Pending(n))
\* ... nothing comes after the barrier it waits for ...
Barrier(n) ==
    writer[n].pc = "barrier" =>
        /\ writer[n].seen <= writer[n].term /\ writer[n].term <= term[n]
        /\ Leads(n) /\ term[n] = writer[n].term /\ failures = 0 =>
               /\ reached[n] < writer[n].at \/ applied[n] >= reached[n]
               /\ QuietBut(LogOf(n), writer[n].at, 0)
\* ... and a statement is staged on the end of its log.
Staged(n) ==
    /\ writer[n].pc = "stage" => barrierTerm[n] = writer[n].seen
    /\ writer[n].pc = "propose" =>
           /\ writer[n].checked <= term[n]
           /\ Leads(n) /\ writer[n].checked = term[n] /\ failures = 0 =>
                  writer[n].base = StoreOf(LogOf(n), Len(LogOf(n)))
Logs == failures = 0 => SerialLog(committed) /\ \A n \in Node : Live(n) => SerialLog(LogOf(n))
Serials == Guarded /\ Logs /\ \A n \in Node : Caught(n) /\ Barrier(n) /\ Staged(n)

\* Failures are never forgotten.
LEMMA FailuresGrow ==
    ASSUME Types, [Next]_vars, failures' = 0
    PROVE  failures = 0
<1>1. failures' = failures \/ failures' = failures + 1
  BY Zenon, FsmSteps DEF fsmVars, Apply, ApplyFail, Snapshot, RestoreBegin, RestoreEnd, RestoreFail, Restart
<1> QED BY <1>1 DEF Types, FsmTypes

\* The mark of an election touches no key.
LEMMA MarkQuiet ==
    ASSUME NEW t
    PROVE  Mark(t).id = None /\ Mark(t).set = {} /\ Mark(t).del = {} /\ Mark(t).term = t
BY Zenon DEF Mark

\* Logs stay serial: every entry but a staged write touches nothing.
LEMMA LogsStep ==
    ASSUME Types, Elections, Serials, [Next]_vars
    PROVE  Logs'
<1> SUFFICES ASSUME failures' = 0
             PROVE  SerialLog(committed') /\ \A n \in Node : Live(n)' => SerialLog(LogOf(n)')
  BY Zenon DEF Logs, SerialLog, Serial, StoreOf, Touches, None
<1>1. RaftTypes /\ failures = 0 /\ SerialLog(committed) /\ \A n \in Node : Live(n) => SerialLog(LogOf(n))
  BY Zenon, FailuresGrow DEF Types, Serials, Logs
<1>2. committed \in Seq(LogEntry) /\ Len(committed) \in Nat
  BY <1>1 DEF RaftTypes
<1>3. CASE UNCHANGED raftVars
  <2>1. committed' = committed /\ \A n \in Node : (Live(n)' => Live(n)) /\ LogOf(n)' = LogOf(n)
    BY Zenon, <1>3 DEF raftVars, Live, LogOf
  <2> QED BY Zenon, <1>1, <2>1
<1>4. ASSUME NEW o \in Node, Elect(o)
      PROVE  SerialLog(committed') /\ \A n \in Node : Live(n)' => SerialLog(LogOf(n)')
  <2>1. PICK m \in Node : \E i \in 0..Len(tail[m]) :
               /\ i > 0 => tailAt[m] = Len(committed)
               /\ tail'[o] = Append(SubSeq(tail[m], 1, i), Mark(newest + 1))
               /\ committed' = committed
               /\ \A q \in Node \ {o} : tail'[q] = tail[q] /\ tailAt'[q] = tailAt[q]
    BY Zenon, <1>1, <1>4, ElectLog
  <2>2. PICK i \in 0..Len(tail[m]) :
               /\ i > 0 => tailAt[m] = Len(committed)
               /\ tail'[o] = Append(SubSeq(tail[m], 1, i), Mark(newest + 1))
               /\ committed' = committed
               /\ \A q \in Node \ {o} : tail'[q] = tail[q] /\ tailAt'[q] = tailAt[q]
    BY Zenon, <2>1
  <2> DEFINE sub == SubSeq(tail[m], 1, i)
             pre == committed \o sub
  <2>3. tail[m] \in Seq(LogEntry) /\ Len(tail[m]) \in Nat /\ i \in Nat /\ i <= Len(tail[m])
    BY <1>1, <2>2 DEF RaftTypes
  <2>4. sub \in Seq(LogEntry) /\ Len(sub) = i /\ \A p \in 1..i : sub[p] = tail[m][p]
    BY <2>3
  <2> HIDE DEF sub
  <2>5. /\ pre \in Seq(LogEntry) /\ Len(pre) = Len(committed) + i /\ Len(pre) \in Nat
        /\ \A j \in 1..Len(committed) : pre[j] = committed[j]
        /\ \A p \in 1..i : pre[Len(committed) + p] = sub[p]
    BY Zenon, <1>2, <2>4, Joined
  <2> HIDE DEF pre
  <2>6. SerialLog(pre)
    <3>1. CASE i = 0
      <4>1. Len(pre) = Len(committed) /\ \A j \in 1..Len(pre) : pre[j] = committed[j]
        BY <1>2, <2>5, <3>1
      <4>2. Len(pre) <= Len(committed)
        BY <1>2, <4>1
      <4> QED BY ZenonT(30), <1>1, <1>2, <2>5, <4>1, <4>2, SerialPrefix
    <3>2. CASE i > 0
      <4>1. SerialLog(LogOf(m))
        BY Zenon, <1>1, <2>2, <3>2 DEF Live
      <4>2. /\ LogOf(m) \in Seq(LogEntry) /\ Len(LogOf(m)) = Len(committed) + Len(tail[m])
            /\ \A j \in 1..Len(committed) : LogOf(m)[j] = committed[j]
            /\ \A p \in 1..Len(tail[m]) : LogOf(m)[Len(committed) + p] = tail[m][p]
        BY Zenon, <1>1, LogOfType
      <4>3. ASSUME NEW j \in 1..Len(pre)
            PROVE  pre[j] = LogOf(m)[j]
        <5>1. CASE j \in 1..Len(committed)
          BY Zenon, <2>5, <4>2, <5>1
        <5>2. CASE j > Len(committed)
          <6> DEFINE p == j - Len(committed)
          <6>1. p \in 1..i /\ p \in 1..Len(tail[m]) /\ j = Len(committed) + p
            BY SMTT(30), <1>2, <2>3, <2>5, <5>2
          <6> HIDE DEF p
          <6> QED BY ZenonT(30), <2>4, <2>5, <4>2, <6>1
        <5> QED BY <1>2, <2>5, <5>1, <5>2
      <4>4. Len(LogOf(m)) \in Nat /\ Len(pre) <= Len(LogOf(m))
        BY SMTT(30), <1>2, <2>3, <2>5, <4>2
      <4> QED BY ZenonT(30), <2>5, <4>1, <4>3, <4>4, SerialPrefix
    <3> QED BY <2>3, <3>1, <3>2
  <2>7. Mark(newest + 1) \in LogEntry
    BY <1>1, NewestTerm, EntryTypes
  <2>8. SerialLog(Append(pre, Mark(newest + 1)))
    BY Zenon, <2>5, <2>6, <2>7, MarkQuiet, SerialAppend DEF Serial
  <2>9. LogOf(o)' = Append(pre, Mark(newest + 1))
    BY Zenon, <1>2, <2>2, <2>4, <2>7, JoinAppend DEF LogOf, pre, sub
  <2>10. ASSUME NEW n \in Node \ {o}, Live(n)'
         PROVE  SerialLog(LogOf(n)')
    BY Zenon, <1>1, <2>2, <2>10 DEF Live, LogOf
  <2> QED BY Zenon, <1>1, <2>2, <2>8, <2>9, <2>10
<1>5. ASSUME NEW o \in Node, Lower(o)
      PROVE  SerialLog(committed') /\ \A n \in Node : Live(n)' => SerialLog(LogOf(n)')
  <2>1. committed' = committed /\ \A n \in Node : (Live(n)' => Live(n)) /\ LogOf(n)' = LogOf(n)
    BY Zenon, <1>5 DEF Lower, Live, LogOf
  <2> QED BY Zenon, <1>1, <2>1
<1>6. ASSUME NEW o \in Node, Replicate(o)
      PROVE  SerialLog(committed') /\ \A n \in Node : Live(n)' => SerialLog(LogOf(n)')
  <2>1. /\ Leads(o) /\ LogOf(o)' = LogOf(o) /\ \A m \in Node \ {o} : ~Live(m)'
        /\ Len(committed') <= Len(LogOf(o)) /\ \A i \in 1..Len(committed') : committed'[i] = LogOf(o)[i]
    BY Zenon, <1>6, LogOfReplicate
  <2>2. SerialLog(LogOf(o)) /\ Len(LogOf(o)) \in Nat /\ Len(committed') \in Nat
    <3>1. LogOf(o) \in Seq(LogEntry)
      BY Zenon, <1>1, LogOfType
    <3> QED BY <1>1, <2>1, <3>1, LogGrows DEF Leads
  <2>3. SerialLog(committed')
    BY Zenon, <2>1, <2>2, SerialPrefix
  <2> QED BY Zenon, <2>1, <2>2, <2>3
<1>7. ASSUME NEW o \in Node, NEW e \in LogEntry, Appends(o, e), Reason(o, e)
      PROVE  SerialLog(committed') /\ \A n \in Node : Live(n)' => SerialLog(LogOf(n)')
  <2>1. committed' = committed /\ leader[o] /\ e.term = term[o] /\ \A n \in Node : Live(n)' => Live(n)
    BY Zenon, <1>7 DEF Appends, Live
  <2>2. LogOf(o)' = Append(LogOf(o), e) /\ \A n \in Node \ {o} : LogOf(n)' = LogOf(n)
    BY Zenon, <1>7, LogOfAppend
  <2>3. ASSUME Live(o)
        PROVE  SerialLog(LogOf(o)')
    <3>1. LogOf(o) \in Seq(LogEntry) /\ SerialLog(LogOf(o))
      BY Zenon, <1>1, <2>3, LogOfType
    <3>2. Serial(e, StoreOf(LogOf(o), Len(LogOf(o))))
      <4>1. CASE e = Mark(term[o])
        BY Zenon, <4>1, MarkQuiet DEF Serial
      <4>2. CASE WritePropose(o) /\ e = Sent(o)
        <5>1. writer[o].pc = "propose" /\ e.checked = writer[o].checked /\ e.base = writer[o].base
          BY Zenon, <4>2 DEF WritePropose, Sent, Command
        <5>2. writer[o].checked = term[o] => writer[o].base = StoreOf(LogOf(o), Len(LogOf(o)))
          BY Zenon, <1>1, <2>1, <2>3, <5>1 DEF Serials, Staged, Leads
        <5> QED BY Zenon, <2>1, <5>1, <5>2 DEF Serial
      <4> QED BY Zenon, <1>7, <4>1, <4>2 DEF Reason
    <3> QED BY Zenon, <1>7, <2>2, <3>1, <3>2, SerialAppend
  <2> QED BY Zenon, <1>1, <2>1, <2>2, <2>3
<1> QED BY Zenon, <1>3, <1>4, <1>5, <1>6, <1>7, RaftSteps

\* The term of an election is new.
LEMMA ElectTerm ==
    ASSUME Types, NEW n \in Node, Elect(n)
    PROVE  term'[n] > term[n] /\ term[n] \in Nat /\ term'[n] \in Nat
<1>1. term'[n] = newest + 1 /\ newest \in Nat /\ term[n] \in Nat /\ term[n] <= newest
  BY Zenon, NewestTerm, TermTypes DEF Elect, Types, RaftTypes
<1> QED BY <1>1

\* The store of a leader past its barrier, while it has no write under way.
LEMMA CaughtStore ==
    ASSUME Types, Stores, Serials, NEW n \in Node, Leads(n), barrierTerm[n] = term[n], failures = 0, Pending(n) = 0
    PROVE  store[n] = StoreOf(LogOf(n), Len(LogOf(n)))
<1>1. applied[n] >= reached[n] /\ QuietBut(LogOf(n), applied[n], 0) /\ restore[n] = "no"
  BY Zenon DEF Serials, Caught, Guarded, Leads
<1>2. /\ applied[n] \in Nat /\ reached[n] \in Nat /\ store[n] \in Store /\ missed[n] = {}
      /\ Rebuilt(committed, store[n], applied[n], reached[n], missed[n]) /\ reached[n] <= Len(committed)
  BY Zenon, <1>1 DEF Types, FsmTypes, Stores, Fresh
<1>3. applied[n] = reached[n] /\ store[n] = StoreOf(committed, applied[n])
  BY <1>1, <1>2, RebuiltDone
<1>4. /\ LogOf(n) \in Seq(LogEntry) /\ Len(committed) \in Nat /\ Len(tail[n]) \in Nat
      /\ Len(LogOf(n)) = Len(committed) + Len(tail[n])
      /\ \A i \in 1..Len(committed) : LogOf(n)[i] = committed[i]
  BY Zenon, LogOfType DEF Types
<1>5. applied[n] <= Len(committed) /\ applied[n] <= Len(LogOf(n)) /\ Len(LogOf(n)) \in Nat
  BY <1>2, <1>3, <1>4
<1>6. \A i \in 1..applied[n] : LogOf(n)[i] = committed[i]
  BY <1>2, <1>4, <1>5
<1> QED BY SMTT(30), <1>1, <1>2, <1>3, <1>4, <1>5, <1>6, QuietStore

\* The store that a statement was staged on is still that of the log.
LEMMA StagedStep ==
    ASSUME Types, Elections, Stores, Writes, Serials, [Next]_vars, NEW n \in Node
    PROVE  Staged(n)'
<1>1. term[n] <= term'[n] /\ term[n] \in Nat /\ term'[n] \in Nat
  BY Zenon, TermsGrow
<1>2. CASE writer'[n] = writer[n] /\ barrierTerm'[n] = barrierTerm[n]
  <2>1. writer'[n].pc = "stage" => barrierTerm'[n] = writer'[n].seen
    BY Zenon, <1>2 DEF Serials, Staged
  <2>2. ASSUME writer[n].pc = "propose"
        PROVE  writer[n].checked <= term'[n]
    <3>1. writer[n].checked \in Nat /\ writer[n].checked <= term[n]
      BY Zenon, <2>2, WriterFields DEF Serials, Staged
    <3> QED BY <1>1, <3>1
  <2>3. ASSUME writer[n].pc = "propose", Leads(n)', writer[n].checked = term'[n], failures' = 0
        PROVE  writer[n].base = StoreOf(LogOf(n)', Len(LogOf(n)'))
    <3>1. writer[n].checked \in Nat /\ writer[n].checked <= term[n]
      BY Zenon, <2>3, WriterFields DEF Serials, Staged
    <3>2. ~Elect(n)
      BY <2>3, <3>1, ElectTerm
    <3>3. Leads(n) /\ term'[n] = term[n] /\ failures = 0
      BY Zenon, <2>3, <3>2, LeadsStep, FailuresGrow
    <3>4. writer[n].base = StoreOf(LogOf(n), Len(LogOf(n)))
      BY Zenon, <2>3, <3>3 DEF Serials, Staged
    <3>5. ~WritePropose(n)
      <4>1. WritePropose(n) => writer'[n].pc = "wait"
        BY <3>3 DEF WritePropose, Leads, Types, CallTypes
      <4> QED BY Zenon, <1>2, <2>3, <4>1
    <3>6. CASE LogOf(n)' = LogOf(n)
      BY Zenon, <3>4, <3>6
    <3>7. CASE LogOf(n)' = Append(LogOf(n), Mark(term[n]))
      <4> DEFINE log == LogOf(n)
                 longer == Append(log, Mark(term[n]))
      <4>1. log \in Seq(LogEntry) /\ Mark(term[n]) \in LogEntry
        BY Zenon, <1>1, LogOfType, EntryTypes DEF Types
      <4>2. /\ Len(log) \in Nat /\ Len(longer) = Len(log) + 1 /\ longer[Len(log) + 1] = Mark(term[n])
            /\ \A i \in 1..Len(log) : longer[i] = log[i]
        BY Zenon, <4>1, AppendEntry
      <4> HIDE DEF log, longer
      <4>3. QuietBut(longer, Len(log), 0)
        <5>1. \A j \in 1..Len(longer) : j > Len(log) => j = Len(log) + 1
          BY <4>2
        <5> QED BY <4>2, <5>1, MarkQuiet DEF QuietBut
      <4>4. Len(log) <= Len(longer) /\ Len(longer) \in Nat /\ Len(log) <= Len(log)
        BY <4>2
      <4>5. StoreOf(longer, Len(longer)) = StoreOf(log, Len(log))
        BY Zenon, <4>2, <4>3, <4>4, QuietStore
      <4> QED BY Zenon, <3>4, <3>7, <4>5 DEF log, longer
    <3> QED BY Zenon, <2>3, <3>2, <3>5, <3>6, <3>7, LeadsStep
  <2> QED BY Zenon, <1>2, <2>1, <2>2, <2>3 DEF Staged, StoreOf, Touches, None
<1>3. CASE WriteAction(n) /\ writer'[n].pc \notin {"stage", "propose"}
  BY Zenon, <1>3 DEF Staged
<1>4. CASE WriteAction(n) /\ writer'[n].pc = "stage"
  BY Zenon, <1>4, WriterFrom DEF Staged
<1>5. CASE WriteAction(n) /\ writer'[n].pc = "propose"
  <2>1. Stage(n) /\ writer[n].pc = "stage" /\ writer'[n].base = store[n] /\ writer'[n].checked = writer[n].seen
    BY Zenon, <1>5, WriterFrom
  <2>2. /\ tail' = tail /\ UNCHANGED <<committed, term, leader, tailAt>> /\ failures' = failures
    BY Zenon, <2>1 DEF Stage, writeFrame, fsmVars
  <2>3. writer[n].seen <= term[n] /\ barrierTerm[n] = writer[n].seen
    BY Zenon, <2>1 DEF Writes, Checks, Serials, Staged
  <2>4. ASSUME Leads(n)', writer[n].seen = term[n], failures' = 0
        PROVE  store[n] = StoreOf(LogOf(n)', Len(LogOf(n)'))
    <3>1. Leads(n) /\ failures = 0 /\ LogOf(n)' = LogOf(n) /\ barrierTerm[n] = term[n]
      BY Zenon, <2>2, <2>3, <2>4 DEF Leads, Live, LogOf
    <3>2. Pending(n) = 0
      BY Zenon, <2>1 DEF Pending
    <3>3. store[n] = StoreOf(LogOf(n), Len(LogOf(n)))
      BY Zenon, <3>1, <3>2, CaughtStore
    <3> QED BY Zenon, <3>1, <3>3
  <2>5. term'[n] = term[n]
    BY Zenon, <2>2
  <2> QED BY Zenon, <1>5, <2>1, <2>3, <2>4, <2>5 DEF Staged, StoreOf, Touches, None
<1> QED BY Zenon, <1>2, <1>3, <1>4, <1>5, WriterCases

\* Marks at the end of a log leave it as quiet as it was.
LEMMA QuietMarks ==
    ASSUME Types, Elections, [Next]_vars, NEW n \in Node, Leads(n)', ~Elect(n), ~WritePropose(n),
           NEW lo \in Nat, NEW hi \in Nat, lo <= hi, NEW x, NEW y, x = y \/ (x \in Nat /\ x <= hi), QuietBut(LogOf(n), lo, x)
    PROVE  QuietBut(LogOf(n)', hi, y)
<1>1. LogOf(n) \in Seq(LogEntry) /\ Mark(term[n]) \in LogEntry
  BY Zenon, LogOfType, EntryTypes, TermTypes DEF Types
<1>2. QuietBut(LogOf(n), hi, y)
  BY <1>1, QuietLater
<1>3. QuietBut(Append(LogOf(n), Mark(term[n])), hi, y)
  BY Zenon, <1>1, <1>2, MarkQuiet, QuietAppend
<1> QED BY Zenon, <1>2, <1>3, LeadsStep

\* Nothing comes after the barrier that a writer waits for.
LEMMA BarrierStep ==
    ASSUME Types, Elections, Stores, Writes, Serials, [Next]_vars, NEW n \in Node
    PROVE  Barrier(n)'
<1>1. term[n] <= term'[n] /\ term[n] \in Nat /\ term'[n] \in Nat
  BY Zenon, TermsGrow
<1>2. CASE writer'[n] = writer[n]
  <2> SUFFICES ASSUME writer[n].pc = "barrier"
               PROVE  /\ writer[n].seen <= writer[n].term /\ writer[n].term <= term'[n]
                      /\ Leads(n)' /\ term'[n] = writer[n].term /\ failures' = 0 =>
                             /\ reached'[n] < writer[n].at \/ applied'[n] >= reached'[n]
                             /\ QuietBut(LogOf(n)', writer[n].at, 0)
    BY Zenon, <1>2 DEF Barrier, QuietBut
  <2>1. writer[n].seen <= writer[n].term /\ writer[n].term <= term[n] /\ writer[n].term \in Nat /\ writer[n].at \in Nat
    BY Zenon, WriterFields DEF Serials, Barrier
  <2>2. writer[n].term <= term'[n]
    BY <1>1, <2>1
  <2>3. ASSUME Leads(n)', term'[n] = writer[n].term, failures' = 0
        PROVE  /\ reached'[n] < writer[n].at \/ applied'[n] >= reached'[n]
               /\ QuietBut(LogOf(n)', writer[n].at, 0)
    <3>1. ~Elect(n) /\ ~WritePropose(n)
      BY <2>1, <2>3, ElectTerm DEF WritePropose
    <3>2. Leads(n) /\ term[n] = writer[n].term /\ failures = 0
      BY Zenon, <2>3, <3>1, LeadsStep, FailuresGrow
    <3>3. (reached[n] < writer[n].at \/ applied[n] >= reached[n]) /\ QuietBut(LogOf(n), writer[n].at, 0)
      BY Zenon, <3>2 DEF Serials, Barrier
    <3>4. writer[n].at <= writer[n].at
      BY <2>1
    <3>5. QuietBut(LogOf(n)', writer[n].at, 0)
      BY Zenon, <2>1, <2>3, <3>1, <3>3, <3>4, QuietMarks
    <3>6. /\ reached'[n] = reached[n] \/ applied'[n] >= reached'[n]
          /\ applied[n] >= reached[n] => applied'[n] >= reached'[n]
      BY Zenon, <2>3, <3>2, LeaderApplies DEF Leads, Serials
    <3> QED BY Zenon, <3>3, <3>5, <3>6
  <2> QED BY Zenon, <2>1, <2>2, <2>3
<1>3. CASE WriteAction(n) /\ writer'[n].pc # "barrier"
  BY Zenon, <1>3 DEF Barrier
<1>4. CASE WriteAction(n) /\ writer'[n].pc = "barrier"
  <2>1. /\ WriteBarrier(n) /\ leader[n] /\ writer[n].pc = "catchUp" /\ writer'[n].seen = writer[n].seen
        /\ writer'[n].at = LastIndex(n) + 1 /\ writer'[n].term = term[n]
    BY Zenon, <1>4, WriterFrom
  <2>2. writer[n].seen <= term[n]
    BY Zenon, <2>1 DEF Writes, Checks
  <2>3. /\ Propose(n, Mark(term[n])) /\ UNCHANGED <<bound, committed, term, leader, tailAt, reached>>
    BY Zenon, <2>1 DEF WriteBarrier, writeFrame, fsmVars
  <2>4. Mark(term[n]) \in LogEntry /\ Mark(term[n]).term = term[n]
    BY Zenon, <1>1, EntryTypes, MarkQuiet
  <2>5. LogOf(n)' = Append(LogOf(n), Mark(term[n]))
    BY Zenon, <2>1, <2>3, <2>4, LogOfAppend DEF Appends
  <2>6. ASSUME Leads(n)'
        PROVE  reached'[n] < LastIndex(n) + 1 /\ QuietBut(LogOf(n)', LastIndex(n) + 1, 0)
    <3>1. Live(n)
      BY Zenon, <2>3, <2>6 DEF Leads, Live
    <3>2. /\ LogOf(n) \in Seq(LogEntry) /\ Len(committed) \in Nat /\ Len(tail[n]) \in Nat
          /\ Len(LogOf(n)) = Len(committed) + Len(tail[n]) /\ Len(LogOf(n)) = LastIndex(n)
      BY Zenon, <3>1, LogOfType DEF Types
    <3>3. reached[n] \in Nat /\ reached[n] <= Len(committed)
      BY Zenon DEF Types, FsmTypes, Stores
    <3>4. reached'[n] < LastIndex(n) + 1
      BY <2>3, <3>2, <3>3
    <3>5. Len(LogOf(n)') = LastIndex(n) + 1 /\ LastIndex(n) \in Nat
      <4>1. Len(LogOf(n)') = Len(LogOf(n)) + 1 /\ Len(LogOf(n)) \in Nat
        BY <2>4, <2>5, <3>2, AppendEntry
      <4> QED BY Zenon, <3>2, <4>1
    <3>6. \A j \in 1..Len(LogOf(n)') : ~(j > LastIndex(n) + 1)
      BY <3>5
    <3> QED BY Zenon, <3>4, <3>6 DEF QuietBut
  <2>7. term[n] <= term'[n]
    BY Zenon, <1>1
  <2>8. Leads(n)' => reached'[n] < writer'[n].at /\ QuietBut(LogOf(n)', writer'[n].at, 0)
    BY Zenon, <2>1, <2>6
  <2> QED BY Zenon, <2>1, <2>2, <2>7, <2>8 DEF Barrier, QuietBut
<1> QED BY Zenon, <1>2, <1>3, <1>4, WriterCases

\* A leader past its barrier has applied all but its own pending write.
LEMMA CaughtStep ==
    ASSUME Types, Elections, Stores, Writes, Serials, [Next]_vars, NEW n \in Node
    PROVE  Caught(n)'
<1> SUFFICES ASSUME Leads(n)', barrierTerm'[n] = term'[n], failures' = 0
             PROVE  applied'[n] >= reached'[n] /\ QuietBut(LogOf(n)', applied'[n], Pending(n)')
  BY Zenon DEF Caught, QuietBut
<1>1. ~Restart(n)
  BY Zenon DEF Leads, Restart, Types, RaftTypes
<1>2. ~Elect(n)
  <2> SUFFICES ASSUME Elect(n) PROVE FALSE
    BY Zenon
  <2>1. barrierTerm'[n] = barrierTerm[n]
    BY Zenon DEF Elect, writeVars
  <2>2. barrierTerm[n] \in Nat /\ barrierTerm[n] <= term[n]
    BY Zenon DEF Writes, Checks, Types, CallTypes
  <2>3. term'[n] > term[n] /\ term[n] \in Nat /\ term'[n] \in Nat
    BY Zenon, ElectTerm
  <2>4. barrierTerm[n] = term'[n]
    BY Zenon, <2>1
  <2> QED BY <2>2, <2>3, <2>4
<1>3. Leads(n) /\ term'[n] = term[n] /\ term[n] \in Nat
  BY Zenon, <1>2, LeadsStep, TermsGrow
<1>4. /\ failures = 0 /\ applied[n] \in Nat /\ applied'[n] \in Nat /\ reached[n] \in Nat /\ reached'[n] \in Nat
      /\ applied[n] <= applied'[n]
      /\ applied[n] >= reached[n] => applied'[n] >= reached'[n]
  BY Zenon, <1>3, LeaderApplies DEF Leads, Serials
<1>5. CASE BarrierDone(n)
  <2>1. /\ writer[n].pc = "barrier" /\ barrierTerm'[n] = writer[n].seen
        /\ applied[n] >= writer[n].at /\ writer'[n].pc = "stage"
    BY Zenon, <1>5 DEF BarrierDone, Settled, Types, CallTypes
  <2>2. /\ writer[n].at \in Nat /\ writer[n].term \in Nat /\ writer[n].seen \in Nat
        /\ writer[n].seen <= writer[n].term /\ writer[n].term <= term[n]
    BY Zenon, <2>1, WriterFields DEF Serials, Barrier
  <2>3. term[n] = writer[n].term
    BY <1>3, <2>1, <2>2
  <2>4. (reached[n] < writer[n].at \/ applied[n] >= reached[n]) /\ QuietBut(LogOf(n), writer[n].at, 0)
    BY Zenon, <1>3, <1>4, <2>1, <2>3 DEF Serials, Barrier
  <2>5. applied[n] >= reached[n]
    BY <1>4, <2>1, <2>2, <2>4
  <2>6. Pending(n)' = 0
    BY Zenon, <2>1 DEF Pending
  <2>7. writer[n].at <= applied'[n] /\ ~WritePropose(n)
    BY <1>4, <2>1, <2>2 DEF WritePropose
  <2>8. QuietBut(LogOf(n)', applied'[n], 0)
    BY Zenon, <1>2, <1>4, <2>2, <2>4, <2>7, QuietMarks
  <2> QED BY Zenon, <1>4, <2>5, <2>6, <2>8
<1>6. ASSUME ~BarrierDone(n)
      PROVE  applied'[n] >= reached'[n] /\ QuietBut(LogOf(n)', applied'[n], Pending(n)')
  <2>1. barrierTerm[n] = term[n]
    BY Zenon, <1>1, <1>3, <1>6, WriterCases, WriterFrom
  <2>2. applied[n] >= reached[n] /\ QuietBut(LogOf(n), applied[n], Pending(n))
    BY Zenon, <1>3, <1>4, <2>1 DEF Serials, Caught
  <2>3. CASE writer'[n] = writer[n] /\ ~WritePropose(n)
    <3>1. Pending(n)' = Pending(n)
      BY Zenon, <1>3, <2>3 DEF Pending
    <3>2. QuietBut(LogOf(n)', applied'[n], Pending(n))
      BY Zenon, <1>2, <1>4, <2>2, <2>3, QuietMarks
    <3> QED BY Zenon, <1>4, <2>2, <3>1, <3>2
  <2>4. CASE WritePropose(n)
    <3>1. writer[n].pc = "propose" /\ leader[n] /\ UNCHANGED <<committed, tailAt, applied>>
      BY Zenon, <1>3, <2>4 DEF WritePropose, Leads, writeFrame, fsmVars
    <3>2. /\ writer'[n].pc = "wait" /\ writer'[n].at = LastIndex(n) + 1 /\ writer'[n].term = term[n]
      <4>1. writer'[n].pc = "wait"
        BY <2>4, <3>1 DEF WritePropose, Types, CallTypes
      <4> QED BY Zenon, <2>4, <4>1, WriterFrom DEF WriteAction
    <3>3. Pending(n) = 0 /\ Pending(n)' = LastIndex(n) + 1
      BY Zenon, <1>3, <3>1, <3>2 DEF Pending
    <3>4. Sent(n) \in LogEntry /\ LogOf(n)' = Append(LogOf(n), Sent(n))
      <4>1. Sent(n) \in LogEntry
        BY Zenon, <1>3, <3>1, WriterFields, EntryTypes DEF Sent
      <4>2. Appends(n, Sent(n))
        <5>1. Sent(n).term = term[n]
          BY Zenon DEF Sent, Command
        <5> QED BY Zenon, <2>4, <3>1, <5>1 DEF Appends, WritePropose, Sent, writeFrame
      <4> QED BY Zenon, <4>1, <4>2, LogOfAppend
    <3>5. LogOf(n) \in Seq(LogEntry) /\ LastIndex(n) = Len(LogOf(n))
      BY Zenon, <1>3, LogOfType DEF Types, Leads
    <3>6. QuietBut(Append(LogOf(n), Sent(n)), applied[n], LastIndex(n) + 1)
      BY ZenonT(30), <1>4, <2>2, <3>3, <3>4, <3>5, QuietAppend
    <3>7. applied'[n] = applied[n]
      BY Zenon, <3>1
    <3> QED BY Zenon, <1>4, <2>2, <3>3, <3>4, <3>6, <3>7
  <2>5. CASE WriteDone(n)
    <3>1. writer[n].pc = "wait" /\ applied[n] >= writer[n].at /\ writer'[n].pc = "idle" /\ writer[n].at \in Nat
      BY ZenonT(30), <2>5, WriterFields DEF WriteDone, Settled, Return, IdleWriter, Types, CallTypes
    <3>2. Pending(n)' = 0 /\ Pending(n) \in Nat /\ Pending(n) <= applied'[n]
      BY <1>4, <3>1 DEF Pending
    <3>3. ~WritePropose(n)
      BY Zenon, <3>1 DEF WritePropose
    <3>4. QuietBut(LogOf(n)', applied'[n], 0)
      BY Zenon, <1>2, <1>4, <2>2, <3>2, <3>3, QuietMarks
    <3> QED BY Zenon, <1>4, <2>2, <3>2, <3>4
  <2>6. CASE WriteBegin(n) \/ WriteBarrier(n) \/ Stage(n) \/ WriteFail(n)
    <3>1. writer[n].pc # "propose" /\ Pending(n) = 0
      <4>1. CASE WriteFail(n)
        BY Zenon, <1>3, <4>1 DEF WriteFail, Lost, Leads, Pending
      <4>2. CASE WriteBegin(n) \/ WriteBarrier(n) \/ Stage(n)
        BY Zenon, <4>2 DEF WriteBegin, WriteBarrier, Stage, Pending
      <4> QED BY Zenon, <2>6, <4>1, <4>2
    <3>2. ~WritePropose(n)
      BY Zenon, <3>1 DEF WritePropose
    <3>3. Pending(n)' = 0
      BY Zenon, <2>6, <3>2, WriterFrom DEF WriteAction, Pending
    <3>4. QuietBut(LogOf(n)', applied'[n], 0)
      BY Zenon, <1>2, <1>4, <2>2, <3>1, <3>2, QuietMarks
    <3> QED BY Zenon, <1>4, <2>2, <3>3, <3>4
  <2> QED BY Zenon, <1>1, <1>6, <2>3, <2>4, <2>5, <2>6, WriterCases DEF WriteAction
<1> QED BY Zenon, <1>5, <1>6

\* Serials holds at the start.
LEMMA SerialsInit ==
    ASSUME Init
    PROVE  Serials
<1>1. /\ committed = <<Mark(1)>> /\ tail = [n \in Node |-> <<>>] /\ term = [n \in Node |-> 1]
      /\ restore = [n \in Node |-> "no"] /\ writer = [n \in Node |-> IdleWriter] /\ barrierTerm = [n \in Node |-> 0]
  BY Zenon DEF Init
<1>2. ASSUME NEW n \in Node
      PROVE  /\ term[n] = 1 /\ restore[n] = "no" /\ writer[n].pc = "idle" /\ barrierTerm[n] = 0
             /\ LogOf(n) = committed
  <2>1. term[n] = 1 /\ restore[n] = "no" /\ writer[n].pc = "idle" /\ barrierTerm[n] = 0 /\ tail[n] = <<>>
    BY Zenon, <1>1 DEF IdleWriter
  <2>2. committed \in Seq(LogEntry)
    BY Zenon, TypesInit DEF Types, RaftTypes
  <2>3. committed \o <<>> = committed
    BY <2>2
  <2> QED BY Zenon, <2>1, <2>3 DEF LogOf
<1>3. SerialLog(committed)
  <2>1. Len(committed) = 1 /\ committed[1] = Mark(1)
    BY Zenon, <1>1
  <2>2. \A i \in 1..Len(committed) : committed[i].id = None
    BY <2>1, MarkQuiet
  <2> QED BY Zenon, <2>2 DEF SerialLog, Serial
<1>4. Guarded /\ Logs
  BY Zenon, <1>2, <1>3 DEF Guarded, Logs
<1>5. \A n \in Node : Caught(n) /\ Barrier(n) /\ Staged(n)
  <2>1. \A n \in Node : barrierTerm[n] # term[n]
    <3>1. 0 # 1
      OBVIOUS
    <3> QED BY Zenon, <1>2, <3>1
  <2>2. \A n \in Node : writer[n].pc = "idle"
    BY Zenon, <1>2
  <2> QED BY Zenon, <2>1, <2>2 DEF Caught, Barrier, Staged
<1> QED BY Zenon, <1>4, <1>5 DEF Serials

\* A statement proposed in the term that ApplyWrite checked was staged on the
\* state that its entry is applied to: the barrier of each term and writeMu
\* serialize the statements of a leadership, for any elections and restarts.
THEOREM StatementsSerial == Spec => []SerialInTerm
<1> DEFINE Inv == Types /\ Elections /\ Stores /\ Writes /\ Serials
<1>1. Init => Inv
  BY ZenonT(30), TypesInit, ElectionsInit, StoresInit, WritesInit, SerialsInit
<1>2. Inv /\ [Next]_vars => Inv'
  <2> SUFFICES ASSUME Inv, [Next]_vars PROVE Inv'
    BY Zenon
  <2>1. \A n \in Node : Caught(n)' /\ Barrier(n)' /\ Staged(n)'
    BY Zenon, CaughtStep, BarrierStep, StagedStep
  <2>2. Guarded' /\ Logs'
    BY Zenon, GuardedStep, LogsStep DEF Serials
  <2>3. Serials'
    BY Zenon, <2>1, <2>2 DEF Serials
  <2> QED BY Zenon, <2>3, TypesStep, ElectionsStep, StoresStep, WritesStep
<1>3. Inv => SerialInTerm
  <2> SUFFICES ASSUME Inv, failures = 0, NEW i \in 1..Len(committed), committed[i].id # None, committed[i].checked = committed[i].term
               PROVE  committed[i].base = LogStore(i - 1)
    BY Zenon DEF SerialInTerm
  <2>1. Serial(committed[i], StoreOf(committed, i - 1))
    BY Zenon DEF Serials, Logs, SerialLog
  <2> QED BY Zenon, <2>1, LogStoreOf DEF Serial
<1> QED BY <1>1, <1>2, <1>3, PTL DEF Spec
=============================================================================
