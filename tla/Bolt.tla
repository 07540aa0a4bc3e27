-------------------------------- MODULE Bolt --------------------------------
(***************************************************************************)
(* The bbolt adapter (internal/storage/bolt/bolt.go): a transaction keeps  *)
(* its writes in a buffer over the bucket, and an iterator merges a cursor *)
(* over the bucket with a sorted copy of the buffer.  The buffer is put    *)
(* into the bucket key by key at the end of Update.                        *)
(***************************************************************************)
EXTENDS Integers

\* Keys and prefixes are those of Storage: positive integers and intervals.
CONSTANTS Txn, Key, Value, Prefix

None == 0
Deleted == 0 - 1
Unset == 0 - 2

ASSUME KeysAssumption ==
    /\ Key \subseteq Nat \ {None} /\ Value \subseteq Nat \ {None}
    /\ Prefix \subseteq [lo : Nat, hi : Nat]

VARIABLES bucket,         \* the committed bucket
          mode,
          base,           \* per transaction: the bucket it reads (txn.b)
          pending,        \* per transaction: Unset, Deleted or a value
          iter            \* per transaction: its iterator, and where it is in its code

boltVars == <<bucket, mode, base, pending, iter>>

Nothing == [k \in Key |-> None]
NoPending == [k \in Key |-> Unset]
NoIter == [pc |-> "closed"]

BoltInit ==
    /\ bucket \in [Key -> Value \cup {None}]
    /\ mode = [t \in Txn |-> "idle"]
    /\ base = [t \in Txn |-> Nothing]
    /\ pending = [t \in Txn |-> NoPending]
    /\ iter = [t \in Txn |-> NoIter]

\* A transaction is used by one goroutine, which is not in the middle of a call.
Ready(t, m) == mode[t] \in m /\ iter[t].pc # "settle"

\* View, and Update: bbolt has one read-write transaction at a time.
Begin(t, m) ==
    /\ mode[t] = "idle"
    /\ m = "rw" => \A u \in Txn : mode[u] # "rw"
    /\ mode' = [mode EXCEPT ![t] = m]
    /\ base' = [base EXCEPT ![t] = bucket]
    /\ UNCHANGED <<bucket, pending, iter>>

Get(t, k) ==
    IF pending[t][k] = Unset THEN base[t][k]
    ELSE IF pending[t][k] = Deleted THEN None ELSE pending[t][k]

Set(t, k, v) ==
    /\ Ready(t, {"rw"})
    /\ pending' = [pending EXCEPT ![t][k] = v]
    /\ UNCHANGED <<bucket, mode, base, iter>>

Delete(t, k) ==
    /\ Ready(t, {"rw"})
    /\ pending' = [pending EXCEPT ![t][k] = Deleted]
    /\ UNCHANGED <<bucket, mode, base, iter>>

----------------------------------------------------------------------------
(* The iterator.  Of the cursor only its key matters: None at the end.  Of   *)
(* the sorted copy of the buffer what has not been passed is kept, by key;   *)
(* its first entry is the one with the least key.                            *)

Lowest(S) == IF S = {} THEN None ELSE CHOOSE k \in S : \A j \in S : k <= j

SeekKey(c, from) == Lowest({k \in Key : k >= from /\ c[k] # None})

HasPrefix(k, p) == k >= p.lo /\ k <= p.hi

cursorKey(it) == IF it.ck # None /\ HasPrefix(it.ck, it.prefix) THEN it.ck ELSE None

pendKey(it) == Lowest({k \in Key : it.pend[k] # Unset})

\* Mutant of Shadowed: the cursor is not moved off a key the buffer shadows.
Shadowed_Kept(c, it) == it.ck

\* Where the cursor is once the buffer's next entry is dealt with.
Shadowed(c, it) == IF cursorKey(it) = pendKey(it) THEN SeekKey(c, it.ck + 1) ELSE it.ck

At(key, val) == [key |-> key, val |-> val]

\* One round of the loop in settle: from c, the iterator it becomes.
settle(c, it) ==
    LET ck == cursorKey(it)
        pk == pendKey(it)
    IN CASE ck = None /\ pk = None -> [it EXCEPT !.at = At(None, None), !.pc = "settled"]
         [] ck # None /\ (pk = None \/ ck < pk) -> [it EXCEPT !.at = At(ck, c[ck]), !.pc = "settled"]
         [] OTHER -> IF it.pend[pk] = Deleted
                     THEN [it EXCEPT !.ck = Shadowed(c, it), !.pend[pk] = Unset]
                     ELSE [it EXCEPT !.ck = Shadowed(c, it), !.at = At(pk, it.pend[pk]), !.pc = "settled"]

Settle(t) ==
    /\ iter[t].pc = "settle"
    /\ iter' = [iter EXCEPT ![t] = settle(base[t], @)]
    /\ UNCHANGED <<bucket, mode, base, pending>>

\* The buffered writes in range, as they are now.
Buffered(t, p, start) ==
    [k \in Key |-> IF HasPrefix(k, p) /\ k >= start THEN pending[t][k] ELSE Unset]

\* Up to the loop of settle.
ScanFrom(t, p, start) ==
    /\ Ready(t, {"ro", "rw"})
    /\ LET s == IF start < p.lo THEN p.lo ELSE start
       IN iter' = [iter EXCEPT ![t] =
                      [pc |-> "settle", prefix |-> p, ck |-> SeekKey(base[t], s),
                       pend |-> Buffered(t, p, s), at |-> At(None, None), on |-> [k \in Key |-> Get(t, k)]]]
    /\ UNCHANGED <<bucket, mode, base, pending>>

\* The entry the iterator stands at is passed, in the source it came from.
passed(c, it) ==
    IF it.at.key = pendKey(it) THEN [it EXCEPT !.pend[pendKey(it)] = Unset, !.pc = "settle"]
    ELSE [it EXCEPT !.ck = SeekKey(c, it.ck + 1), !.pc = "settle"]

\* Next of the iterator, up to the loop of settle.
Advance(t) ==
    /\ iter[t].pc = "settled" /\ iter[t].at.key # None
    /\ iter' = [iter EXCEPT ![t] = passed(base[t], @)]
    /\ UNCHANGED <<bucket, mode, base, pending>>

End(t) ==
    /\ mode' = [mode EXCEPT ![t] = "idle"]
    /\ base' = [base EXCEPT ![t] = Nothing]
    /\ pending' = [pending EXCEPT ![t] = NoPending]
    /\ iter' = [iter EXCEPT ![t] = NoIter]

\* fn returned nil: the buffer goes into the bucket, and bbolt commits.
Commit(t) ==
    /\ Ready(t, {"rw"})
    /\ bucket' = [k \in Key |-> CASE pending[t][k] = Unset -> bucket[k]
                                  [] pending[t][k] = Deleted -> None
                                  [] OTHER -> pending[t][k]]
    /\ End(t)

\* fn failed, or a View ends.
Discard(t) == Ready(t, {"ro", "rw"}) /\ UNCHANGED bucket /\ End(t)

BoltNext ==
    \E t \in Txn :
        \/ \E m \in {"ro", "rw"} : Begin(t, m)
        \/ \E k \in Key : Delete(t, k) \/ \E v \in Value : Set(t, k, v)
        \/ \E p \in Prefix, start \in Key : ScanFrom(t, p, start)
        \/ Advance(t) \/ Settle(t) \/ Commit(t) \/ Discard(t)

BoltSpec == BoltInit /\ [][BoltNext]_boltVars

----------------------------------------------------------------------------
BoltTypes ==
    /\ bucket \in [Key -> Value \cup {None}]
    /\ mode \in [Txn -> {"idle", "ro", "rw"}]
    /\ pending \in [Txn -> [Key -> Value \cup {Unset, Deleted}]]
    /\ \A t \in Txn : mode[t] # "rw" => pending[t] = NoPending

\* What an iterator has ahead of it: the keys of the buffer's copy, and those of the
\* bucket from the cursor on.  While it settles, it stands at the first of them that
\* its transaction had when it was opened.
Ahead(c, it) ==
    {k \in Key : HasPrefix(k, it.prefix) /\ (it.pend[k] # Unset \/ (c[k] # None /\ it.ck # None /\ it.ck <= k))}
Visible(c, it) == {k \in Ahead(c, it) : it.on[k] # None}
Upcoming(c, it) == IF Visible(c, it) = {} THEN At(None, None)
                   ELSE At(Lowest(Visible(c, it)), it.on[Lowest(Visible(c, it))])

view == [t \in Txn |-> IF mode[t] = "idle" THEN Nothing ELSE [k \in Key |-> Get(t, k)]]
iterAbs == [t \in Txn |-> IF iter[t].pc # "closed"
                          THEN [open |-> TRUE, on |-> iter[t].on, prefix |-> iter[t].prefix,
                                at |-> IF iter[t].pc = "settled" THEN iter[t].at ELSE Upcoming(base[t], iter[t])]
                          ELSE [open |-> FALSE]]
Contract == INSTANCE Storage WITH data <- bucket, view <- view, iter <- iterAbs

\* The adapter implements the contract of internal/storage (store.go): what Get
\* returns and every position of an iterator are those of one map, the bucket with
\* the transaction's own writes, as it was when the iterator was opened; commits are
\* whole, and a transaction has a buffer only while it writes.
ImplementsStorage == Contract!Spec /\ []BoltTypes
=============================================================================
