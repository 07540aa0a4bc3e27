------------------------------ MODULE Storage ------------------------------
(***************************************************************************)
(* The contract of internal/storage (store.go) as the graph layer uses it  *)
(* on an engine with one writer: transactions on a consistent snapshot     *)
(* that see their own writes, iterators that see the transaction as it was *)
(* when they were opened, all-or-nothing commits.                          *)
(***************************************************************************)
EXTENDS Integers

CONSTANTS Txn, Key, Value, Prefix

\* Keys are positive integers, in key order; the keys with a prefix are an
\* interval p.lo..p.hi of them.
None == 0
Data == [Key -> Value \cup {None}]

VARIABLES data,           \* what is committed
          mode,           \* per transaction: "idle", "ro" or "rw"
          view,           \* per transaction: what it sees
          iter            \* per transaction: its open iterator, NoIter when none

vars == <<data, mode, view, iter>>

Nothing == [k \in Key |-> None]
NoIter == [open |-> FALSE]

\* The entry an iterator over d stands at: the first one from a key on.
From(d, p, from) ==
    LET present == {k \in Key : k >= from /\ k >= p.lo /\ k <= p.hi /\ d[k] # None}
    IN IF present = {} THEN [key |-> None, val |-> None]
       ELSE LET k == CHOOSE k \in present : \A j \in present : k <= j
            IN [key |-> k, val |-> d[k]]

Init == /\ data \in Data
        /\ mode = [t \in Txn |-> "idle"]
        /\ view = [t \in Txn |-> Nothing]
        /\ iter = [t \in Txn |-> NoIter]

Begin(t, m) ==
    /\ mode[t] = "idle"
    /\ m = "rw" => \A u \in Txn : mode[u] # "rw"
    /\ mode' = [mode EXCEPT ![t] = m]
    /\ view' = [view EXCEPT ![t] = data]
    /\ UNCHANGED <<data, iter>>

\* Set with a value, Delete with None.
Write(t, k, v) ==
    /\ mode[t] = "rw"
    /\ view' = [view EXCEPT ![t][k] = v]
    /\ UNCHANGED <<data, mode, iter>>

ScanFrom(t, p, start) ==
    /\ mode[t] # "idle"
    /\ iter' = [iter EXCEPT ![t] = [open |-> TRUE, on |-> view[t], prefix |-> p, at |-> From(view[t], p, start)]]
    /\ UNCHANGED <<data, mode, view>>

Next(t) ==
    /\ iter[t].open /\ iter[t].at.key # None
    /\ iter' = [iter EXCEPT ![t].at = From(iter[t].on, iter[t].prefix, iter[t].at.key + 1)]
    /\ UNCHANGED <<data, mode, view>>

End(t) ==
    /\ mode' = [mode EXCEPT ![t] = "idle"]
    /\ view' = [view EXCEPT ![t] = Nothing]
    /\ iter' = [iter EXCEPT ![t] = NoIter]

Commit(t) == mode[t] = "rw" /\ data' = view[t] /\ End(t)
Discard(t) == mode[t] # "idle" /\ UNCHANGED data /\ End(t)

Step ==
    \E t \in Txn :
        \/ \E m \in {"ro", "rw"} : Begin(t, m)
        \/ \E k \in Key, v \in Value \cup {None} : Write(t, k, v)
        \/ \E p \in Prefix, start \in Key : ScanFrom(t, p, start)
        \/ Next(t) \/ Commit(t) \/ Discard(t)

Spec == Init /\ [][Step]_vars
=============================================================================
