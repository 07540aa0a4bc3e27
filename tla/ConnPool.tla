------------------------------ MODULE ConnPool ------------------------------
(***************************************************************************)
(* connPool (cluster/pool.go): the net/rpc connections a voter or a client *)
(* keeps to the voters it forwards to, used by many goroutines at a time.  *)
(* A connection is open, stale (the voter at its other end went away),     *)
(* closed, or not dialled yet; closed ones are dialled again under the     *)
(* same name.  `conn` and `up` stand for TCP and the voters, which are     *)
(* outside the pool.                                                       *)
(***************************************************************************)
EXTENDS Integers, Sequences, FiniteSets

CONSTANTS Caller, Addr,
          maxIdle,        \* of the pool, per address
          MaxRestart      \* bound on the times voters go away

\* The pool's limit is positive: newConnPoolTLS replaces others by 4.
ASSUME MaxIdleAssumption == maxIdle \in Nat \ {0}

\* Enough names for every idle connection and one in use by each caller.
Conn == 1..(Cardinality(Caller) + maxIdle * Cardinality(Addr))

VARIABLES idle,           \* per address, the free list, newest last
          closed,
          conn,           \* per connection: "closed", "open" or "stale"
          call,           \* per caller: its call()
          up,             \* per address: the voter is there
          restarts

poolVars == <<idle, closed, conn, call, up, restarts>>

Idle == [pc |-> "idle"]
CallAttempts == 2

PoolInit == /\ idle = [a \in Addr |-> <<>>]
        /\ closed = FALSE
        /\ conn = [k \in Conn |-> "closed"]
        /\ call = [c \in Caller |-> Idle]
        /\ up = [a \in Addr |-> TRUE]
        /\ restarts = 0

\* `sound` is history: the voter has been there since the call began.
Begin(c, a) ==
    /\ call[c].pc = "idle"
    /\ call' = [call EXCEPT ![c] = [pc |-> "get", addr |-> a, attempt |-> 0, sound |-> up[a]]]
    /\ UNCHANGED <<idle, closed, conn, up, restarts>>

EndCall(c, result) == call' = [call EXCEPT ![c] = [pc |-> "done", result |-> result, sound |-> @.sound]]

\* The context is done before an attempt: call returns its error.
Expired(c) ==
    /\ call[c].pc = "get"
    /\ EndCall(c, "context")
    /\ UNCHANGED <<idle, closed, conn, up, restarts>>

\* get, under the lock: refuse, take the newest idle connection, or go on to
\* dial without the lock.
get(c) ==
    /\ call[c].pc = "get"
    /\ LET a == call[c].addr
       IN \/ closed /\ EndCall(c, "closed") /\ UNCHANGED idle
          \/ /\ ~closed /\ idle[a] # <<>>
             /\ call' = [call EXCEPT ![c] = [pc |-> "wait", addr |-> a, attempt |-> @.attempt,
                                             sound |-> @.sound, conn |-> idle[a][Len(idle[a])]]]
             /\ idle' = [idle EXCEPT ![a] = SubSeq(@, 1, Len(@) - 1)]
          \/ ~closed /\ idle[a] = <<>> /\ call' = [call EXCEPT ![c].pc = "dial"] /\ UNCHANGED idle
    /\ UNCHANGED <<closed, conn, up, restarts>>

dial(c) ==
    /\ call[c].pc = "dial"
    /\ IF up[call[c].addr]
       THEN \E k \in {j \in Conn : conn[j] = "closed"} :
              /\ \A j \in 1..(k - 1) : conn[j] # "closed"
              /\ conn' = [conn EXCEPT ![k] = "open"]
              /\ call' = [call EXCEPT ![c] = [pc |-> "wait", addr |-> @.addr, attempt |-> @.attempt,
                                              sound |-> @.sound, conn |-> k]]
       ELSE EndCall(c, "dial") /\ UNCHANGED conn
    /\ UNCHANGED <<idle, closed, up, restarts>>

put(c, a, k) ==
    IF closed \/ Len(idle[a]) >= maxIdle
    THEN conn' = [conn EXCEPT ![k] = "closed"] /\ UNCHANGED idle
    ELSE idle' = [idle EXCEPT ![a] = Append(@, k)] /\ UNCHANGED conn

\* The voter answers; between the answer and put the connection may go stale.
Answer(c) ==
    /\ call[c].pc = "wait" /\ conn[call[c].conn] = "open"
    /\ call' = [call EXCEPT ![c].pc = "put"]
    /\ UNCHANGED <<idle, closed, conn, up, restarts>>

Put(c) ==
    /\ call[c].pc = "put"
    /\ put(c, call[c].addr, call[c].conn)
    /\ EndCall(c, "reply")
    /\ UNCHANGED <<closed, up, restarts>>

\* Mutant of Broken: the connection that failed is dropped but not closed.
Broken_NotClosed(c) ==
    /\ call[c].pc = "wait" /\ conn[call[c].conn] = "stale"
    /\ IF call[c].attempt + 1 < CallAttempts
       THEN call' = [call EXCEPT ![c] = [pc |-> "get", addr |-> @.addr, attempt |-> @.attempt + 1,
                                         sound |-> @.sound]]
       ELSE EndCall(c, "broken")
    /\ UNCHANGED <<idle, closed, conn, up, restarts>>

\* call.Error: drop the connection and try once more.
Broken(c) ==
    /\ call[c].pc = "wait" /\ conn[call[c].conn] = "stale"
    /\ conn' = [conn EXCEPT ![call[c].conn] = "closed"]
    /\ IF call[c].attempt + 1 < CallAttempts
       THEN call' = [call EXCEPT ![c] = [pc |-> "get", addr |-> @.addr, attempt |-> @.attempt + 1,
                                         sound |-> @.sound]]
       ELSE EndCall(c, "broken")
    /\ UNCHANGED <<idle, closed, up, restarts>>

\* The context is done before the reply.
GiveUp(c) ==
    /\ call[c].pc = "wait"
    /\ conn' = [conn EXCEPT ![call[c].conn] = "closed"]
    /\ EndCall(c, "context")
    /\ UNCHANGED <<idle, closed, up, restarts>>

Return(c) ==
    /\ call[c].pc = "done"
    /\ call' = [call EXCEPT ![c] = Idle]
    /\ UNCHANGED <<idle, closed, conn, up, restarts>>

Listed(s) == {s[i] : i \in 1..Len(s)}

Close ==
    /\ closed' = TRUE
    /\ conn' = [k \in Conn |-> IF \E a \in Addr : k \in Listed(idle[a]) THEN "closed" ELSE conn[k]]
    /\ idle' = [a \in Addr |-> <<>>]
    /\ UNCHANGED <<call, up, restarts>>

\* Which voter a connection goes to.
Peer(k) == {a \in Addr : k \in Listed(idle[a]) \/ \E c \in Caller :
                call[c].pc \in {"wait", "put"} /\ call[c].conn = k /\ call[c].addr = a}

\* A voter goes away: its connections break and calls to it are not sound.
Down(a) ==
    /\ up[a] /\ restarts < MaxRestart
    /\ restarts' = restarts + 1
    /\ up' = [up EXCEPT ![a] = FALSE]
    /\ conn' = [k \in Conn |-> IF conn[k] = "open" /\ a \in Peer(k) THEN "stale" ELSE conn[k]]
    /\ call' = [c \in Caller |-> IF call[c].pc \in {"get", "dial", "wait"} /\ call[c].addr = a
                                 THEN [call[c] EXCEPT !.sound = FALSE] ELSE call[c]]
    /\ UNCHANGED <<idle, closed>>

Up(a) ==
    /\ ~up[a]
    /\ up' = [up EXCEPT ![a] = TRUE]
    /\ UNCHANGED <<idle, closed, conn, call, restarts>>

PoolNext ==
    \/ \E c \in Caller :
           \/ \E a \in Addr : Begin(c, a)
           \/ Expired(c) \/ get(c) \/ dial(c) \/ Answer(c) \/ Put(c)
           \/ Broken(c) \/ GiveUp(c) \/ Return(c)
    \/ Close
    \/ \E a \in Addr : Down(a) \/ Up(a)

PoolSpec == PoolInit /\ [][PoolNext]_poolVars

----------------------------------------------------------------------------
Held(k) == {c \in Caller : call[c].pc \in {"wait", "put"} /\ call[c].conn = k}
Kept(k) == {p \in Addr \X (1..maxIdle + 1) : p[2] <= Len(idle[p[1]]) /\ idle[p[1]][p[2]] = k}

PoolTypeOK ==
    /\ idle \in [Addr -> Seq(Conn)] /\ \A a \in Addr : Len(idle[a]) <= maxIdle
    /\ closed \in BOOLEAN /\ up \in [Addr -> BOOLEAN]
    /\ conn \in [Conn -> {"closed", "open", "stale"}]
    /\ \A c \in Caller : call[c].pc \in {"idle", "get", "dial", "wait", "put", "done"}

\* Every connection that is not closed is in one place, the free list of one
\* address or the hands of one caller, and a closed one is in none: get, put
\* and the error paths of call neither leak nor share a connection.
OneOwner ==
    \A k \in Conn : Cardinality(Held(k)) + Cardinality(Kept(k)) = (IF conn[k] = "closed" THEN 0 ELSE 1)

\* After Close, and once the calls that were under way have returned, no
\* connection is left open: a put that comes after Close closes.
NothingAfterClose ==
    closed /\ (\A c \in Caller : call[c].pc \in {"idle", "done"}) => \A k \in Conn : conn[k] = "closed"

\* All of these: every connection is idle, used by one call or closed, no
\* address keeps more idle ones than maxIdle, and none survives a closed pool
\* (get, put, call, Close).
ConnectionsAccounted == PoolTypeOK /\ OneOwner /\ NothingAfterClose

\* The comment on connPool: a call to a voter that is there does not fail
\* because connections to it had gone stale before.
RecoversTransparently ==
    \A c \in Caller : call[c].pc = "done" /\ call[c].result = "broken" => ~call[c].sound
=============================================================================
