---------------------------- MODULE RemoteProofs ----------------------------
(***************************************************************************)
(* Statements on their way to the leader.  Every connection of the pool is *)
(* in one place, for any number of callers, addresses, connections and     *)
(* restarts.  And a forwarded statement, for any number of voters,         *)
(* elections, requests and faults: ForwardInv follows the requests (Tree)  *)
(* and their answers (Successes), counts the chances left to apply the     *)
(* statement (Counted), and knows who won each term (Leaders, Passed).     *)
(***************************************************************************)
EXTENDS ConnPool, Forward, FiniteSetTheorems, TLAPS

----------------------------------------------------------------------------
(* The pool.                                                               *)

\* What call[c] can be: before, at and after the connection it uses.
CallStates ==
    [pc : {"idle"}]
        \cup [pc : {"get", "dial"}, addr : Addr, attempt : Nat, sound : BOOLEAN]
        \cup [pc : {"wait", "put"}, addr : Addr, attempt : Nat, sound : BOOLEAN, conn : Conn]
        \cup [pc : {"done"}, result : {"context", "closed", "dial", "reply", "broken"}, sound : BOOLEAN]

PoolTypes ==
    /\ idle \in [Addr -> Seq(Conn)] /\ \A a \in Addr : Len(idle[a]) <= maxIdle
    /\ closed \in BOOLEAN /\ up \in [Addr -> BOOLEAN]
    /\ conn \in [Conn -> {"closed", "open", "stale"}]
    /\ call \in [Caller -> CallStates]

Holds(c) == call[c].pc \in {"wait", "put"}

\* A connection in use or on a free list is not closed.
InUseOpen ==
    /\ \A c \in Caller : Holds(c) => conn[call[c].conn] # "closed"
    /\ \A a \in Addr : \A i \in 1..Len(idle[a]) : conn[idle[a][i]] # "closed"

\* It is in one place only.
OnePlace ==
    /\ \A c, d \in Caller : Holds(c) /\ Holds(d) /\ call[c].conn = call[d].conn => c = d
    /\ \A a, b \in Addr : \A i \in 1..Len(idle[a]), j \in 1..Len(idle[b]) :
           idle[a][i] = idle[b][j] => a = b /\ i = j
    /\ \A c \in Caller, a \in Addr : \A i \in 1..Len(idle[a]) : Holds(c) => call[c].conn # idle[a][i]

\* And one that is not closed is in some place.
SomePlace ==
    \A k \in Conn : conn[k] # "closed" =>
        \/ \E c \in Caller : Holds(c) /\ call[c].conn = k
        \/ \E a \in Addr : \E i \in 1..Len(idle[a]) : idle[a][i] = k

EmptyWhenClosed == closed => \A a \in Addr : idle[a] = <<>>

PoolInv == PoolTypes /\ InUseOpen /\ OnePlace /\ SomePlace /\ EmptyWhenClosed

----------------------------------------------------------------------------
(* The fields of a call, by where it is.                                   *)

\* A call that has begun knows its address, one that waits its connection.
LEMMA CallFields ==
    ASSUME PoolTypes, NEW c \in Caller
    PROVE  /\ call[c] \in CallStates
           /\ call[c].pc \in {"idle", "get", "dial", "wait", "put", "done"}
           /\ call[c].pc # "idle" => call[c].sound \in BOOLEAN
           /\ call[c].pc \in {"get", "dial", "wait", "put"} => call[c].addr \in Addr /\ call[c].attempt \in Nat
           /\ Holds(c) => call[c].conn \in Conn
<1>1. call[c] \in CallStates
  BY Zenon DEF PoolTypes
<1> QED BY Zenon, <1>1 DEF CallStates, Holds

\* The states a call goes to.
LEMMA NextCall ==
    ASSUME NEW a \in Addr, NEW n \in Nat, NEW s \in BOOLEAN
    PROVE  /\ [pc |-> "get", addr |-> a, attempt |-> n, sound |-> s] \in CallStates
           /\ \A k \in Conn : [pc |-> "wait", addr |-> a, attempt |-> n, sound |-> s, conn |-> k] \in CallStates
BY Zenon DEF CallStates

\* A call that is over.
LEMMA CallOver ==
    ASSUME NEW r \in {"context", "closed", "dial", "reply", "broken"}, NEW s \in BOOLEAN
    PROVE  [pc |-> "done", result |-> r, sound |-> s] \in CallStates
BY Zenon DEF CallStates

\* EndCall changes the state of one caller, which holds nothing afterwards.
LEMMA Ending ==
    ASSUME PoolTypes, NEW c \in Caller, call[c].pc # "idle",
           NEW r \in {"context", "closed", "dial", "reply", "broken"}, EndCall(c, r)
    PROVE  /\ call' \in [Caller -> CallStates]
           /\ ~Holds(c)'
           /\ \A d \in Caller : d # c => call'[d] = call[d]
<1>1. call[c].sound \in BOOLEAN
  BY Zenon, CallFields
<1>2. call' = [call EXCEPT ![c] = [pc |-> "done", result |-> r, sound |-> call[c].sound]]
  BY Zenon DEF EndCall
<1>3. [pc |-> "done", result |-> r, sound |-> call[c].sound] \in CallStates
  BY Zenon, <1>1, CallOver
<1> QED BY Zenon, <1>2, <1>3 DEF PoolTypes, Holds

\* When only a caller that holds nothing moves, and still holds nothing, every
\* connection stays where it is.
LEMMA NobodyMoves ==
    ASSUME PoolInv, UNCHANGED <<idle, closed, conn, up>>, NEW c \in Caller,
           call' \in [Caller -> CallStates], ~Holds(c), ~Holds(c)',
           \A d \in Caller : d # c => call'[d] = call[d]
    PROVE  PoolInv'
<1>1. \A d \in Caller : Holds(d)' <=> Holds(d)
  BY Zenon DEF Holds
<1>2. \A d \in Caller : Holds(d) => call'[d] = call[d]
  BY Zenon DEF Holds
<1>3. PoolTypes'
  BY Zenon DEF PoolInv, PoolTypes
<1>4. InUseOpen'
  BY Zenon, <1>1, <1>2 DEF PoolInv, InUseOpen
<1>5. OnePlace'
  BY <1>1, <1>2 DEF PoolInv, OnePlace
<1>6. SomePlace'
  BY <1>1, <1>2 DEF PoolInv, SomePlace
<1> QED BY Zenon, <1>3, <1>4, <1>5, <1>6 DEF PoolInv, EmptyWhenClosed

----------------------------------------------------------------------------
(* The steps of a call.                                                    *)

\* Begin, Expired and Return, and get when it refuses or goes on to dial.
LEMMA BeginKeeps ==
    ASSUME PoolInv, NEW c \in Caller, NEW a \in Addr, Begin(c, a)
    PROVE  PoolInv'
<1>1. up[a] \in BOOLEAN
  BY Zenon DEF PoolInv, PoolTypes
<1>2. [pc |-> "get", addr |-> a, attempt |-> 0, sound |-> up[a]] \in CallStates
  BY Zenon, <1>1, NextCall
<1>3. call' \in [Caller -> CallStates] /\ ~Holds(c)' /\ ~Holds(c) /\ \A d \in Caller : d # c => call'[d] = call[d]
  BY Zenon, <1>2 DEF Begin, PoolInv, PoolTypes, Holds
<1> QED BY Zenon, <1>3, NobodyMoves DEF Begin

\* A call whose context has ended keeps the invariant.
LEMMA ExpiredKeeps ==
    ASSUME PoolInv, NEW c \in Caller, Expired(c)
    PROVE  PoolInv'
<1>1. ~Holds(c) /\ call[c].pc # "idle"
  BY Zenon DEF Expired, Holds
<1>2. call' \in [Caller -> CallStates] /\ ~Holds(c)' /\ \A d \in Caller : d # c => call'[d] = call[d]
  BY Zenon, <1>1, Ending DEF Expired, PoolInv
<1> QED BY Zenon, <1>1, <1>2, NobodyMoves DEF Expired

\* So does returning.
LEMMA ReturnKeeps ==
    ASSUME PoolInv, NEW c \in Caller, Return(c)
    PROVE  PoolInv'
<1>1. Idle \in CallStates /\ Idle.pc = "idle"
  BY Zenon DEF Idle, CallStates
<1>2. call' \in [Caller -> CallStates] /\ ~Holds(c)' /\ ~Holds(c) /\ \A d \in Caller : d # c => call'[d] = call[d]
  BY Zenon, <1>1 DEF Return, PoolInv, PoolTypes, Holds
<1> QED BY Zenon, <1>2, NobodyMoves DEF Return

\* Answer: the caller keeps its connection.
LEMMA AnswerKeeps ==
    ASSUME PoolInv, NEW c \in Caller, Answer(c)
    PROVE  PoolInv'
<1>1. call[c] \in CallStates /\ call[c].pc = "wait"
  BY Zenon, CallFields DEF PoolInv, Answer
<1>2. [call[c] EXCEPT !.pc = "put"] \in CallStates /\ [call[c] EXCEPT !.pc = "put"].conn = call[c].conn
  BY Zenon, <1>1 DEF CallStates
<1>3. call' = [call EXCEPT ![c] = [call[c] EXCEPT !.pc = "put"]]
  BY Zenon DEF Answer
<1>4. /\ call' \in [Caller -> CallStates]
      /\ \A d \in Caller : Holds(d)' <=> Holds(d)
      /\ \A d \in Caller : Holds(d) => call'[d].conn = call[d].conn
  BY <1>1, <1>2, <1>3 DEF PoolInv, PoolTypes, Holds
<1>5. UNCHANGED <<idle, closed, conn, up>>
  BY Zenon DEF Answer
<1>6. PoolTypes'
  BY Zenon, <1>4, <1>5 DEF PoolInv, PoolTypes
<1>7. InUseOpen'
  BY Zenon, <1>4, <1>5 DEF PoolInv, InUseOpen
<1>8. OnePlace'
  BY <1>4, <1>5 DEF PoolInv, OnePlace
<1>9. SomePlace'
  BY Zenon, <1>4, <1>5 DEF PoolInv, SomePlace
<1> QED BY Zenon, <1>5, <1>6, <1>7, <1>8, <1>9 DEF PoolInv, EmptyWhenClosed

\* get: the newest idle connection of the address goes to the caller.
LEMMA GetKeeps ==
    ASSUME PoolInv, NEW c \in Caller, get(c)
    PROVE  PoolInv'
<1> DEFINE a == call[c].addr
<1>1. /\ call[c].pc = "get" /\ ~Holds(c) /\ a \in Addr /\ call[c].attempt \in Nat /\ call[c].sound \in BOOLEAN
      /\ call[c] \in CallStates
  BY Zenon, CallFields DEF PoolInv, get, Holds
<1>2. UNCHANGED <<closed, conn, up>>
  BY Zenon DEF get
<1>3. CASE closed /\ EndCall(c, "closed") /\ UNCHANGED idle
  <2>1. call' \in [Caller -> CallStates] /\ ~Holds(c)' /\ \A d \in Caller : d # c => call'[d] = call[d]
    BY Zenon, <1>1, <1>3, Ending DEF PoolInv
  <2> QED BY Zenon, <1>1, <1>2, <1>3, <2>1, NobodyMoves
<1>4. CASE ~closed /\ idle[a] = <<>> /\ call' = [call EXCEPT ![c].pc = "dial"] /\ UNCHANGED idle
  <2>1. [call[c] EXCEPT !.pc = "dial"] \in CallStates
    BY Zenon, <1>1 DEF CallStates
  <2>2. call' \in [Caller -> CallStates] /\ ~Holds(c)' /\ \A d \in Caller : d # c => call'[d] = call[d]
    BY <1>1, <1>4, <2>1 DEF PoolInv, PoolTypes, Holds
  <2> QED BY Zenon, <1>1, <1>2, <1>4, <2>2, NobodyMoves
<1>5. CASE /\ ~closed /\ idle[a] # <<>>
           /\ call' = [call EXCEPT ![c] = [pc |-> "wait", addr |-> a, attempt |-> @.attempt,
                                           sound |-> @.sound, conn |-> idle[a][Len(idle[a])]]]
           /\ idle' = [idle EXCEPT ![a] = SubSeq(@, 1, Len(@) - 1)]
  <2> DEFINE k == idle[a][Len(idle[a])]
             w == [pc |-> "wait", addr |-> a, attempt |-> call[c].attempt, sound |-> call[c].sound, conn |-> k]
  <2>1. idle[a] \in Seq(Conn) /\ Len(idle[a]) \in Nat /\ Len(idle[a]) > 0 /\ Len(idle[a]) <= maxIdle
    BY <1>1, <1>5 DEF PoolInv, PoolTypes
  <2>2. k \in Conn
    BY <2>1
  <2>3. w \in CallStates /\ w.pc = "wait" /\ w.conn = k
    BY Zenon, <1>1, <2>2, NextCall
  <2>4. call' = [call EXCEPT ![c] = w]
    BY Zenon, <1>5
  <2> HIDE DEF w
  <2>5. call' \in [Caller -> CallStates] /\ call'[c] = w /\ \A d \in Caller : d # c => call'[d] = call[d]
    BY Zenon, <2>3, <2>4 DEF PoolInv, PoolTypes
  <2>6. Holds(c)' /\ \A d \in Caller : d # c => (Holds(d)' <=> Holds(d))
    BY Zenon, <2>3, <2>5 DEF Holds
  <2>7. idle' \in [Addr -> Seq(Conn)] /\ Len(idle'[a]) = Len(idle[a]) - 1
        /\ \A b \in Addr : b # a => idle'[b] = idle[b]
    BY <1>1, <1>5, <2>1 DEF PoolInv, PoolTypes
  <2>8. \A i \in 1..Len(idle'[a]) : i \in 1..Len(idle[a]) /\ i # Len(idle[a]) /\ idle'[a][i] = idle[a][i]
    BY <1>1, <1>5, <2>1, <2>7 DEF PoolInv, PoolTypes
  <2>9. \A b \in Addr : \A i \in 1..Len(idle'[b]) : i \in 1..Len(idle[b]) /\ idle'[b][i] = idle[b][i] /\ <<b, i>> # <<a, Len(idle[a])>>
    BY Zenon, <2>7, <2>8
  <2>10. Len(idle[a]) \in 1..Len(idle[a]) /\ maxIdle \in Nat
    BY <2>1, MaxIdleAssumption
  <2> HIDE DEF k
  <2>11. k = idle[a][Len(idle[a])]
    BY Zenon DEF k
  <2>12. PoolTypes'
    <3>1. Len(idle'[a]) <= maxIdle
      BY <2>1, <2>7, <2>10
    <3>2. \A b \in Addr : b # a => Len(idle'[b]) <= maxIdle
      BY Zenon, <2>7 DEF PoolInv, PoolTypes
    <3> QED BY Zenon, <1>2, <2>5, <2>7, <3>1, <3>2 DEF PoolInv, PoolTypes
  <2>13. InUseOpen'
    <3>1. conn[k] # "closed"
      BY Zenon, <1>1, <2>10, <2>11 DEF PoolInv, InUseOpen
    <3>2. \A d \in Caller : Holds(d)' => conn'[call'[d].conn] # "closed"
      BY Zenon, <1>2, <2>3, <2>5, <2>6, <3>1 DEF PoolInv, InUseOpen
    <3> QED BY <1>2, <2>9, <3>2 DEF PoolInv, InUseOpen
  <2>14. OnePlace'
    <3>1. \A d \in Caller : Holds(d) => call[d].conn # k
      BY <1>1, <2>10, <2>11 DEF PoolInv, OnePlace
    <3>2. \A b \in Addr : \A i \in 1..Len(idle'[b]) : idle'[b][i] # k
      BY <1>1, <2>9, <2>10, <2>11 DEF PoolInv, OnePlace
    <3>3. \A d, e \in Caller : Holds(d)' /\ Holds(e)' /\ call'[d].conn = call'[e].conn => d = e
      BY Zenon, <2>3, <2>5, <2>6, <3>1 DEF PoolInv, OnePlace
    <3>4. \A a1, b1 \in Addr : \A i \in 1..Len(idle'[a1]), j \in 1..Len(idle'[b1]) :
              idle'[a1][i] = idle'[b1][j] => a1 = b1 /\ i = j
      BY <2>9 DEF PoolInv, OnePlace
    <3>5. \A d \in Caller, b \in Addr : \A i \in 1..Len(idle'[b]) : Holds(d)' => call'[d].conn # idle'[b][i]
      BY <2>3, <2>5, <2>6, <2>9, <3>2 DEF PoolInv, OnePlace
    <3> QED BY Zenon, <3>3, <3>4, <3>5 DEF OnePlace
  <2>15. SomePlace'
    <3>1. ASSUME NEW j \in Conn, conn[j] # "closed", ~\E d \in Caller : Holds(d)' /\ call'[d].conn = j
          PROVE  \E b \in Addr : \E i \in 1..Len(idle'[b]) : idle'[b][i] = j
      <4>1. j # k
        BY Zenon, <2>3, <2>5, <2>6, <3>1
      <4>2. ~\E d \in Caller : Holds(d) /\ call[d].conn = j
        BY Zenon, <1>1, <2>5, <2>6, <3>1
      <4>3. PICK b \in Addr : \E i \in 1..Len(idle[b]) : idle[b][i] = j
        BY Zenon, <3>1, <4>2 DEF PoolInv, SomePlace
      <4>4. PICK i \in 1..Len(idle[b]) : idle[b][i] = j
        BY Zenon, <4>3
      <4>5. CASE b = a
        <5>1. i # Len(idle[a])
          BY Zenon, <2>11, <4>1, <4>4, <4>5
        <5>2. i \in 1..Len(idle'[a]) 
          BY <2>1, <2>7, <4>4, <4>5, <5>1
        <5> QED BY Zenon, <1>1, <2>8, <4>4, <4>5, <5>2
      <4>6. CASE b # a
        BY Zenon, <2>7, <4>4, <4>6
      <4> QED BY Zenon, <4>5, <4>6
    <3> QED BY Zenon, <1>2, <3>1 DEF SomePlace
  <2>16. EmptyWhenClosed'
    BY Zenon, <1>2, <1>5 DEF EmptyWhenClosed
  <2> QED BY Zenon, <2>12, <2>13, <2>14, <2>15, <2>16 DEF PoolInv
<1> QED BY Zenon, <1>3, <1>4, <1>5 DEF get

\* dial: a connection that was closed goes to the caller, opened.
LEMMA DialKeeps ==
    ASSUME PoolInv, NEW c \in Caller, dial(c)
    PROVE  PoolInv'
<1> DEFINE a == call[c].addr
<1>1. /\ call[c].pc = "dial" /\ ~Holds(c) /\ a \in Addr /\ call[c].attempt \in Nat /\ call[c].sound \in BOOLEAN
  BY Zenon, CallFields DEF PoolInv, dial, Holds
<1>2. UNCHANGED <<idle, closed, up>>
  BY Zenon DEF dial
<1>3. CASE ~up[a]
  <2>1. EndCall(c, "dial") /\ UNCHANGED conn
    BY Zenon, <1>3 DEF dial
  <2>2. call' \in [Caller -> CallStates] /\ ~Holds(c)' /\ \A d \in Caller : d # c => call'[d] = call[d]
    BY Zenon, <1>1, <2>1, Ending DEF PoolInv
  <2> QED BY Zenon, <1>1, <1>2, <2>1, <2>2, NobodyMoves
<1>4. CASE up[a]
  <2>1. PICK k \in Conn : /\ conn[k] = "closed"
                          /\ conn' = [conn EXCEPT ![k] = "open"]
                          /\ call' = [call EXCEPT ![c] = [pc |-> "wait", addr |-> @.addr, attempt |-> @.attempt,
                                                          sound |-> @.sound, conn |-> k]]
    BY Zenon, <1>4 DEF dial
  <2> DEFINE w == [pc |-> "wait", addr |-> a, attempt |-> call[c].attempt, sound |-> call[c].sound, conn |-> k]
  <2>2. w \in CallStates /\ w.pc = "wait" /\ w.conn = k
    BY Zenon, <1>1, <2>1, NextCall
  <2>3. call' = [call EXCEPT ![c] = w]
    BY Zenon, <2>1
  <2> HIDE DEF w
  <2>4. call' \in [Caller -> CallStates] /\ call'[c] = w /\ \A d \in Caller : d # c => call'[d] = call[d]
    BY Zenon, <2>2, <2>3 DEF PoolInv, PoolTypes
  <2>5. Holds(c)' /\ \A d \in Caller : d # c => (Holds(d)' <=> Holds(d))
    BY Zenon, <2>2, <2>4 DEF Holds
  <2>6. conn' \in [Conn -> {"closed", "open", "stale"}] /\ conn'[k] = "open" /\ \A j \in Conn : j # k => conn'[j] = conn[j]
    BY Zenon, <2>1 DEF PoolInv, PoolTypes
  <2>7. \A d \in Caller : Holds(d) => call[d].conn \in Conn /\ call[d].conn # k
    BY Zenon, <2>1, CallFields DEF PoolInv, InUseOpen
  <2>8. \A b \in Addr : \A i \in 1..Len(idle[b]) : idle[b][i] \in Conn /\ idle[b][i] # k
    BY <2>1 DEF PoolInv, InUseOpen, PoolTypes
  <2>9. PoolTypes'
    BY Zenon, <1>2, <2>4, <2>6 DEF PoolInv, PoolTypes
  <2>10. InUseOpen'
    <3>1. \A d \in Caller : Holds(d)' => conn'[call'[d].conn] # "closed"
      BY <2>2, <2>4, <2>5, <2>6, <2>7 DEF PoolInv, InUseOpen
    <3> QED BY <1>2, <2>6, <2>8, <3>1 DEF PoolInv, InUseOpen
  <2>11. OnePlace'
    <3>1. \A d, e \in Caller : Holds(d)' /\ Holds(e)' /\ call'[d].conn = call'[e].conn => d = e
      BY Zenon, <2>2, <2>4, <2>5, <2>7 DEF PoolInv, OnePlace
    <3>2. \A d \in Caller, b \in Addr : \A i \in 1..Len(idle[b]) : Holds(d)' => call'[d].conn # idle[b][i]
      BY <2>2, <2>4, <2>5, <2>8 DEF PoolInv, OnePlace
    <3> QED BY <1>2, <3>1, <3>2 DEF PoolInv, OnePlace
  <2>12. SomePlace'
    <3>1. ASSUME NEW j \in Conn, conn'[j] # "closed", ~\E d \in Caller : Holds(d)' /\ call'[d].conn = j
          PROVE  \E b \in Addr : \E i \in 1..Len(idle[b]) : idle[b][i] = j
      <4>1. j # k
        BY Zenon, <2>2, <2>4, <2>5, <3>1
      <4>2. conn[j] # "closed"
        BY Zenon, <2>6, <3>1, <4>1
      <4>3. ~\E d \in Caller : Holds(d) /\ call[d].conn = j
        BY Zenon, <1>1, <2>4, <2>5, <3>1
      <4> QED BY Zenon, <4>2, <4>3 DEF PoolInv, SomePlace
    <3> QED BY Zenon, <1>2, <3>1 DEF SomePlace
  <2> QED BY Zenon, <1>2, <2>9, <2>10, <2>11, <2>12 DEF PoolInv, EmptyWhenClosed
<1> QED BY Zenon, <1>3, <1>4

\* Closing the connection a caller holds, as the caller lets go of it: put on a
\* closed pool or a full list, Broken and GiveUp.
LEMMA ClosingKeeps ==
    ASSUME PoolInv, NEW c \in Caller, Holds(c),
           conn' = [conn EXCEPT ![call[c].conn] = "closed"], UNCHANGED <<idle, closed, up>>,
           call' \in [Caller -> CallStates], ~Holds(c)', \A d \in Caller : d # c => call'[d] = call[d]
    PROVE  PoolInv'
<1> DEFINE k == call[c].conn
<1>1. k \in Conn
  BY Zenon, CallFields DEF PoolInv
<1>2. conn' \in [Conn -> {"closed", "open", "stale"}] /\ conn'[k] = "closed" /\ \A j \in Conn : j # k => conn'[j] = conn[j]
  BY Zenon, <1>1 DEF PoolInv, PoolTypes
<1>3. \A d \in Caller : Holds(d)' => d # c /\ Holds(d) /\ call'[d] = call[d]
  BY Zenon DEF Holds
<1>4. \A d \in Caller : d # c /\ Holds(d) => Holds(d)' /\ call'[d] = call[d]
  BY Zenon DEF Holds
<1>5. \A d \in Caller : d # c /\ Holds(d) => call[d].conn \in Conn /\ call[d].conn # k
  BY Zenon, CallFields DEF PoolInv, OnePlace
<1>6. \A b \in Addr : \A i \in 1..Len(idle[b]) : idle[b][i] \in Conn /\ idle[b][i] # k
  BY DEF PoolInv, OnePlace, PoolTypes
<1> HIDE DEF k
<1>7. PoolTypes'
  BY Zenon, <1>2 DEF PoolInv, PoolTypes
<1>8. InUseOpen'
  <2>1. \A d \in Caller : Holds(d)' => conn'[call'[d].conn] # "closed"
    BY Zenon, <1>2, <1>3, <1>5 DEF PoolInv, InUseOpen
  <2> QED BY <1>2, <1>6, <2>1 DEF PoolInv, InUseOpen
<1>9. OnePlace'
  BY <1>3 DEF PoolInv, OnePlace
<1>10. SomePlace'
  <2>1. ASSUME NEW j \in Conn, conn'[j] # "closed"
        PROVE  \/ \E d \in Caller : Holds(d)' /\ call'[d].conn = j
               \/ \E b \in Addr : \E i \in 1..Len(idle[b]) : idle[b][i] = j
    <3>1. j # k /\ conn[j] # "closed"
      BY Zenon, <1>2, <2>1
    <3>2. CASE \E d \in Caller : Holds(d) /\ call[d].conn = j
      BY Zenon, <1>4, <3>1, <3>2 DEF k
    <3>3. CASE \E b \in Addr : \E i \in 1..Len(idle[b]) : idle[b][i] = j
      BY Zenon, <3>3
    <3> QED BY Zenon, <3>1, <3>2, <3>3 DEF PoolInv, SomePlace
  <2> QED BY Zenon, <2>1 DEF SomePlace
<1> QED BY Zenon, <1>7, <1>8, <1>9, <1>10 DEF PoolInv, EmptyWhenClosed

\* A broken connection keeps the invariant.
LEMMA BrokenKeeps ==
    ASSUME PoolInv, NEW c \in Caller, Broken(c)
    PROVE  PoolInv'
<1>1. /\ call[c].pc = "wait" /\ Holds(c) /\ call[c].addr \in Addr /\ call[c].attempt \in Nat
      /\ call[c].sound \in BOOLEAN
  BY Zenon, CallFields DEF PoolInv, Broken, Holds
<1>2. call' \in [Caller -> CallStates] /\ ~Holds(c)' /\ \A d \in Caller : d # c => call'[d] = call[d]
  <2>1. CASE call[c].attempt + 1 < CallAttempts
    <3> DEFINE n == call[c].attempt + 1
    <3>0. n \in Nat
      BY <1>1
    <3> DEFINE g == [pc |-> "get", addr |-> call[c].addr, attempt |-> n, sound |-> call[c].sound]
    <3> HIDE DEF n
    <3>1. g \in CallStates /\ g.pc = "get"
      BY Zenon, <1>1, <3>0, NextCall
    <3>2. call' = [call EXCEPT ![c] = g]
      BY Zenon, <2>1 DEF Broken, n
    <3> HIDE DEF g
    <3> QED BY Zenon, <3>1, <3>2 DEF PoolInv, PoolTypes, Holds
  <2>2. CASE ~(call[c].attempt + 1 < CallAttempts)
    <3>1. EndCall(c, "broken")
      BY Zenon, <2>2 DEF Broken
    <3> QED BY Zenon, <1>1, <3>1, Ending DEF PoolInv
  <2> QED BY Zenon, <2>1, <2>2
<1> QED BY Zenon, <1>1, <1>2, ClosingKeeps DEF Broken

\* So does giving up on an answer.
LEMMA GiveUpKeeps ==
    ASSUME PoolInv, NEW c \in Caller, GiveUp(c)
    PROVE  PoolInv'
<1>1. call[c].pc = "wait" /\ Holds(c)
  BY Zenon DEF GiveUp, Holds
<1>2. call' \in [Caller -> CallStates] /\ ~Holds(c)' /\ \A d \in Caller : d # c => call'[d] = call[d]
  BY Zenon, <1>1, Ending DEF GiveUp, PoolInv
<1> QED BY Zenon, <1>1, <1>2, ClosingKeeps DEF GiveUp

\* Put: the connection goes back on the free list of its address, or is closed.
LEMMA PutKeeps ==
    ASSUME PoolInv, NEW c \in Caller, Put(c)
    PROVE  PoolInv'
<1> DEFINE a == call[c].addr
           k == call[c].conn
<1>1. call[c].pc = "put" /\ Holds(c) /\ a \in Addr /\ k \in Conn
  BY Zenon, CallFields DEF PoolInv, Put, Holds
<1>2. call' \in [Caller -> CallStates] /\ ~Holds(c)' /\ \A d \in Caller : d # c => call'[d] = call[d]
  BY Zenon, <1>1, Ending DEF Put, PoolInv
<1>3. CASE closed \/ Len(idle[a]) >= maxIdle
  <2>1. conn' = [conn EXCEPT ![k] = "closed"] /\ UNCHANGED <<idle, closed, up>>
    BY Zenon, <1>3 DEF Put, put
  <2> QED BY Zenon, <1>1, <1>2, <2>1, ClosingKeeps
<1>4. CASE ~(closed \/ Len(idle[a]) >= maxIdle)
  <2>1. idle' = [idle EXCEPT ![a] = Append(@, k)] /\ UNCHANGED <<conn, closed, up>>
    BY Zenon, <1>4 DEF Put, put
  <2>2. idle[a] \in Seq(Conn) /\ Len(idle[a]) \in Nat /\ maxIdle \in Nat /\ Len(idle[a]) < maxIdle
    BY <1>1, <1>4, MaxIdleAssumption DEF PoolInv, PoolTypes
  <2> DEFINE last == Len(idle[a]) + 1
  <2>3. /\ idle' \in [Addr -> Seq(Conn)] /\ Len(idle'[a]) = last /\ idle'[a][last] = k
        /\ \A b \in Addr : b # a => idle'[b] = idle[b]
        /\ \A i \in 1..Len(idle[a]) : idle'[a][i] = idle[a][i]
    BY <1>1, <2>1, <2>2 DEF PoolInv, PoolTypes
  <2>4. \A b \in Addr : \A i \in 1..Len(idle'[b]) :
            \/ i \in 1..Len(idle[b]) /\ idle'[b][i] = idle[b][i]
            \/ b = a /\ i = last
    BY <2>2, <2>3
  <2>5. \A b \in Addr : \A i \in 1..Len(idle[b]) : i \in 1..Len(idle'[b]) /\ idle'[b][i] = idle[b][i]
    BY SMTT(30), <2>2, <2>3
  <2>6. last \in 1..Len(idle'[a]) /\ last <= maxIdle
    BY <2>2, <2>3
  <2>7. \A b \in Addr : \A i \in 1..Len(idle[b]) : idle[b][i] # k
    BY Zenon, <1>1 DEF PoolInv, OnePlace
  <2>8. \A d \in Caller : Holds(d)' => d # c /\ Holds(d) /\ call'[d] = call[d]
    BY Zenon, <1>2 DEF Holds
  <2>9. \A d \in Caller : d # c /\ Holds(d) => Holds(d)' /\ call'[d] = call[d]
    BY Zenon, <1>2 DEF Holds
  <2> HIDE DEF last, k
  <2>10. PoolTypes'
    <3>1. \A b \in Addr : Len(idle'[b]) <= maxIdle
      BY Zenon, <2>3, <2>6 DEF PoolInv, PoolTypes
    <3> QED BY Zenon, <1>2, <2>1, <2>3, <3>1 DEF PoolInv, PoolTypes
  <2>11. InUseOpen'
    <3>1. conn[k] # "closed"
      BY Zenon, <1>1 DEF PoolInv, InUseOpen, k
    <3>2. \A b \in Addr : \A i \in 1..Len(idle'[b]) : conn[idle'[b][i]] # "closed"
      BY <2>3, <2>4, <3>1 DEF PoolInv, InUseOpen
    <3> QED BY Zenon, <2>1, <2>8, <3>2 DEF PoolInv, InUseOpen
  <2>12. OnePlace'
    <3>1. \A d, e \in Caller : Holds(d)' /\ Holds(e)' /\ call'[d].conn = call'[e].conn => d = e
      BY Zenon, <2>8 DEF PoolInv, OnePlace
    <3>2. \A a1, b1 \in Addr : \A i \in 1..Len(idle'[a1]), j \in 1..Len(idle'[b1]) :
              idle'[a1][i] = idle'[b1][j] => a1 = b1 /\ i = j
      BY <2>3, <2>4, <2>7 DEF PoolInv, OnePlace
    <3>3. \A d \in Caller : Holds(d)' => call'[d].conn # k
      BY Zenon, <1>1, <2>8 DEF PoolInv, OnePlace, k
    <3>4. \A d \in Caller, b \in Addr : \A i \in 1..Len(idle'[b]) : Holds(d)' => call'[d].conn # idle'[b][i]
      BY <2>3, <2>4, <2>8, <3>3 DEF PoolInv, OnePlace
    <3> QED BY Zenon, <3>1, <3>2, <3>4 DEF OnePlace
  <2>13. SomePlace'
    <3>1. ASSUME NEW j \in Conn, conn[j] # "closed"
          PROVE  \/ \E d \in Caller : Holds(d)' /\ call'[d].conn = j
                 \/ \E b \in Addr : \E i \in 1..Len(idle'[b]) : idle'[b][i] = j
      <4>1. CASE j = k
        BY Zenon, <1>1, <2>3, <2>6, <4>1
      <4>2. CASE j # k /\ \E d \in Caller : Holds(d) /\ call[d].conn = j
        BY Zenon, <2>9, <4>2 DEF k
      <4>3. CASE \E b \in Addr : \E i \in 1..Len(idle[b]) : idle[b][i] = j
        BY Zenon, <2>5, <4>3
      <4> QED BY Zenon, <3>1, <4>1, <4>2, <4>3 DEF PoolInv, SomePlace
    <3> QED BY Zenon, <2>1, <3>1 DEF SomePlace
  <2>14. EmptyWhenClosed'
    BY Zenon, <1>4, <2>1 DEF EmptyWhenClosed
  <2> QED BY Zenon, <2>10, <2>11, <2>12, <2>13, <2>14 DEF PoolInv
<1> QED BY Zenon, <1>3, <1>4

\* Close: what is on a free list is closed, what a caller holds is left to it.
LEMMA CloseKeeps ==
    ASSUME PoolInv, Close
    PROVE  PoolInv'
<1>1. closed' = TRUE /\ idle' = [a \in Addr |-> <<>>] /\ UNCHANGED <<call, up>>
  BY Zenon DEF Close
<1>2. \A k \in Conn : conn'[k] = IF \E a \in Addr : \E i \in 1..Len(idle[a]) : idle[a][i] = k THEN "closed" ELSE conn[k]
  <2>1. \A a \in Addr, k \in Conn : k \in Listed(idle[a]) <=> \E i \in 1..Len(idle[a]) : idle[a][i] = k
    BY Zenon DEF Listed
  <2>2. conn' = [k \in Conn |-> IF \E a \in Addr : k \in Listed(idle[a]) THEN "closed" ELSE conn[k]]
    BY Zenon DEF Close
  <2> QED BY Zenon, <2>1, <2>2
<1>3. conn' \in [Conn -> {"closed", "open", "stale"}]
  BY Zenon DEF Close, PoolInv, PoolTypes
<1>4. \A d \in Caller : Holds(d)' <=> Holds(d)
  BY Zenon, <1>1 DEF Holds
<1>5. \A a \in Addr : idle'[a] = <<>> /\ Len(idle'[a]) = 0 /\ 1..Len(idle'[a]) = {}
  BY <1>1
<1>6. PoolTypes'
  <2>1. idle' \in [Addr -> Seq(Conn)]
    BY <1>1
  <2>2. \A a \in Addr : Len(idle'[a]) <= maxIdle
    BY <1>5, MaxIdleAssumption
  <2> QED BY Zenon, <1>1, <1>3, <2>1, <2>2 DEF PoolInv, PoolTypes
<1>7. InUseOpen'
  <2>1. ASSUME NEW d \in Caller, Holds(d)
        PROVE  conn'[call[d].conn] # "closed"
    <3>1. call[d].conn \in Conn
      BY Zenon, <2>1, CallFields DEF PoolInv
    <3>2. ~\E a \in Addr : \E i \in 1..Len(idle[a]) : idle[a][i] = call[d].conn
      BY Zenon, <2>1 DEF PoolInv, OnePlace
    <3> QED BY Zenon, <1>2, <2>1, <3>1, <3>2 DEF PoolInv, InUseOpen
  <2> QED BY Zenon, <1>1, <1>4, <1>5, <2>1 DEF InUseOpen
<1>8. OnePlace'
  BY Zenon, <1>1, <1>4, <1>5 DEF PoolInv, OnePlace
<1>9. SomePlace'
  BY Zenon, <1>1, <1>2, <1>4 DEF PoolInv, SomePlace
<1> QED BY Zenon, <1>5, <1>6, <1>7, <1>8, <1>9 DEF PoolInv, EmptyWhenClosed

\* Down: open connections turn stale, calls are marked; Up changes neither.
LEMMA VotersKeep ==
    ASSUME PoolInv, NEW a \in Addr, Down(a) \/ Up(a)
    PROVE  PoolInv'
<1>1. UNCHANGED <<idle, closed>> /\ up' \in [Addr -> BOOLEAN]
  BY Zenon DEF Down, Up, PoolInv, PoolTypes
<1>2. conn' \in [Conn -> {"closed", "open", "stale"}] /\ \A k \in Conn : conn'[k] = "closed" <=> conn[k] = "closed"
  <2> DEFINE stale(k) == conn[k] = "open" /\ a \in Peer(k)
  <2>1. CASE conn' = [k \in Conn |-> IF stale(k) THEN "stale" ELSE conn[k]]
    <3>1. \A k \in Conn : stale(k) => conn[k] = "open"
      BY Zenon
    <3> HIDE DEF stale
    <3> QED BY Zenon, <2>1, <3>1 DEF PoolInv, PoolTypes
  <2>2. CASE conn' = conn
    BY Zenon, <2>2 DEF PoolInv, PoolTypes
  <2> QED BY Zenon, <2>1, <2>2 DEF Down, Up
<1>3. call' \in [Caller -> CallStates] /\ \A d \in Caller : call'[d].pc = call[d].pc /\ (Holds(d) => call'[d].conn = call[d].conn)
  <2>1. \A d \in Caller : /\ call[d] \in CallStates
                          /\ call[d].pc \in {"get", "dial", "wait"} =>
                                /\ [call[d] EXCEPT !.sound = FALSE] \in CallStates
                                /\ [call[d] EXCEPT !.sound = FALSE].pc = call[d].pc
                                /\ Holds(d) => [call[d] EXCEPT !.sound = FALSE].conn = call[d].conn
    BY ZenonT(30) DEF PoolInv, PoolTypes, CallStates, Holds
  <2> QED BY Zenon, <2>1 DEF Down, Up, PoolInv, PoolTypes
<1>4. \A d \in Caller : Holds(d)' <=> Holds(d)
  BY Zenon, <1>3 DEF Holds
<1>5. PoolTypes'
  BY Zenon, <1>1, <1>2, <1>3 DEF PoolInv, PoolTypes
<1>6. InUseOpen'
  <2>1. \A d \in Caller : Holds(d) => call[d].conn \in Conn
    BY Zenon, CallFields DEF PoolInv
  <2>2. \A b \in Addr : \A i \in 1..Len(idle[b]) : idle[b][i] \in Conn
    BY DEF PoolInv, PoolTypes
  <2> QED BY Zenon, <1>1, <1>2, <1>3, <1>4, <2>1, <2>2 DEF PoolInv, InUseOpen
<1>7. OnePlace'
  BY <1>1, <1>3, <1>4 DEF PoolInv, OnePlace
<1>8. SomePlace'
  BY <1>1, <1>2, <1>3, <1>4 DEF PoolInv, SomePlace
<1> QED BY Zenon, <1>1, <1>5, <1>6, <1>7, <1>8 DEF PoolInv, EmptyWhenClosed

----------------------------------------------------------------------------
\* PoolInv holds at the start and every step of the pool keeps it.
LEMMA PoolInvHolds == PoolSpec => []PoolInv
<1>1. PoolInit => PoolInv
  <2> SUFFICES ASSUME PoolInit PROVE PoolInv
    BY Zenon
  <2>1. \A a \in Addr : idle[a] = <<>> /\ Len(idle[a]) = 0 /\ 1..Len(idle[a]) = {}
    BY DEF PoolInit
  <2>2. \A c \in Caller : call[c] = Idle /\ ~Holds(c)
    BY Zenon DEF PoolInit, Idle, Holds
  <2>3. PoolTypes
    <3>1. Idle \in CallStates
      BY Zenon DEF Idle, CallStates
    <3>2. idle \in [Addr -> Seq(Conn)]
      BY DEF PoolInit
    <3>3. \A a \in Addr : Len(idle[a]) <= maxIdle
      BY <2>1, MaxIdleAssumption
    <3> QED BY Zenon, <3>1, <3>2, <3>3 DEF PoolInit, PoolTypes
  <2>4. \A k \in Conn : conn[k] = "closed"
    BY Zenon DEF PoolInit
  <2> QED BY Zenon, <2>1, <2>2, <2>3, <2>4 DEF PoolInv, InUseOpen, OnePlace, SomePlace, EmptyWhenClosed
<1>2. PoolInv /\ [PoolNext]_poolVars => PoolInv'
  <2> SUFFICES ASSUME PoolInv, [PoolNext]_poolVars PROVE PoolInv'
    BY Zenon
  <2>1. CASE UNCHANGED poolVars
    BY <2>1 DEF poolVars, PoolInv, PoolTypes, InUseOpen, OnePlace, SomePlace, EmptyWhenClosed, Holds
  <2>2. ASSUME NEW c \in Caller, NEW a \in Addr, Begin(c, a) PROVE PoolInv'
    BY Zenon, <2>2, BeginKeeps
  <2>3. ASSUME NEW c \in Caller, Expired(c) \/ get(c) \/ dial(c) \/ Answer(c) \/ Put(c) PROVE PoolInv'
    BY Zenon, <2>3, ExpiredKeeps, GetKeeps, DialKeeps, AnswerKeeps, PutKeeps
  <2>4. ASSUME NEW c \in Caller, Broken(c) \/ GiveUp(c) \/ Return(c) PROVE PoolInv'
    BY Zenon, <2>4, BrokenKeeps, GiveUpKeeps, ReturnKeeps
  <2>5. CASE Close
    BY Zenon, <2>5, CloseKeeps
  <2>6. ASSUME NEW a \in Addr, Down(a) \/ Up(a) PROVE PoolInv'
    BY Zenon, <2>6, VotersKeep
  <2> QED BY Zenon, <2>1, <2>2, <2>3, <2>4, <2>5, <2>6 DEF PoolNext
<1> QED BY <1>1, <1>2, PTL DEF PoolSpec

\* Places counted: one for a connection that is not closed, none for a closed one.
LEMMA PlacesCounted ==
    ASSUME PoolInv, NEW k \in Conn
    PROVE  Cardinality(Held(k)) + Cardinality(Kept(k)) = (IF conn[k] = "closed" THEN 0 ELSE 1)
<1>1. \A c \in Caller : c \in Held(k) <=> Holds(c) /\ call[c].conn = k
  BY Zenon DEF Held, Holds
<1>2. \A p \in Addr \X (1..maxIdle + 1) : p \in Kept(k) <=> p[2] <= Len(idle[p[1]]) /\ idle[p[1]][p[2]] = k
  BY Zenon DEF Kept
<1>3. \A a \in Addr : idle[a] \in Seq(Conn) /\ Len(idle[a]) \in Nat /\ Len(idle[a]) <= maxIdle
  BY DEF PoolInv, PoolTypes
<1>4. \A a \in Addr : \A i \in 1..Len(idle[a]) : <<a, i>> \in Addr \X (1..maxIdle + 1)
  BY <1>3, MaxIdleAssumption
<1>5. \A p \in Kept(k) : p[1] \in Addr /\ p[2] \in 1..Len(idle[p[1]]) /\ idle[p[1]][p[2]] = k /\ p = <<p[1], p[2]>>
  BY <1>3, MaxIdleAssumption DEF Kept
<1>6. \A a \in Addr : \A i \in 1..Len(idle[a]) : idle[a][i] = k => <<a, i>> \in Kept(k)
  <2> SUFFICES ASSUME NEW a \in Addr, NEW i \in 1..Len(idle[a]), idle[a][i] = k
               PROVE  <<a, i>> \in Kept(k)
    BY Zenon
  <2>1. <<a, i>> \in Addr \X (1..maxIdle + 1)
    BY Zenon, <1>4
  <2>2. <<a, i>>[1] = a /\ <<a, i>>[2] = i /\ i <= Len(idle[a])
    BY <1>3
  <2> QED BY Zenon, <1>2, <2>1, <2>2
<1>7. Held(k) \subseteq Caller
  BY Zenon DEF Held
<1> HIDE DEF Held, Kept
<1>8. CASE conn[k] = "closed"
  <2>1. Held(k) = {}
    BY Zenon, <1>1, <1>7, <1>8 DEF PoolInv, InUseOpen
  <2>2. Kept(k) = {}
    BY Zenon, <1>5, <1>8 DEF PoolInv, InUseOpen
  <2> QED BY <1>8, <2>1, <2>2, FS_EmptySet
<1>9. CASE conn[k] # "closed" /\ \E c \in Caller : Holds(c) /\ call[c].conn = k
  <2>1. PICK c \in Caller : Holds(c) /\ call[c].conn = k
    BY Zenon, <1>9
  <2>2. Held(k) = {c}
    BY Zenon, <1>1, <1>7, <2>1 DEF PoolInv, OnePlace
  <2>3. Kept(k) = {}
    BY <1>5, <2>1 DEF PoolInv, OnePlace
  <2> QED BY <1>9, <2>2, <2>3, FS_EmptySet, FS_Singleton
<1>10. CASE conn[k] # "closed" /\ \E a \in Addr : \E i \in 1..Len(idle[a]) : idle[a][i] = k
  <2>1. PICK a \in Addr : \E i \in 1..Len(idle[a]) : idle[a][i] = k
    BY Zenon, <1>10
  <2>2. PICK i \in 1..Len(idle[a]) : idle[a][i] = k
    BY Zenon, <2>1
  <2>3. Held(k) = {}
    BY <1>1, <1>7, <2>2 DEF PoolInv, OnePlace
  <2>4. \A p \in Kept(k) : p[1] = a /\ p[2] = i
    BY <1>5, <2>2 DEF PoolInv, OnePlace
  <2>5. Kept(k) = {<<a, i>>}
    BY Zenon, <1>5, <1>6, <2>2, <2>4
  <2>6. Cardinality(Held(k)) = 0 /\ Cardinality(Kept(k)) = 1
    BY Zenon, <2>3, <2>5, FS_EmptySet, FS_Singleton
  <2> QED BY <1>10, <2>6
<1> QED BY Zenon, <1>8, <1>9, <1>10 DEF PoolInv, SomePlace

\* For any number of callers, voters and idle connections, and whatever breaks or
\* is closed meanwhile: connPool neither leaks nor shares a connection, keeps at
\* most maxIdle per voter, and leaves none open behind Close.
THEOREM ConnectionsOwned == PoolSpec => []ConnectionsAccounted
<1>1. PoolInv => ConnectionsAccounted
  <2> SUFFICES ASSUME PoolInv PROVE ConnectionsAccounted
    BY Zenon
  <2>1. PoolTypeOK
    BY Zenon, CallFields DEF PoolInv, PoolTypes, PoolTypeOK
  <2>2. OneOwner
    BY Zenon, PlacesCounted DEF OneOwner
  <2>3. NothingAfterClose
    <3> SUFFICES ASSUME closed, \A c \in Caller : call[c].pc \in {"idle", "done"}, NEW k \in Conn
                 PROVE  conn[k] = "closed"
      BY Zenon DEF NothingAfterClose
    <3>1. \A c \in Caller : ~Holds(c)
      BY Zenon DEF Holds
    <3>2. \A a \in Addr : 1..Len(idle[a]) = {}
      BY DEF PoolInv, EmptyWhenClosed
    <3> QED BY Zenon, <3>1, <3>2 DEF PoolInv, SomePlace
  <2> QED BY Zenon, <2>1, <2>2, <2>3 DEF ConnectionsAccounted
<1> QED BY <1>1, PoolInvHolds, PTL

----------------------------------------------------------------------------
(* Forwarding.                                                             *)

Frames ==
    [at : Voter, parent : Nat, pc : {"start", "send", "wait", "exec", "done"}, attempt : 0..(Attempts - 1),
     to : Voter \cup {None}, child : Nat, reply : Reply]
Origins ==
    [pc : {"next", "send", "wait", "done"}, i : Nat, start : Voter, attempt : 0..(Attempts - 1),
     to : Voter \cup {None}, child : Nat, last : {"uncoded"}, result : Reply \cup {"pending"}]

ForwardTypes ==
    /\ term \in [Voter -> 1..MaxTerm] /\ leads \in [Voter -> BOOLEAN] /\ knows \in [Voter -> Voter \cup {None}]
    /\ frame \in Seq(Frames) /\ origin \in Origins
    /\ applied \in Nat /\ faults \in Nat /\ hops \subseteq Frame \X (1..MaxTerm)

\* Requests form trees: a frame was made by an earlier one, which waits for the
\* last one it made.
Tree ==
    /\ \A f \in Frame : /\ frame[f].parent \in 0..(f - 1)
                        /\ frame[f].pc \in {"send", "wait"} => frame[f].to \in Voter
                        /\ frame[f].pc = "wait" => /\ frame[f].child \in Frame
                                                   /\ frame[frame[f].child].parent = f
    /\ origin.pc \in {"send", "wait"} => origin.to \in Voter
    /\ origin.pc = "wait" => origin.child \in Frame /\ frame[origin.child].parent = 0

\* A reply of success, anywhere on its way, is that of an application.
Successes ==
    /\ \A f \in Frame : frame[f].reply = "ok" => applied > 0
    /\ origin.result = "ok" => applied > 0

----------------------------------------------------------------------------
(* Chances to apply the statement: handlers that have not been given up and *)
(* callers that may still ask, each counted where the request is.           *)

Awaited(f) ==
    IF frame[f].parent = 0 THEN origin.pc = "wait" /\ origin.child = f
    ELSE frame[frame[f].parent].pc = "wait" /\ frame[frame[f].parent].child = f
Live(f) ==
    \/ frame[f].pc \in {"start", "send", "exec"}
    \/ frame[f].pc = "done" /\ frame[f].reply # "ok" /\ Awaited(f)
Chances == {f \in Frame : Live(f)} \cup {f \in {0} : origin.pc \in {"next", "send"}}

Counted == applied + Cardinality(Chances) <= 1 + faults

----------------------------------------------------------------------------
(* Leaderships.                                                            *)

\* w won term t: it is past the term, leads in it, or led and knows no leader.
Won(w, t) ==
    /\ t <= term[w]
    /\ term[w] = t => leads[w] \/ knows[w] = None
    /\ \A v \in Voter : leads[v] /\ term[v] = t => v = w

Leaders ==
    /\ \A v \in Voter : leads[v] => knows[v] = v
    /\ \A v \in Voter : knows[v] # None => Won(knows[v], term[v])

\* A request that was passed on in term t goes to the voter that won t.
Passed ==
    /\ \A h \in hops : /\ frame[h[1]].pc # "start"
                       /\ frame[h[1]].to \in Voter
                       /\ Won(frame[h[1]].to, h[2])
    /\ \A f \in Frame : frame[f].parent # 0 => /\ frame[frame[f].parent].pc # "start"
                                               /\ frame[f].at = frame[frame[f].parent].to
    /\ HopsFollowElections

ForwardInv == ForwardTypes /\ Tree /\ Successes /\ Counted /\ Leaders /\ Passed

----------------------------------------------------------------------------
(* What a step does to the frames: one is changed in place, or one is added. *)

Changed(f, pc, to, reply) ==
    /\ frame' \in Seq(Frames) /\ Len(frame') = Len(frame)
    /\ \A g \in Frame : g # f => frame'[g] = frame[g]
    /\ frame'[f].at = frame[f].at /\ frame'[f].parent = frame[f].parent /\ frame'[f].child = frame[f].child
    /\ frame'[f].pc = pc /\ frame'[f].to = to /\ frame'[f].reply = reply

Added(p, v) ==
    /\ frame' \in Seq(Frames) /\ Len(frame') = Len(frame) + 1
    /\ \A g \in Frame : g # p => frame'[g] = frame[g]
    /\ p # 0 => /\ frame'[p].at = frame[p].at /\ frame'[p].parent = frame[p].parent
                /\ frame'[p].to = frame[p].to /\ frame'[p].reply = frame[p].reply
                /\ frame'[p].pc = "wait" /\ frame'[p].child = Len(frame) + 1
    /\ frame'[Len(frame) + 1].at = v /\ frame'[Len(frame) + 1].parent = p
    /\ frame'[Len(frame) + 1].pc = "start" /\ frame'[Len(frame) + 1].reply = "uncoded"

\* A frame and its fields.
LEMMA FrameFields ==
    ASSUME ForwardTypes, NEW f \in Frame
    PROVE  /\ Len(frame) \in Nat /\ f \in 1..Len(frame) /\ f # 0 /\ frame[f] \in Frames
           /\ frame[f].at \in Voter /\ frame[f].parent \in Nat /\ frame[f].child \in Nat
           /\ frame[f].pc \in {"start", "send", "wait", "exec", "done"}
           /\ frame[f].to \in Voter \cup {None} /\ frame[f].reply \in Reply /\ frame[f].attempt \in 0..(Attempts - 1)
<1>1. frame[f] \in Frames /\ Len(frame) \in Nat /\ f \in 1..Len(frame) /\ f # 0
  BY DEF ForwardTypes, Frame
<1> QED BY Zenon, <1>1 DEF Frames

\* Replacing the record of one frame.
LEMMA Replacing ==
    ASSUME ForwardTypes, NEW f \in Frame, NEW r \in Frames, frame' = [frame EXCEPT ![f] = r],
           r.at = frame[f].at, r.parent = frame[f].parent, r.child = frame[f].child
    PROVE  Changed(f, r.pc, r.to, r.reply)
<1>1. frame \in Seq(Frames) /\ f \in 1..Len(frame)
  BY Zenon DEF ForwardTypes, Frame
<1>2. frame' \in Seq(Frames) /\ Len(frame') = Len(frame) /\ frame'[f] = r
      /\ \A g \in 1..Len(frame) : g # f => frame'[g] = frame[g]
  BY <1>1
<1> QED BY Zenon, <1>2 DEF Changed, Frame

\* EndFrame: the handler returns with a reply.
LEMMA EndFrameChanges ==
    ASSUME ForwardTypes, NEW f \in Frame, NEW r \in Reply, EndFrame(f, r)
    PROVE  Changed(f, "done", frame[f].to, r)
<1> DEFINE n == [frame[f] EXCEPT !.pc = "done", !.reply = r]
<1>1. frame[f] \in Frames
  BY Zenon, FrameFields
<1>2. n \in Frames /\ n.at = frame[f].at /\ n.parent = frame[f].parent /\ n.child = frame[f].child
      /\ n.to = frame[f].to /\ n.pc = "done" /\ n.reply = r
  BY Zenon, <1>1 DEF Frames
<1>3. frame' = [frame EXCEPT ![f] = n]
  BY Zenon DEF EndFrame
<1> HIDE DEF n
<1> QED BY Zenon, <1>2, <1>3, Replacing

\* The handler goes on in place: to call the leader, to execute, or to try again.
LEMMA MoveChanges ==
    ASSUME ForwardTypes, NEW f \in Frame, NEW pc \in {"send", "exec"}, NEW to \in Voter \cup {None},
           NEW a \in 0..(Attempts - 1),
           frame' = [frame EXCEPT ![f] = [frame[f] EXCEPT !.pc = pc, !.to = to, !.attempt = a]]
    PROVE  Changed(f, pc, to, frame[f].reply)
<1> DEFINE n == [frame[f] EXCEPT !.pc = pc, !.to = to, !.attempt = a]
<1>1. frame[f] \in Frames
  BY Zenon, FrameFields
<1>2. n \in Frames /\ n.at = frame[f].at /\ n.parent = frame[f].parent /\ n.child = frame[f].child
      /\ n.to = to /\ n.pc = pc /\ n.reply = frame[f].reply
  BY Zenon, <1>1 DEF Frames
<1>3. frame' = [frame EXCEPT ![f] = n]
  BY Zenon
<1> HIDE DEF n
<1> QED BY Zenon, <1>2, <1>3, Replacing

\* Send: a new frame at voter v for the caller p.
LEMMA SendAdds ==
    ASSUME ForwardTypes, NEW p \in Frame \cup {0}, NEW v \in Voter, Send(p, v)
    PROVE  Added(p, v)
<1> DEFINE n == [at |-> v, parent |-> p, pc |-> "start", attempt |-> 0, to |-> None, child |-> None, reply |-> "uncoded"]
           q == [frame[p] EXCEPT !.pc = "wait", !.child = Len(frame) + 1]
           old == IF p = 0 THEN frame ELSE [frame EXCEPT ![p] = q]
<1>1. frame \in Seq(Frames) /\ Len(frame) \in Nat /\ p \in Nat
  BY FrameFields DEF ForwardTypes, Frame
<1>2. n \in Frames /\ n.at = v /\ n.parent = p /\ n.pc = "start" /\ n.reply = "uncoded"
  <2>1. 0 \in 0..(Attempts - 1) /\ None \in Nat
    BY DEF Attempts, None
  <2> QED BY Zenon, <1>1, <2>1 DEF Frames, Reply
<1>3. ASSUME p # 0
      PROVE  /\ q \in Frames /\ q.at = frame[p].at /\ q.parent = frame[p].parent /\ q.to = frame[p].to
             /\ q.reply = frame[p].reply /\ q.pc = "wait" /\ q.child = Len(frame) + 1
  <2>1. p \in Frame /\ frame[p] \in Frames /\ Len(frame) + 1 \in Nat
    BY <1>1, <1>3, FrameFields
  <2> QED BY Zenon, <2>1 DEF Frames
<1>4. frame' = Append(old, n)
  BY Zenon DEF Send
<1> HIDE DEF n, q
<1>5. old \in Seq(Frames) /\ Len(old) = Len(frame) /\ (\A g \in 1..Len(frame) : g # p => old[g] = frame[g])
      /\ (p # 0 => old[p] = q)
  BY <1>1, <1>3 DEF Frame
<1> HIDE DEF old
<1>6. /\ frame' \in Seq(Frames) /\ Len(frame') = Len(frame) + 1 /\ frame'[Len(frame) + 1] = n
      /\ \A g \in 1..Len(frame) : frame'[g] = old[g]
  BY <1>1, <1>2, <1>4, <1>5
<1>7. p # 0 => frame'[p] = q
  BY Zenon, <1>5, <1>6 DEF Frame
<1> QED BY Zenon, <1>2, <1>3, <1>5, <1>6, <1>7 DEF Added, Frame

----------------------------------------------------------------------------
(* Requests form trees, and success means applied.                         *)

\* Changing one request keeps the tree.
LEMMA TreeChanged ==
    ASSUME ForwardTypes, Tree, NEW f \in Frame, NEW pc, NEW to, NEW reply, Changed(f, pc, to, reply),
           pc # "wait", pc = "send" => to \in Voter, UNCHANGED origin
    PROVE  Tree'
<1>1. Frame' = Frame
  BY Zenon DEF Changed, Frame
<1>2. \A g \in Frame : frame'[g].parent = frame[g].parent /\ frame'[g].child = frame[g].child
  BY Zenon DEF Changed
<1>3. ASSUME NEW g \in Frame
      PROVE  /\ frame'[g].parent \in 0..(g - 1)
             /\ frame'[g].pc \in {"send", "wait"} => frame'[g].to \in Voter
             /\ frame'[g].pc = "wait" => /\ frame'[g].child \in Frame
                                         /\ frame'[frame'[g].child].parent = g
  BY SMTT(30), <1>2 DEF Changed, Tree
<1> QED BY Zenon, <1>1, <1>2, <1>3 DEF Tree

\* Adding one keeps it.
LEMMA TreeAdded ==
    ASSUME ForwardTypes, Tree, NEW p \in Frame \cup {0}, NEW v \in Voter, Added(p, v),
           p = 0 => origin'.pc = "wait" /\ origin'.child = Len(frame) + 1 /\ origin'.to \in Voter,
           p # 0 => frame[p].pc = "send" /\ UNCHANGED origin
    PROVE  Tree'
<1> DEFINE n == Len(frame) + 1
<1>1. Len(frame) \in Nat /\ n \in Nat /\ p \in 0..Len(frame)
  BY DEF ForwardTypes, Frame
<1>2. \A g : g \in Frame' <=> g \in Frame \/ g = n
  BY <1>1 DEF Added, Frame
<1>3. n \notin Frame /\ \A g \in Frame : g \in Nat /\ g <= Len(frame)
  BY <1>1 DEF Frame
<1>4. \A g \in Frame : frame'[g].parent = frame[g].parent
  BY Zenon, <1>3, FrameFields DEF Added
<1> HIDE DEF n
<1>5. ASSUME NEW g \in Frame
      PROVE  /\ frame'[g].parent \in 0..(g - 1)
             /\ frame'[g].pc \in {"send", "wait"} => frame'[g].to \in Voter
             /\ frame'[g].pc = "wait" => /\ frame'[g].child \in Frame'
                                         /\ frame'[frame'[g].child].parent = g
  <2>1. frame'[g].parent \in 0..(g - 1)
    BY Zenon, <1>4 DEF Tree
  <2>2. CASE g # p
    BY <1>2, <1>4, <2>1, <2>2 DEF Added, Tree
  <2>3. CASE g = p
    <3>1. p # 0 /\ frame'[g].pc = "wait" /\ frame'[g].child = n
      BY Zenon, <1>3, <2>3, FrameFields DEF Added, n
    <3>2. frame'[n].parent = g
      BY Zenon, <2>3 DEF Added, n
    <3>3. frame'[g].to \in Voter
      BY Zenon, <2>3, <3>1 DEF Added, Tree
    <3> QED BY Zenon, <1>2, <2>1, <3>1, <3>2, <3>3
  <2> QED BY Zenon, <2>2, <2>3
<1>6. frame'[n].parent \in 0..(n - 1) /\ frame'[n].pc = "start"
  BY <1>1 DEF Added, n
<1>7. origin'.pc \in {"send", "wait"} => origin'.to \in Voter
  BY Zenon DEF Tree
<1>8. origin'.pc = "wait" => origin'.child \in Frame' /\ frame'[origin'.child].parent = 0
  <2>1. CASE p = 0
    BY Zenon, <1>2, <2>1 DEF Added, n
  <2>2. CASE p # 0
    BY Zenon, <1>2, <1>4, <2>2 DEF Tree
  <2> QED BY Zenon, <2>1, <2>2
<1> QED BY Zenon, <1>2, <1>5, <1>6, <1>7, <1>8 DEF Tree

\* So does a step of the caller.
LEMMA TreeOrigin ==
    ASSUME Tree, UNCHANGED frame, origin'.pc # "wait", origin'.pc = "send" => origin'.to \in Voter
    PROVE  Tree'
BY Zenon DEF Tree, Frame

\* A request that gets its reply keeps successes applied.
LEMMA SuccessChanged ==
    ASSUME Successes, NEW f \in Frame, NEW pc, NEW to, NEW reply, Changed(f, pc, to, reply),
           reply = "ok" => applied' > 0, applied > 0 => applied' > 0, UNCHANGED origin
    PROVE  Successes'
<1>1. Frame' = Frame
  BY Zenon DEF Changed, Frame
<1> QED BY Zenon, <1>1 DEF Successes, Changed

\* So does a new request.
LEMMA SuccessAdded ==
    ASSUME ForwardTypes, Successes, NEW p \in Frame \cup {0}, NEW v, Added(p, v),
           UNCHANGED applied, origin'.result = origin.result
    PROVE  Successes'
<1>1. \A g \in Frame' : g \in Frame \/ g = Len(frame) + 1
  BY DEF Added, Frame, ForwardTypes
<1>2. \A g \in Frame : frame'[g].reply = frame[g].reply
  BY Zenon, FrameFields DEF Added
<1> QED BY Zenon, <1>1, <1>2 DEF Successes, Added

----------------------------------------------------------------------------
(* Leaderships.                                                            *)

\* Every non-empty set of terms has a greatest one (newest).
LEMMA LeastNatural ==
    ASSUME NEW S, S \subseteq Nat, S # {}
    PROVE  \E least \in S : \A other \in S : least <= other
<1> DEFINE R == {ss \in Nat \X Nat : ss[1] < ss[2]}
<1>1. IsWellFoundedOn(R, Nat)
  BY Zenon, NatLessThanWellFounded DEF OpToRel
<1> HIDE DEF R
<1>2. PICK least \in S : \A other \in S : ~(<<other, least>> \in R)
  BY Zenon, <1>1, WFMin
<1>3. ASSUME NEW other \in S
      PROVE  least <= other
  <2>1. least \in Nat /\ other \in Nat
    BY Zenon
  <2>2. ~(other < least)
    BY Zenon, <1>2, <2>1 DEF R
  <2> QED BY <2>1, <2>2
<1> QED BY Zenon, <1>3

\* There is a newest term, and no voter is beyond it.
LEMMA NewestTerm ==
    ASSUME ForwardTypes
    PROVE  newest \in 1..MaxTerm /\ \A v \in Voter : term[v] \in 1..MaxTerm /\ term[v] <= newest
<1> DEFINE Gaps == {MaxTerm - term[v] : v \in Voter}
<1>1. \A v \in Voter : term[v] \in 1..MaxTerm /\ MaxTerm - term[v] \in Nat
  BY ForwardAssumption DEF ForwardTypes
<1>2. Voter # {}
  BY ForwardAssumption
<1>3. Gaps \subseteq Nat /\ Gaps # {}
  BY Zenon, <1>1, <1>2
<1>4. PICK gap \in Gaps : \A other \in Gaps : gap <= other
  <2> HIDE DEF Gaps
  <2> QED BY Zenon, <1>3, LeastNatural
<1>5. PICK w \in Voter : gap = MaxTerm - term[w]
  BY Zenon
<1>6. ASSUME NEW v \in Voter
      PROVE  term[v] <= term[w]
  <2>1. MaxTerm - term[w] <= MaxTerm - term[v]
    BY Zenon, <1>4, <1>5
  <2>2. MaxTerm \in Nat
    BY Zenon, ForwardAssumption
  <2> QED BY <1>1, <2>1, <2>2
<1>7. \E t \in 1..MaxTerm : (\E v \in Voter : term[v] = t) /\ \A v \in Voter : term[v] <= t
  BY Zenon, <1>1, <1>6
<1>8. newest \in 1..MaxTerm /\ \A v \in Voter : term[v] <= newest
  BY Zenon, <1>7 DEF newest
<1> QED BY Zenon, <1>1, <1>8

\* Leaders', from its instances.
LEMMA WinnersKnown ==
    ASSUME ForwardTypes', \A x \in Voter : leads'[x] => knows'[x] = x,
           \A x \in Voter, w \in Voter, t \in Nat : knows'[x] = w /\ term'[x] = t => Won(w, t)'
    PROVE  Leaders'
<1>1. \A x \in Voter : term'[x] \in Nat /\ (knows'[x] # None => knows'[x] \in Voter)
  BY ForwardAssumption DEF ForwardTypes
<1> QED BY Zenon, <1>1 DEF Leaders, Won

\* Who won a term stays its winner.
LEMMA ElectKeeps ==
    ASSUME ForwardTypes, Leaders, NEW v \in Voter, Elect(v)
    PROVE  /\ ForwardTypes' /\ Leaders'
           /\ \A w \in Voter, t \in Nat : Won(w, t) => Won(w, t)'
<1> DEFINE nt == newest + 1
<1>1. newest \in 1..MaxTerm /\ MaxTerm \in Nat /\ newest < MaxTerm /\ \A x \in Voter : term[x] \in 1..MaxTerm /\ term[x] <= newest
  BY Zenon, NewestTerm, ForwardAssumption DEF Elect
<1>2. PICK voters \in SUBSET Voter :
           /\ v \in voters
           /\ term' = [w \in Voter |-> IF w \in voters THEN nt ELSE term[w]]
           /\ leads' = [w \in Voter |-> IF w \in voters THEN w = v ELSE leads[w]]
           /\ knows' = [w \in Voter |-> IF w \in voters THEN (IF w = v THEN v ELSE None) ELSE knows[w]]
  BY Zenon DEF Elect
<1>3. nt \in 1..MaxTerm /\ nt > newest
  BY <1>1
<1> HIDE DEF nt
<1>4. ForwardTypes'
  <2>1. term' \in [Voter -> 1..MaxTerm]
    BY Zenon, <1>1, <1>2, <1>3
  <2>2. leads' \in [Voter -> BOOLEAN] /\ knows' \in [Voter -> Voter \cup {None}]
    BY Zenon, <1>2 DEF ForwardTypes
  <2> QED BY Zenon, <2>1, <2>2 DEF ForwardTypes, Elect, Frame
<1>5. \A x \in Voter : /\ x \in voters => term'[x] = nt /\ (leads'[x] <=> x = v) /\ (x # v => knows'[x] = None)
                       /\ x \notin voters => term'[x] = term[x] /\ leads'[x] = leads[x] /\ knows'[x] = knows[x]
  BY Zenon, <1>2
<1>6. leads'[v] /\ knows'[v] = v /\ term'[v] = nt
  BY Zenon, <1>2
<1>7. ASSUME NEW w \in Voter, NEW t \in Nat, Won(w, t)
      PROVE  Won(w, t)'
  <2>1. t <= term[w] /\ t <= newest
    BY <1>1, <1>7 DEF Won
  <2>2. t <= term'[w] /\ (term'[w] = t => leads'[w] \/ knows'[w] = None)
    <3>1. CASE w \in voters
      BY <1>1, <1>3, <1>5, <2>1, <3>1
    <3>2. CASE w \notin voters
      BY Zenon, <1>5, <1>7, <3>2 DEF Won
    <3> QED BY Zenon, <3>1, <3>2
  <2>3. ASSUME NEW x \in Voter, leads'[x], term'[x] = t
        PROVE  x = w
    <3>1. x \notin voters
      BY <1>1, <1>3, <1>5, <2>1, <2>3
    <3> QED BY Zenon, <1>5, <1>7, <2>3, <3>1 DEF Won
  <2> QED BY Zenon, <2>2, <2>3 DEF Won
<1>8. ASSUME NEW t \in Nat, t = nt
      PROVE  Won(v, t)'
  <2>1. ASSUME NEW x \in Voter, leads'[x], term'[x] = t
        PROVE  x = v
    BY <1>1, <1>3, <1>5, <1>8, <2>1
  <2> QED BY <1>3, <1>6, <1>8, <2>1 DEF Won
<1>9. Leaders'
  <2>1. \A x \in Voter : leads'[x] => knows'[x] = x
    BY Zenon, <1>5, <1>6 DEF Leaders
  <2>2. ASSUME NEW x \in Voter, NEW w \in Voter, NEW t \in Nat, knows'[x] = w, term'[x] = t
        PROVE  Won(w, t)'
    <3>1. CASE x = v
      BY Zenon, <1>6, <1>8, <2>2, <3>1
    <3>2. CASE x # v
      <4>1. w # None
        BY ForwardAssumption DEF None
      <4>2. x \notin voters /\ knows[x] = w /\ term[x] = t
        BY Zenon, <1>5, <2>2, <3>2, <4>1
      <4>3. Won(w, t)
        BY Zenon, <4>1, <4>2 DEF Leaders
      <4> QED BY Zenon, <1>7, <4>3
    <3> QED BY Zenon, <3>1, <3>2
  <2> QED BY Zenon, <1>4, <2>1, <2>2, WinnersKnown
<1> QED BY Zenon, <1>4, <1>7, <1>9

\* A voter that hears of a leader keeps what is said of leaders.
LEMMA HearKeeps ==
    ASSUME ForwardTypes, Leaders, NEW v \in Voter, NEW y \in Voter, Hear(v, y)
    PROVE  /\ ForwardTypes' /\ Leaders'
           /\ \A w \in Voter, t \in Nat : Won(w, t) => Won(w, t)'
<1>1. leads[y] /\ v # y /\ term[y] >= term[v] /\ y # None
  BY ForwardAssumption DEF Hear, None
<1>2. \A x \in Voter : term[x] \in 1..MaxTerm /\ term[x] \in Nat
  BY ForwardAssumption DEF ForwardTypes
<1>3. /\ term'[v] = term[y] /\ ~leads'[v] /\ knows'[v] = y
      /\ \A x \in Voter : x # v => term'[x] = term[x] /\ leads'[x] = leads[x] /\ knows'[x] = knows[x]
  BY Zenon DEF Hear, ForwardTypes
<1>4. ForwardTypes'
  BY Zenon, <1>2 DEF ForwardTypes, Hear, Frame
<1>5. ASSUME NEW w \in Voter, NEW t \in Nat, Won(w, t)
      PROVE  Won(w, t)'
  <2>1. t <= term'[w] /\ (term'[w] = t => leads'[w] \/ knows'[w] = None)
    <3>1. CASE w = v
      <4>1. t <= term[v] /\ term[v] <= term[y]
        BY Zenon, <1>1, <1>2, <1>5, <3>1 DEF Won
      <4>2. term[y] # t
        BY Zenon, <1>1, <1>5, <3>1 DEF Won
      <4> QED BY <1>2, <1>3, <3>1, <4>1, <4>2
    <3>2. CASE w # v
      BY Zenon, <1>3, <1>5, <3>2 DEF Won
    <3> QED BY Zenon, <3>1, <3>2
  <2> QED BY Zenon, <1>3, <1>5, <2>1 DEF Won
<1>6. \A x \in Voter : leads'[x] => knows'[x] = x
  BY Zenon, <1>3 DEF Leaders
<1>7. ASSUME NEW x \in Voter, NEW w \in Voter, NEW t \in Nat, knows'[x] = w, term'[x] = t
      PROVE  Won(w, t)'
  <2>1. CASE x = v
    <3>1. knows[y] = y /\ w = y /\ t = term[y]
      BY Zenon, <1>1, <1>3, <1>7, <2>1 DEF Leaders
    <3>2. Won(y, t)
      BY Zenon, <1>1, <3>1 DEF Leaders
    <3> QED BY Zenon, <1>5, <3>1, <3>2
  <2>2. CASE x # v
    <3>1. w # None
      BY ForwardAssumption DEF None
    <3>2. Won(w, t)
      BY Zenon, <1>3, <1>7, <2>2, <3>1 DEF Leaders
    <3> QED BY Zenon, <1>5, <3>2
  <2> QED BY Zenon, <2>1, <2>2
<1> QED BY Zenon, <1>4, <1>5, <1>6, <1>7, WinnersKnown

\* So does one that loses its leader.
LEMMA ForgetKeeps ==
    ASSUME ForwardTypes, Leaders, NEW v \in Voter, Forget(v)
    PROVE  /\ ForwardTypes' /\ Leaders'
           /\ \A w \in Voter, t \in Nat : Won(w, t) => Won(w, t)'
<1>1. /\ ~leads'[v] /\ knows'[v] = None /\ term' = term
      /\ \A x \in Voter : x # v => leads'[x] = leads[x] /\ knows'[x] = knows[x]
  BY Zenon DEF Forget, ForwardTypes
<1>2. ForwardTypes'
  BY Zenon DEF ForwardTypes, Forget, Frame
<1>3. ASSUME NEW w \in Voter, NEW t \in Nat, Won(w, t)
      PROVE  Won(w, t)'
  BY Zenon, <1>1, <1>3 DEF Won
<1>4. \A x \in Voter : leads'[x] => knows'[x] = x
  BY Zenon, <1>1 DEF Leaders
<1>5. ASSUME NEW x \in Voter, NEW w \in Voter, NEW t \in Nat, knows'[x] = w, term'[x] = t
      PROVE  Won(w, t)'
  <2>1. w # None
    BY ForwardAssumption DEF None
  <2>2. Won(w, t)
    BY Zenon, <1>1, <1>5, <2>1 DEF Leaders
  <2> QED BY Zenon, <1>3, <2>2
<1> QED BY Zenon, <1>2, <1>3, <1>4, <1>5, WinnersKnown

\* Steps of Raft leave the requests alone.
LEMMA RaftKeeps ==
    ASSUME ForwardInv, NEW v \in Voter, Elect(v) \/ Forget(v) \/ \E y \in Voter : Hear(v, y)
    PROVE  ForwardInv'
<1>1. /\ ForwardTypes' /\ Leaders'
      /\ \A w \in Voter, t \in Nat : Won(w, t) => Won(w, t)'
  BY Zenon, ElectKeeps, HearKeeps, ForgetKeeps DEF ForwardInv
<1>2. UNCHANGED <<frame, origin, applied, faults, hops>>
  BY Zenon DEF Elect, Forget, Hear
<1>3. Tree' /\ Successes'
  BY Zenon, <1>2 DEF ForwardInv, Tree, Successes, Frame
<1>4. Counted'
  BY Zenon, <1>2 DEF ForwardInv, Counted, Chances, Live, Awaited, Frame
<1>5. Passed'
  <2>1. ASSUME NEW h \in hops, NEW w \in Voter, NEW t \in Nat, w = frame[h[1]].to, t = h[2]
        PROVE  Won(w, t)'
    BY Zenon, <1>1, <2>1 DEF ForwardInv, Passed
  <2>2. \A h \in hops : h[2] \in Nat
    BY ForwardAssumption DEF ForwardInv, ForwardTypes
  <2>3. \A h \in hops : /\ frame'[h[1]].pc # "start"
                        /\ frame'[h[1]].to \in Voter
                        /\ Won(frame[h[1]].to, h[2])'
    <3> SUFFICES ASSUME NEW h \in hops
                 PROVE  /\ frame'[h[1]].pc # "start"
                        /\ frame'[h[1]].to \in Voter
                        /\ Won(frame[h[1]].to, h[2])'
      BY Zenon
    <3>1. frame[h[1]].pc # "start" /\ frame[h[1]].to \in Voter
      BY Zenon DEF ForwardInv, Passed
    <3> QED BY Zenon, <1>2, <2>1, <2>2, <3>1 DEF Won
  <2> QED BY Zenon, <1>2, <2>3 DEF ForwardInv, Passed, HopsFollowElections, Frame, Won
<1> QED BY Zenon, <1>1, <1>3, <1>4, <1>5 DEF ForwardInv

----------------------------------------------------------------------------
(* Requests that are passed on.                                            *)

\* A frame changes in place without being passed on.
LEMMA PassedChanged ==
    ASSUME ForwardInv, NEW f \in Frame, NEW pc, NEW reply, Changed(f, pc, frame[f].to, reply),
           pc # "start", UNCHANGED <<raftVars, hops>>
    PROVE  Passed'
<1>1. Frame' = Frame
  BY Zenon DEF Changed, Frame
<1>2. \A g \in Frame : /\ frame'[g].to = frame[g].to /\ frame'[g].at = frame[g].at /\ frame'[g].parent = frame[g].parent
                       /\ frame[g].pc # "start" => frame'[g].pc # "start"
  BY Zenon DEF Changed
<1>3. \A h \in hops : h[1] \in Frame
  BY Zenon DEF ForwardInv, ForwardTypes
<1>4. \A g \in Frame : frame[g].parent # 0 => frame[g].parent \in Frame
  BY DEF ForwardInv, ForwardTypes, Tree, Frame
<1>5. \A h \in hops : /\ frame'[h[1]].pc # "start"
                      /\ frame'[h[1]].to \in Voter
                      /\ Won(frame[h[1]].to, h[2])
  BY Zenon, <1>2, <1>3 DEF ForwardInv, Passed
<1>6. \A g \in Frame : frame'[g].parent # 0 => /\ frame'[frame'[g].parent].pc # "start"
                                               /\ frame'[g].at = frame'[frame'[g].parent].to
  BY <1>2, <1>4 DEF ForwardInv, Passed
<1>7. HopsFollowElections'
  BY <1>2, <1>3 DEF ForwardInv, Passed, HopsFollowElections
<1> QED BY <1>1, <1>2, <1>3, <1>5, <1>6, <1>7 DEF Passed, Won, raftVars

\* callLeader: the request is passed on in a newer term than the one it came in.
LEMMA PassedOn ==
    ASSUME ForwardInv, NEW f \in Frame, frame[f].pc = "start", ~leads[frame[f].at], knows[frame[f].at] # None,
           Changed(f, "send", knows[frame[f].at], frame[f].reply),
           hops' = hops \cup {<<f, term[frame[f].at]>>}, UNCHANGED raftVars
    PROVE  Passed' /\ hops' \subseteq Frame \X (1..MaxTerm)
<1> DEFINE v == frame[f].at
           w == knows[v]
           t == term[v]
<1>1. v \in Voter /\ w \in Voter /\ t \in 1..MaxTerm /\ t \in Nat
  BY FrameFields, ForwardAssumption DEF ForwardInv, ForwardTypes
<1>2. Frame' = Frame
  BY Zenon DEF Changed, Frame
<1>3. /\ \A g \in Frame : /\ frame'[g].at = frame[g].at /\ frame'[g].parent = frame[g].parent
                          /\ frame[g].pc # "start" => frame'[g].pc # "start"
                          /\ g # f => frame'[g].to = frame[g].to
      /\ frame'[f].to = w /\ frame'[f].pc = "send"
  BY Zenon DEF Changed
<1>4. \A h \in hops : h[1] \in Frame /\ h[1] # f /\ h[2] \in Nat
  BY ForwardAssumption DEF ForwardInv, ForwardTypes, Passed
<1>5. \A g \in Frame : frame[g].parent # 0 => frame[g].parent \in Frame /\ frame[g].parent # f
  BY DEF ForwardInv, ForwardTypes, Tree, Frame, Passed
<1>6. Won(w, t)
  BY Zenon, <1>1 DEF ForwardInv, Leaders
<1>7. \A h \in hops' : /\ frame'[h[1]].pc # "start"
                       /\ frame'[h[1]].to \in Voter
                       /\ Won(frame'[h[1]].to, h[2])
  <2>1. ASSUME NEW h \in hops
        PROVE  frame'[h[1]].pc # "start" /\ frame'[h[1]].to \in Voter /\ Won(frame'[h[1]].to, h[2])
    BY Zenon, <1>3, <1>4, <2>1 DEF ForwardInv, Passed
  <2>2. ASSUME NEW h, h = <<f, t>>
        PROVE  frame'[h[1]].pc # "start" /\ frame'[h[1]].to \in Voter /\ Won(frame'[h[1]].to, h[2])
    BY Zenon, <1>1, <1>3, <1>6, <2>2
  <2> QED BY Zenon, <2>1, <2>2
<1>8. \A g \in Frame : frame'[g].parent # 0 => /\ frame'[frame'[g].parent].pc # "start"
                                               /\ frame'[g].at = frame'[frame'[g].parent].to
  BY <1>3, <1>5 DEF ForwardInv, Passed
<1>9. HopsFollowElections'
  <2>1. \A h, g \in hops : frame'[h[1]].parent # 0 /\ g[1] = frame'[h[1]].parent => h[2] > g[2]
    BY Zenon, <1>3, <1>4 DEF ForwardInv, Passed, HopsFollowElections
  <2>2. \A h \in hops : frame'[h[1]].parent # f
    BY <1>3, <1>4, <1>5, FrameFields DEF ForwardInv
  <2>3. frame'[f].parent # f
    BY <1>3, <1>5, FrameFields DEF ForwardInv
  <2>4. ASSUME NEW g \in hops, frame[f].parent # 0, g[1] = frame[f].parent
        PROVE  t > g[2]
    <3>1. v = frame[g[1]].to
      BY Zenon, <2>4 DEF ForwardInv, Passed
    <3>2. Won(v, g[2])
      BY Zenon, <2>4, <3>1 DEF ForwardInv, Passed
    <3> QED BY <1>1, <1>4, <3>2, <2>4 DEF Won
  <2>5. ASSUME NEW h \in hops', NEW g \in hops', frame'[h[1]].parent # 0, g[1] = frame'[h[1]].parent
        PROVE  h[2] > g[2]
    <3>1. CASE h \in hops /\ g \in hops
      BY Zenon, <2>1, <2>5, <3>1
    <3>2. CASE g = <<f, t>>
      BY Zenon, <2>2, <2>3, <2>5, <3>2
    <3>3. CASE h = <<f, t>> /\ g \in hops
      BY Zenon, <1>3, <2>4, <2>5, <3>3
    <3> QED BY Zenon, <2>5, <3>1, <3>2, <3>3
  <2> QED BY Zenon, <2>5 DEF HopsFollowElections
<1>10. hops' \subseteq Frame \X (1..MaxTerm)
  BY <1>1 DEF ForwardInv, ForwardTypes
<1> QED BY Zenon, <1>2, <1>7, <1>8, <1>9, <1>10 DEF Passed, Won, raftVars

\* A request is made where the caller wanted it.
LEMMA PassedAdded ==
    ASSUME ForwardInv, NEW p \in Frame \cup {0}, NEW v \in Voter, Added(p, v), p # 0 => v = frame[p].to,
           UNCHANGED <<raftVars, hops>>
    PROVE  Passed'
<1> DEFINE n == Len(frame) + 1
<1>1. Len(frame) \in Nat /\ n \in Nat
  BY DEF ForwardInv, ForwardTypes
<1>2. \A g : g \in Frame' <=> g \in Frame \/ g = n
  BY <1>1 DEF Added, Frame
<1>3. \A g \in Frame : /\ frame'[g].to = frame[g].to /\ frame'[g].at = frame[g].at /\ frame'[g].parent = frame[g].parent
                       /\ frame[g].pc # "start" => frame'[g].pc # "start"
  BY Zenon, FrameFields DEF Added, ForwardInv
<1>4. \A h \in hops : h[1] \in Frame
  BY Zenon DEF ForwardInv, ForwardTypes
<1>5. \A g \in Frame : frame[g].parent # 0 => frame[g].parent \in Frame
  <2>1. \A g \in Frame : frame[g].parent \in 0..(g - 1)
    BY Zenon DEF ForwardInv, Tree
  <2>2. \A g \in Frame : \A q \in 0..(g - 1) : q # 0 => q \in Frame
    BY <1>1 DEF Frame
  <2> QED BY Zenon, <2>1, <2>2
<1>6. \A h \in hops : /\ frame'[h[1]].pc # "start"
                      /\ frame'[h[1]].to \in Voter
                      /\ Won(frame'[h[1]].to, h[2])
  BY Zenon, <1>3, <1>4 DEF ForwardInv, Passed
<1>7. \A g \in Frame : frame'[g].parent # 0 => /\ frame'[frame'[g].parent].pc # "start"
                                               /\ frame'[g].at = frame'[frame'[g].parent].to
  BY <1>3, <1>5 DEF ForwardInv, Passed
<1>8. frame'[n].parent # 0 => /\ frame'[frame'[n].parent].pc # "start"
                              /\ frame'[n].at = frame'[frame'[n].parent].to
  BY Zenon, <1>3 DEF Added
<1>9. HopsFollowElections'
  BY <1>3, <1>4 DEF ForwardInv, Passed, HopsFollowElections
<1> HIDE DEF n
<1> QED BY Zenon, <1>2, <1>3, <1>6, <1>7, <1>8, <1>9 DEF Passed, Won, raftVars

\* What only the origin does.
LEMMA PassedOrigin ==
    ASSUME Passed, UNCHANGED <<raftVars, frame, hops>>
    PROVE  Passed'
BY Zenon DEF Passed, Won, raftVars, Frame, HopsFollowElections

----------------------------------------------------------------------------
(* Counting the chances.                                                   *)

\* There are finitely many chances.
LEMMA ChancesFinite ==
    ASSUME ForwardTypes
    PROVE  IsFiniteSet(Chances) /\ Cardinality(Chances) \in Nat
<1>1. Len(frame) \in Nat
  BY DEF ForwardTypes
<1>2. Chances \subseteq 0..Len(frame)
  BY <1>1 DEF Chances, Frame
<1>3. IsFiniteSet(0..Len(frame))
  BY <1>1, FS_Interval
<1>4. IsFiniteSet(Chances)
  BY Zenon, <1>2, <1>3, FS_Subset
<1> QED BY Zenon, <1>4, FS_CardinalityType

\* Sizes of sets that differ in a member or two.
LEMMA NoMore ==
    ASSUME NEW S, NEW T, IsFiniteSet(S), T \subseteq S
    PROVE  Cardinality(T) \in Nat /\ Cardinality(S) \in Nat /\ Cardinality(T) <= Cardinality(S)
BY Zenon, FS_Subset, FS_CardinalityType

\* A set with one element more.
LEMMA OneMore ==
    ASSUME NEW S, NEW T, NEW x, IsFiniteSet(S), T \subseteq S \cup {x}
    PROVE  Cardinality(T) \in Nat /\ Cardinality(S) \in Nat /\ Cardinality(T) <= Cardinality(S) + 1
<1>1. IsFiniteSet(S \cup {x}) /\ Cardinality(S \cup {x}) = IF x \in S THEN Cardinality(S) ELSE Cardinality(S) + 1
  BY Zenon, FS_AddElement
<1>2. Cardinality(T) \in Nat /\ Cardinality(T) <= Cardinality(S \cup {x})
  BY Zenon, <1>1, NoMore
<1>3. Cardinality(S) \in Nat
  BY Zenon, FS_CardinalityType
<1> QED BY <1>1, <1>2, <1>3

\* A set with one element less.
LEMMA OneLess ==
    ASSUME NEW S, NEW T, NEW x \in S, IsFiniteSet(S), T \subseteq S \ {x}
    PROVE  Cardinality(T) \in Nat /\ Cardinality(S) \in Nat /\ Cardinality(T) + 1 <= Cardinality(S)
<1>1. IsFiniteSet(S \ {x}) /\ Cardinality(S \ {x}) = IF x \in S THEN Cardinality(S) - 1 ELSE Cardinality(S)
  BY Zenon, FS_RemoveElement
<1>2. Cardinality(T) \in Nat /\ Cardinality(T) <= Cardinality(S \ {x})
  BY Zenon, <1>1, NoMore
<1>3. Cardinality(S) \in Nat
  BY Zenon, FS_CardinalityType
<1> QED BY <1>1, <1>2, <1>3

\* A set with one element in the place of another.
LEMMA OneForAnother ==
    ASSUME NEW S, NEW T, NEW x \in S, NEW y, IsFiniteSet(S), T \subseteq (S \ {x}) \cup {y}
    PROVE  Cardinality(T) \in Nat /\ Cardinality(S) \in Nat /\ Cardinality(T) <= Cardinality(S)
<1>1. IsFiniteSet(S \ {x}) /\ Cardinality(S \ {x}) + 1 <= Cardinality(S) /\ Cardinality(S) \in Nat
  BY Zenon, FS_RemoveElement, OneLess
<1>2. Cardinality(T) \in Nat /\ Cardinality(S \ {x}) \in Nat /\ Cardinality(T) <= Cardinality(S \ {x}) + 1
  BY Zenon, <1>1, OneMore
<1> QED BY <1>1, <1>2

\* A frame changes in place: at most that frame becomes a chance; one that has
\* succeeded is none, and what a frame no longer waits for is none.
LEMMA ChancesChanged ==
    ASSUME ForwardInv, NEW f \in Frame, NEW pc, NEW to, NEW reply, Changed(f, pc, to, reply),
           pc # "wait", UNCHANGED origin
    PROVE  /\ Chances' \subseteq Chances \cup {f}
           /\ pc = "done" /\ reply = "ok" => f \notin Chances'
           /\ frame[f].pc = "wait" /\ frame[frame[f].child].pc = "done" =>
                  frame[f].child # f /\ frame[f].child \notin Chances'
<1>1. Frame' = Frame
  BY Zenon DEF Changed, Frame
<1>2. f # 0 /\ \A g \in Frame : g # 0 /\ frame'[g].parent = frame[g].parent
  BY Zenon, FrameFields DEF Changed, ForwardInv
<1>3. ASSUME NEW g \in Frame, g # f, Live(g)'
      PROVE  Live(g)
  <2>1. frame'[g] = frame[g]
    BY Zenon, <1>3 DEF Changed
  <2>2. Awaited(g)' => Awaited(g)
    <3> SUFFICES ASSUME Awaited(g)' PROVE Awaited(g)
      BY Zenon
    <3>1. CASE frame[g].parent = 0
      BY Zenon, <2>1, <3>1 DEF Awaited
    <3>2. CASE frame[g].parent # 0
      <4>1. frame'[frame[g].parent].pc = "wait" /\ frame'[frame[g].parent].child = g
        BY Zenon, <2>1, <3>2 DEF Awaited
      <4>2. frame[g].parent # f
        BY Zenon, <4>1 DEF Changed
      <4>3. frame[g].parent \in Frame
        BY <3>2 DEF ForwardInv, ForwardTypes, Tree, Frame
      <4> QED BY Zenon, <3>2, <4>1, <4>2, <4>3 DEF Awaited, Changed
    <3> QED BY Zenon, <3>1, <3>2
  <2> QED BY Zenon, <1>3, <2>1, <2>2 DEF Live
<1>4. Chances' \subseteq Chances \cup {f}
  BY Zenon, <1>1, <1>3 DEF Chances
<1>5. ASSUME pc = "done", reply = "ok"
      PROVE  f \notin Chances'
  BY Zenon, <1>2, <1>5 DEF Chances, Live, Changed
<1>6. ASSUME frame[f].pc = "wait", frame[frame[f].child].pc = "done"
      PROVE  frame[f].child # f /\ frame[f].child \notin Chances'
  <2> DEFINE c == frame[f].child
  <2>1. c \in Frame /\ frame[c].parent = f /\ c # f
    BY Zenon, <1>6 DEF ForwardInv, Tree
  <2>2. frame'[c].pc = "done" /\ frame'[c].parent = f
    BY Zenon, <1>2, <1>6, <2>1 DEF Changed
  <2> HIDE DEF c
  <2>3. frame'[f].pc # "wait"
    BY Zenon DEF Changed
  <2>4. c # 0
    BY Zenon, <1>2, <2>1
  <2>5. c \notin Chances'
    <3> SUFFICES ASSUME c \in Chances' PROVE FALSE
      BY Zenon
    <3>1. frame'[c].pc \in {"start", "send", "exec"} \/
            (IF frame'[c].parent = 0 THEN origin'.pc = "wait" /\ origin'.child = c
             ELSE frame'[frame'[c].parent].pc = "wait" /\ frame'[frame'[c].parent].child = c)
      BY Zenon, <2>4 DEF Chances, Live, Awaited
    <3> QED BY Zenon, <1>2, <2>2, <2>3, <3>1
  <2> QED BY Zenon, <2>1, <2>5 DEF c
<1> QED BY Zenon, <1>4, <1>5, <1>6

\* A request is made: the new frame is a chance in place of its caller.
LEMMA ChancesAdded ==
    ASSUME ForwardInv, NEW p \in Frame \cup {0}, NEW v \in Voter, Added(p, v),
           p = 0 => origin.pc = "send" /\ origin'.pc = "wait" /\ origin'.child = Len(frame) + 1,
           p # 0 => frame[p].pc = "send" /\ UNCHANGED origin
    PROVE  p \in Chances /\ Chances' \subseteq (Chances \ {p}) \cup {Len(frame) + 1}
<1> DEFINE n == Len(frame) + 1
<1>1. Len(frame) \in Nat /\ n \in Nat
  BY DEF ForwardInv, ForwardTypes
<1>2. \A g : g \in Frame' <=> g \in Frame \/ g = n
  BY <1>1 DEF Added, Frame
<1>3. n \notin Frame /\ n # 0 /\ \A g \in Frame : g # 0
  BY <1>1 DEF Frame
<1>4. p \in Chances
  BY Zenon DEF Chances, Live
<1>5. ASSUME NEW g \in Frame, g # p, Live(g)'
      PROVE  Live(g)
  <2>1. frame'[g] = frame[g]
    BY Zenon, <1>5 DEF Added
  <2>2. Awaited(g)' => Awaited(g)
    <3> SUFFICES ASSUME Awaited(g)' PROVE Awaited(g)
      BY Zenon
    <3>1. CASE frame[g].parent = 0
      <4>1. origin'.pc = "wait" /\ origin'.child = g
        BY Zenon, <2>1, <3>1 DEF Awaited
      <4>2. p # 0
        BY Zenon, <1>3, <4>1
      <4> QED BY Zenon, <3>1, <4>1, <4>2 DEF Awaited
    <3>2. CASE frame[g].parent # 0
      <4>1. frame'[frame[g].parent].pc = "wait" /\ frame'[frame[g].parent].child = g
        BY Zenon, <2>1, <3>2 DEF Awaited
      <4>2. frame[g].parent # p
        BY <1>3, <3>2, <4>1 DEF Added
      <4>3. frame[g].parent \in Frame
        BY <3>2 DEF ForwardInv, ForwardTypes, Tree, Frame
      <4> QED BY Zenon, <3>2, <4>1, <4>2, <4>3 DEF Awaited, Added
    <3> QED BY Zenon, <3>1, <3>2
  <2> QED BY Zenon, <1>5, <2>1, <2>2 DEF Live
<1>6. p \notin Chances'
  <2>1. CASE p = 0
    BY Zenon, <1>2, <1>3, <2>1 DEF Chances
  <2>2. CASE p # 0
    <3>1. frame'[p].pc = "wait"
      BY Zenon, <2>2 DEF Added
    <3> QED BY Zenon, <2>2, <3>1 DEF Chances, Live
  <2> QED BY Zenon, <2>1, <2>2
<1>7. \A g \in Chances' : g = 0 \/ g = n \/ (g \in Frame /\ Live(g)')
  BY Zenon, <1>2 DEF Chances
<1>8. 0 \in Chances' => p # 0 /\ 0 \in Chances
  BY Zenon, <1>1, <1>2, <1>3, <1>6 DEF Chances, Added
<1> HIDE DEF n
<1>9. Chances' \subseteq (Chances \ {p}) \cup {n}
  <2> SUFFICES ASSUME NEW g \in Chances', g # n PROVE g \in Chances /\ g # p
    BY Zenon
  <2>1. g # p
    BY Zenon, <1>6
  <2>2. CASE g = 0
    BY Zenon, <1>8, <2>1, <2>2
  <2>3. CASE g \in Frame /\ Live(g)'
    BY Zenon, <1>5, <2>1, <2>3 DEF Chances
  <2> QED BY Zenon, <1>7, <2>1, <2>2, <2>3
<1> QED BY Zenon, <1>4, <1>9 DEF n

\* The origin goes on: at most it becomes a chance, and what it no longer waits
\* for is none.
LEMMA ChancesOrigin ==
    ASSUME ForwardInv, UNCHANGED frame, origin'.pc # "wait"
    PROVE  /\ Chances' \subseteq Chances \cup {0}
           /\ origin'.pc = "done" => 0 \notin Chances'
           /\ origin.pc \in {"next", "send"} => 0 \in Chances
           /\ origin.pc = "wait" /\ frame[origin.child].pc = "done" =>
                 origin.child # 0 /\ origin.child \notin Chances'
<1>1. Frame' = Frame /\ \A g \in Frame : g # 0
  BY Zenon, FrameFields DEF Frame, ForwardInv
<1>2. \A g \in Frame : Live(g)' => Live(g)
  BY Zenon DEF Live, Awaited
<1>3. Chances' \subseteq Chances \cup {0}
  BY Zenon, <1>1, <1>2 DEF Chances
<1>4. origin'.pc = "done" => 0 \notin Chances'
  BY Zenon, <1>1 DEF Chances
<1>5. origin.pc \in {"next", "send"} => 0 \in Chances
  BY Zenon DEF Chances
<1>6. ASSUME origin.pc = "wait", frame[origin.child].pc = "done"
      PROVE  origin.child # 0 /\ origin.child \notin Chances'
  <2>1. origin.child \in Frame /\ frame[origin.child].parent = 0
    BY Zenon, <1>6 DEF ForwardInv, Tree
  <2>2. ASSUME NEW g \in Frame, frame[g].pc = "done", frame[g].parent = 0
        PROVE  ~Live(g)'
    BY Zenon, <2>2 DEF Live, Awaited
  <2>3. ASSUME NEW g \in Frame, frame[g].pc = "done", frame[g].parent = 0
        PROVE  g # 0 /\ g \notin Chances'
    BY Zenon, <1>1, <2>2, <2>3 DEF Chances
  <2> QED BY Zenon, <1>6, <2>1, <2>3
<1> QED BY Zenon, <1>3, <1>4, <1>5, <1>6

----------------------------------------------------------------------------
(* The steps.                                                              *)

\* Types that a change of frames leaves right.
LEMMA TypesKept ==
    ASSUME ForwardTypes, frame' \in Seq(Frames), Len(frame') \in {Len(frame), Len(frame) + 1},
           origin' \in Origins, applied' \in Nat, faults' \in Nat, hops' \subseteq Frame \X (1..MaxTerm),
           UNCHANGED raftVars
    PROVE  ForwardTypes' /\ (Leaders => Leaders')
<1>1. Frame \subseteq Frame'
  BY DEF Frame, ForwardTypes
<1> QED BY Zenon, <1>1 DEF ForwardTypes, raftVars, Leaders, Won

\* A frame changes in place without a new application or a new fault.
LEMMA QuietChange ==
    ASSUME ForwardInv, NEW f \in Frame, NEW pc, NEW reply, Changed(f, pc, frame[f].to, reply),
           pc \in {"send", "exec", "done"}, pc = "send" => frame[f].to \in Voter,
           frame[f].pc \in {"start", "send", "exec"}, reply # "ok" \/ reply = frame[f].reply,
           UNCHANGED <<raftVars, origin, applied, faults, hops>>
    PROVE  ForwardInv'
<1>1. ForwardTypes' /\ Leaders'
  BY Zenon, TypesKept DEF ForwardInv, Changed, ForwardTypes
<1>2. Tree'
  BY Zenon, TreeChanged DEF ForwardInv
<1>3. Successes'
  <2>1. reply = "ok" => applied' > 0
    BY Zenon DEF ForwardInv, Successes
  <2>2. applied > 0 => applied' > 0
    BY Zenon
  <2>3. Successes
    BY Zenon DEF ForwardInv
  <2> QED BY Zenon, <2>1, <2>2, <2>3, SuccessChanged
<1>4. Passed'
  BY Zenon, PassedChanged
<1>5. Counted'
  <2>1. f \in Chances
    BY Zenon DEF Chances, Live
  <2>2. Chances' \subseteq Chances
    BY Zenon, <2>1, ChancesChanged
  <2>3. Cardinality(Chances') <= Cardinality(Chances) /\ Cardinality(Chances) \in Nat /\ Cardinality(Chances') \in Nat
    BY Zenon, <2>2, NoMore, ChancesFinite DEF ForwardInv
  <2> QED BY <2>3 DEF ForwardInv, ForwardTypes, Counted
<1> QED BY Zenon, <1>1, <1>2, <1>3, <1>4, <1>5 DEF ForwardInv

\* A handler that is at work or waits is given up or tries again: a fault.
LEMMA FaultyChange ==
    ASSUME ForwardInv, NEW f \in Frame, NEW pc \in {"send", "done"}, NEW reply,
           Changed(f, pc, frame[f].to, reply),
           pc = "send" => frame[f].to \in Voter, reply # "ok" \/ (reply = frame[f].reply /\ applied' = applied),
           applied' \in {applied, applied + 1}, applied' # applied => f \in Chances,
           faults' = faults + 1, UNCHANGED <<raftVars, origin, hops>>
    PROVE  ForwardInv'
<1>1. applied \in Nat /\ applied' \in Nat /\ faults \in Nat /\ faults' \in Nat
  BY DEF ForwardInv, ForwardTypes
<1>2. ForwardTypes' /\ Leaders'
  BY Zenon, <1>1, TypesKept DEF ForwardInv, Changed, ForwardTypes
<1>3. Tree'
  BY Zenon, TreeChanged DEF ForwardInv
<1>4. Successes'
  <2>1. reply = "ok" => applied' > 0
    BY Zenon DEF ForwardInv, Successes
  <2>2. applied > 0 => applied' > 0
    BY <1>1
  <2>3. Successes
    BY Zenon DEF ForwardInv
  <2> QED BY Zenon, <2>1, <2>2, <2>3, SuccessChanged
<1>5. Passed'
  BY Zenon, PassedChanged
<1>6. Counted'
  <2>1. Chances' \subseteq Chances \cup {f} /\ IsFiniteSet(Chances)
    BY Zenon, ChancesChanged, ChancesFinite DEF ForwardInv
  <2>2. CASE f \in Chances
    <3>1. Chances' \subseteq Chances
      BY Zenon, <2>1, <2>2
    <3>2. Cardinality(Chances') <= Cardinality(Chances) /\ Cardinality(Chances) \in Nat /\ Cardinality(Chances') \in Nat
      BY Zenon, <2>1, <3>1, NoMore
    <3> QED BY <1>1, <3>2 DEF ForwardInv, Counted
  <2>3. CASE f \notin Chances
    <3>1. /\ Cardinality(Chances') <= Cardinality(Chances) + 1 /\ Cardinality(Chances) \in Nat
          /\ Cardinality(Chances') \in Nat
      BY Zenon, <2>1, OneMore
    <3> QED BY <1>1, <2>3, <3>1 DEF ForwardInv, Counted
  <2> QED BY Zenon, <2>2, <2>3
<1> QED BY Zenon, <1>2, <1>3, <1>4, <1>5, <1>6 DEF ForwardInv

\* callLeader keeps the invariant.
LEMMA CallLeaderKeeps ==
    ASSUME ForwardInv, NEW f \in Frame, callLeader(f)
    PROVE  ForwardInv'
<1> DEFINE v == frame[f].at
           w == knows[v]
<1>1. /\ frame[f].pc = "start" /\ ~leads[v] /\ UNCHANGED <<raftVars, origin, applied, faults>>
      /\ frame[f] \in Frames /\ v \in Voter /\ w \in Voter \cup {None} /\ frame[f].attempt \in 0..(Attempts - 1)
      /\ "uncoded" \in Reply
  BY Zenon, FrameFields DEF callLeader, ForwardInv, ForwardTypes, Reply
<1>2. CASE w = None
  <2>1. EndFrame(f, "uncoded") /\ UNCHANGED hops
    BY Zenon, <1>2 DEF callLeader
  <2>2. Changed(f, "done", frame[f].to, "uncoded")
    BY Zenon, <1>1, <2>1, EndFrameChanges DEF ForwardInv
  <2> QED BY Zenon, <1>1, <2>1, <2>2, QuietChange
<1>3. CASE w # None
  <2>1. frame' = [frame EXCEPT ![f].pc = "send", ![f].to = w] /\ hops' = hops \cup {<<f, term[v]>>}
    BY Zenon, <1>3 DEF callLeader
  <2>2. frame' = [frame EXCEPT ![f] = [frame[f] EXCEPT !.pc = "send", !.to = w, !.attempt = frame[f].attempt]]
    BY Zenon, <1>1, <2>1 DEF Frames
  <2>3. Changed(f, "send", w, frame[f].reply) /\ w \in Voter
    BY Zenon, <1>1, <1>3, <2>2, MoveChanges DEF ForwardInv
  <2>4. Passed' /\ hops' \subseteq Frame \X (1..MaxTerm)
    BY Zenon, <1>1, <1>3, <2>1, <2>3, PassedOn
  <2>5. ForwardTypes' /\ Leaders'
    BY Zenon, <1>1, <2>3, <2>4, TypesKept DEF ForwardInv, Changed, ForwardTypes
  <2>6. Tree'
    BY Zenon, <1>1, <2>3, TreeChanged DEF ForwardInv
  <2>7. Successes'
    BY Zenon, <1>1, <2>3, SuccessChanged DEF ForwardInv, Successes
  <2>8. Counted'
    <3>1. f \in Chances
      BY Zenon, <1>1 DEF Chances, Live
    <3>2. Chances' \subseteq Chances
      BY Zenon, <1>1, <2>3, <3>1, ChancesChanged
    <3>3. Cardinality(Chances') <= Cardinality(Chances) /\ Cardinality(Chances) \in Nat /\ Cardinality(Chances') \in Nat
      BY Zenon, <3>2, NoMore, ChancesFinite DEF ForwardInv
    <3> QED BY <1>1, <3>3 DEF ForwardInv, ForwardTypes, Counted
  <2> QED BY Zenon, <2>4, <2>5, <2>6, <2>7, <2>8 DEF ForwardInv
<1> QED BY Zenon, <1>2, <1>3

\* Passing a request on keeps the invariant.
LEMMA ProxyKeeps ==
    ASSUME ForwardInv, NEW f \in Frame, Proxy(f)
    PROVE  ForwardInv'
<1>1. frame[f].pc = "send" /\ frame[f].to \in Voter /\ UNCHANGED <<raftVars, origin, applied, faults, hops>> /\ f # 0
  BY Zenon, FrameFields DEF Proxy, ForwardInv, Tree
<1>2. Added(f, frame[f].to)
  BY Zenon, <1>1, SendAdds DEF Proxy, ForwardInv
<1>3. ForwardTypes' /\ Leaders'
  BY Zenon, <1>1, <1>2, TypesKept DEF ForwardInv, Added, ForwardTypes
<1>4. Tree'
  BY Zenon, <1>1, <1>2, TreeAdded DEF ForwardInv
<1>5. Successes'
  BY Zenon, <1>1, <1>2, SuccessAdded DEF ForwardInv
<1>6. Passed'
  BY Zenon, <1>1, <1>2, PassedAdded
<1>7. Counted'
  <2>1. f \in Chances /\ Chances' \subseteq (Chances \ {f}) \cup {Len(frame) + 1}
    BY Zenon, <1>1, <1>2, ChancesAdded
  <2>2. Cardinality(Chances') <= Cardinality(Chances) /\ Cardinality(Chances) \in Nat /\ Cardinality(Chances') \in Nat
    BY Zenon, <2>1, OneForAnother, ChancesFinite DEF ForwardInv
  <2> QED BY <1>1, <2>2 DEF ForwardInv, ForwardTypes, Counted
<1> QED BY Zenon, <1>3, <1>4, <1>5, <1>6, <1>7 DEF ForwardInv

\* Passing the reply back keeps it.
LEMMA ProxyReplyKeeps ==
    ASSUME ForwardInv, NEW f \in Frame, ProxyReply(f)
    PROVE  ForwardInv'
<1> DEFINE c == frame[f].child
           r == frame[c].reply
<1>1. /\ frame[f].pc = "wait" /\ c \in Frame /\ frame[c].pc = "done" /\ frame[c].parent = f
      /\ UNCHANGED <<raftVars, origin, applied, faults, hops>>
  BY Zenon DEF ProxyReply, ForwardInv, Tree
<1>2. r \in Reply
  BY Zenon, <1>1, FrameFields DEF ForwardInv
<1>3. Changed(f, "done", frame[f].to, r)
  BY Zenon, <1>2, EndFrameChanges DEF ProxyReply, ForwardInv
<1>4. ForwardTypes' /\ Leaders'
  BY Zenon, <1>1, <1>3, TypesKept DEF ForwardInv, Changed, ForwardTypes
<1>5. Tree'
  BY Zenon, <1>1, <1>3, TreeChanged DEF ForwardInv
<1>6. Successes'
  <2>1. r = "ok" => applied' > 0
    BY Zenon, <1>1 DEF ForwardInv, Successes
  <2> QED BY <1>1, <1>3, <2>1, SuccessChanged DEF ForwardInv
<1>7. Passed'
  BY Zenon, <1>1, <1>3, PassedChanged
<1>8. Counted'
  <2>1. IsFiniteSet(Chances)
    BY Zenon, ChancesFinite DEF ForwardInv
  <2>2. /\ Chances' \subseteq Chances \cup {f} /\ c # f /\ c \notin Chances'
        /\ r = "ok" => f \notin Chances'
    BY <1>1, <1>3, ChancesChanged
  <2>3. Cardinality(Chances') <= Cardinality(Chances) /\ Cardinality(Chances) \in Nat /\ Cardinality(Chances') \in Nat
    <3>1. CASE r = "ok"
      <4>1. Chances' \subseteq Chances
        BY Zenon, <2>2, <3>1
      <4> QED BY Zenon, <2>1, <4>1, NoMore
    <3>2. CASE r # "ok"
      <4>1. c \in Chances
        BY Zenon, <1>1, <3>2, FrameFields DEF Chances, Live, Awaited, ForwardInv
      <4>2. Chances' \subseteq (Chances \ {c}) \cup {f}
        BY Zenon, <2>2
      <4> HIDE DEF c
      <4> QED BY Zenon, <2>1, <4>1, <4>2, OneForAnother
    <3> QED BY Zenon, <3>1, <3>2
  <2> QED BY <1>1, <2>3 DEF ForwardInv, ForwardTypes, Counted
<1> QED BY Zenon, <1>4, <1>5, <1>6, <1>7, <1>8 DEF ForwardInv

\* So does a broken connection to the leader.
LEMMA ProxyBrokenKeeps ==
    ASSUME ForwardInv, NEW f \in Frame, ProxyBroken(f) \/ ProxyTimeout(f)
    PROVE  ForwardInv'
<1>1. /\ frame[f].pc \in {"send", "wait"} /\ faults' = faults + 1 /\ UNCHANGED <<raftVars, origin, applied, hops>>
      /\ {"coded", "uncoded"} \subseteq Reply /\ frame[f] \in Frames /\ frame[f].to \in Voter \cup {None}
      /\ frame[f].attempt \in 0..(Attempts - 1)
  BY Zenon, FrameFields DEF ProxyBroken, ProxyTimeout, Reply, ForwardInv
<1>2. ASSUME NEW r \in {"coded", "uncoded"}, EndFrame(f, r)
      PROVE  ForwardInv'
  <2>1. Changed(f, "done", frame[f].to, r)
    BY Zenon, <1>1, <1>2, EndFrameChanges DEF ForwardInv
  <2> QED BY Zenon, <1>1, <1>2, <2>1, FaultyChange
<1>3. CASE frame[f].pc = "wait" /\ frame[f].attempt + 1 < Attempts /\ frame' = [frame EXCEPT ![f].pc = "send", ![f].attempt = @ + 1]
  <2> DEFINE a == frame[f].attempt + 1
  <2>1. a \in 0..(Attempts - 1)
    BY <1>1, <1>3 DEF Attempts
  <2>2. frame' = [frame EXCEPT ![f] = [frame[f] EXCEPT !.pc = "send", !.to = frame[f].to, !.attempt = a]]
    BY Zenon, <1>1, <1>3 DEF Frames
  <2> HIDE DEF a
  <2>3. Changed(f, "send", frame[f].to, frame[f].reply)
    BY Zenon, <1>1, <2>1, <2>2, MoveChanges DEF ForwardInv
  <2>4. frame[f].to \in Voter
    BY Zenon, <1>3 DEF ForwardInv, Tree
  <2> QED BY Zenon, <1>1, <2>3, <2>4, FaultyChange
<1> QED BY Zenon, <1>1, <1>2, <1>3 DEF ProxyBroken, ProxyTimeout

\* Taking up a request keeps the invariant.
LEMMA ExecuteKeeps ==
    ASSUME ForwardInv, NEW f \in Frame, Execute(f)
    PROVE  ForwardInv'
<1>1. /\ frame[f].pc = "start" /\ UNCHANGED <<raftVars, origin, applied, faults, hops>>
      /\ frame[f] \in Frames /\ frame[f].to \in Voter \cup {None} /\ frame[f].attempt \in 0..(Attempts - 1)
  BY Zenon, FrameFields DEF Execute, ForwardInv
<1>2. frame' = [frame EXCEPT ![f] = [frame[f] EXCEPT !.pc = "exec", !.to = frame[f].to, !.attempt = frame[f].attempt]]
  BY Zenon, <1>1 DEF Execute, Frames
<1>3. Changed(f, "exec", frame[f].to, frame[f].reply)
  BY Zenon, <1>1, <1>2, MoveChanges DEF ForwardInv
<1> QED BY Zenon, <1>1, <1>3, QuietChange

\* So does applying it.
LEMMA ApplyWriteKeeps ==
    ASSUME ForwardInv, NEW f \in Frame, ApplyWrite(f)
    PROVE  ForwardInv'
<1>1. frame[f].pc = "exec" /\ UNCHANGED <<raftVars, origin, hops>> /\ Reply = {"ok", "coded", "uncoded"}
  BY Zenon DEF ApplyWrite, Reply
<1>2. ASSUME NEW r \in {"coded", "uncoded"}, EndFrame(f, r), UNCHANGED <<applied, faults>>
      PROVE  ForwardInv'
  <2>1. Changed(f, "done", frame[f].to, r)
    BY Zenon, <1>1, <1>2, EndFrameChanges DEF ForwardInv
  <2> QED BY Zenon, <1>1, <1>2, <2>1, QuietChange
<1>3. CASE faults' = faults + 1 /\ applied' \in {applied, applied + 1} /\ EndFrame(f, "uncoded")
  <2>1. Changed(f, "done", frame[f].to, "uncoded")
    BY Zenon, <1>1, <1>3, EndFrameChanges DEF ForwardInv
  <2>2. f \in Chances
    BY Zenon, <1>1 DEF Chances, Live
  <2> QED BY Zenon, <1>1, <1>3, <2>1, <2>2, FaultyChange
<1>4. CASE applied' = applied + 1 /\ EndFrame(f, "ok") /\ UNCHANGED faults
  <2>1. Changed(f, "done", frame[f].to, "ok")
    BY Zenon, <1>1, <1>4, EndFrameChanges DEF ForwardInv
  <2>2. applied \in Nat /\ applied' \in Nat /\ applied' > 0 /\ faults \in Nat
    BY <1>4 DEF ForwardInv, ForwardTypes
  <2>3. ForwardTypes' /\ Leaders'
    BY Zenon, <1>1, <1>4, <2>1, <2>2, TypesKept DEF ForwardInv, Changed, ForwardTypes
  <2>4. Tree'
    BY Zenon, <1>1, <2>1, TreeChanged DEF ForwardInv
  <2>5. Successes'
    BY Zenon, <1>1, <2>1, <2>2, SuccessChanged DEF ForwardInv
  <2>6. Passed'
    BY Zenon, <1>1, <2>1, PassedChanged
  <2>7. Counted'
    <3>1. f \in Chances /\ IsFiniteSet(Chances)
      BY Zenon, <1>1, ChancesFinite DEF Chances, Live, ForwardInv
    <3>2. Chances' \subseteq Chances \ {f}
      BY Zenon, <1>1, <2>1, <3>1, ChancesChanged
    <3>3. Cardinality(Chances') + 1 <= Cardinality(Chances) /\ Cardinality(Chances) \in Nat /\ Cardinality(Chances') \in Nat
      BY Zenon, <3>1, <3>2, OneLess
    <3> QED BY <1>4, <2>2, <3>3 DEF ForwardInv, Counted
  <2> QED BY Zenon, <2>3, <2>4, <2>5, <2>6, <2>7 DEF ForwardInv
<1> QED BY Zenon, <1>1, <1>2, <1>3, <1>4 DEF ApplyWrite

----------------------------------------------------------------------------
(* The origin.                                                             *)

\* The origin goes on without a new request: to another voter, or to the end.
LEMMA OriginMoves ==
    ASSUME ForwardInv, origin' \in Origins, origin'.pc \in {"next", "send", "done"},
           origin'.pc = "send" => origin'.to \in Voter,
           origin'.result = "ok" => applied > 0,
           UNCHANGED <<raftVars, frame, applied, hops>>,
           \/ origin.pc \in {"next", "send"} /\ UNCHANGED faults
           \/ /\ origin.pc = "wait" /\ frame[origin.child].pc = "done" /\ UNCHANGED faults
              /\ origin'.pc = "done" \/ frame[origin.child].reply # "ok"
           \/ faults' = faults + 1
    PROVE  ForwardInv'
<1>1. ForwardTypes' /\ Leaders'
  BY TypesKept DEF ForwardInv, ForwardTypes
<1>2. Tree'
  BY Zenon, TreeOrigin DEF ForwardInv
<1>3. Successes'
  BY Zenon DEF ForwardInv, Successes, Frame
<1>4. Passed'
  BY Zenon, PassedOrigin DEF ForwardInv
<1>5. Counted'
  <2>1. IsFiniteSet(Chances) /\ applied \in Nat /\ faults \in Nat
    BY Zenon, ChancesFinite DEF ForwardInv, ForwardTypes
  <2>2. /\ Chances' \subseteq Chances \cup {0}
        /\ origin'.pc = "done" => 0 \notin Chances'
        /\ origin.pc \in {"next", "send"} => 0 \in Chances
        /\ origin.pc = "wait" /\ frame[origin.child].pc = "done" => origin.child # 0 /\ origin.child \notin Chances'
    BY Zenon, ChancesOrigin
  <2>3. CASE faults' = faults + 1
    <3>1. /\ Cardinality(Chances') <= Cardinality(Chances) + 1 /\ Cardinality(Chances) \in Nat
          /\ Cardinality(Chances') \in Nat
      BY Zenon, <2>1, <2>2, OneMore
    <3> QED BY <2>1, <2>3, <3>1 DEF ForwardInv, Counted
  <2>4. CASE UNCHANGED faults /\ (origin.pc \in {"next", "send"} \/ origin'.pc = "done")
    <3>1. Chances' \subseteq Chances
      BY Zenon, <2>2, <2>4
    <3>2. Cardinality(Chances') <= Cardinality(Chances) /\ Cardinality(Chances) \in Nat /\ Cardinality(Chances') \in Nat
      BY Zenon, <2>1, <3>1, NoMore
    <3> QED BY <2>1, <2>4, <3>2 DEF ForwardInv, Counted
  <2>5. CASE /\ origin.pc = "wait" /\ frame[origin.child].pc = "done" /\ UNCHANGED faults
             /\ frame[origin.child].reply # "ok"
    <3> DEFINE c == origin.child
    <3>1. c \in Frame /\ frame[c].parent = 0
      BY Zenon, <2>5 DEF ForwardInv, Tree
    <3>2. c \in Chances
      BY Zenon, <2>5, <3>1 DEF Chances, Live, Awaited
    <3>3. Chances' \subseteq (Chances \ {c}) \cup {0}
      BY Zenon, <2>2, <2>5
    <3> HIDE DEF c
    <3>4. Cardinality(Chances') <= Cardinality(Chances) /\ Cardinality(Chances) \in Nat /\ Cardinality(Chances') \in Nat
      BY Zenon, <2>1, <3>2, <3>3, OneForAnother
    <3> QED BY <2>1, <2>5, <3>4 DEF ForwardInv, Counted
  <2> QED BY Zenon, <2>3, <2>4, <2>5
<1> QED BY Zenon, <1>1, <1>2, <1>3, <1>4, <1>5 DEF ForwardInv

\* The parts of the caller's state.
LEMMA OriginFields ==
    ASSUME ForwardTypes
    PROVE  /\ origin \in Origins /\ origin.pc \in {"next", "send", "wait", "done"} /\ origin.i \in Nat
           /\ origin.start \in Voter /\ origin.attempt \in 0..(Attempts - 1) /\ origin.to \in Voter \cup {None}
           /\ origin.child \in Nat /\ origin.last = "uncoded" /\ origin.result \in Reply \cup {"pending"}
<1>1. origin \in Origins
  BY Zenon DEF ForwardTypes
<1> QED BY Zenon, <1>1 DEF Origins

\* Only Finish reports a result, and only an applied statement as a success.
LEMMA FinishKeeps ==
    ASSUME ForwardInv, NEW r \in Reply, Finish(r), r = "ok" => applied > 0,
           UNCHANGED <<raftVars, frame, applied, hops>>,
           \/ origin.pc \in {"next", "send"} /\ UNCHANGED faults
           \/ origin.pc = "wait" /\ frame[origin.child].pc = "done" /\ UNCHANGED faults
           \/ faults' = faults + 1
    PROVE  ForwardInv'
<1>1. origin \in Origins
  BY Zenon, OriginFields DEF ForwardInv
<1>2. origin' \in Origins /\ origin'.pc = "done" /\ origin'.result = r
  BY Zenon, <1>1 DEF Finish, Origins
<1> QED BY Zenon, <1>2, OriginMoves

\* Trying the next voter keeps the invariant.
LEMMA NextVoterKeeps ==
    ASSUME ForwardInv, NextVoter
    PROVE  ForwardInv'
<1>1. origin.pc = "next" /\ origin \in Origins /\ UNCHANGED <<raftVars, frame, applied, hops, faults>>
  BY Zenon, OriginFields DEF NextVoter, rest, ForwardInv
<1>2. CASE origin.i < Cardinality(Voter)
  <2> DEFINE w == ((origin.start + origin.i) % Cardinality(Voter)) + 1
             i == origin.i + 1
  <2>1. Cardinality(Voter) \in Nat \ {0} /\ Voter = 1..Cardinality(Voter) /\ origin.start \in Nat /\ origin.i \in Nat
    <3>1. Cardinality(Voter) \in Nat \ {0} /\ Voter = 1..Cardinality(Voter)
      BY Zenon, ForwardAssumption
    <3>2. origin.start \in Voter /\ origin.i \in Nat
      BY Zenon, OriginFields DEF ForwardInv
    <3> QED BY <3>1, <3>2
  <2>2. w \in Voter
    <3>1. \A a \in Nat, n \in Nat \ {0} : (a % n) + 1 \in 1..n
      OBVIOUS
    <3>2. origin.start + origin.i \in Nat
      BY <2>1
    <3> QED BY Zenon, <2>1, <3>1, <3>2
  <2>3. i \in Nat /\ 0 \in 0..(Attempts - 1)
    BY <2>1 DEF Attempts
  <2>4. origin' = [origin EXCEPT !.pc = "send", !.i = i, !.attempt = 0, !.to = w]
    BY Zenon, <1>1, <1>2 DEF NextVoter
  <2> HIDE DEF w, i
  <2>5. origin' \in Origins /\ origin'.pc = "send" /\ origin'.to = w /\ origin'.result = origin.result
    BY Zenon, <1>1, <2>2, <2>3, <2>4 DEF Origins
  <2>6. origin'.result = "ok" => applied > 0
    BY Zenon, <2>5 DEF ForwardInv, Successes
  <2> QED BY Zenon, <1>1, <2>2, <2>5, <2>6, OriginMoves
<1>3. CASE ~(origin.i < Cardinality(Voter))
  <2>1. Finish("uncoded")
    BY Zenon, <1>3, OriginFields DEF NextVoter, ForwardInv
  <2>2. "uncoded" \in Reply
    BY Zenon DEF Reply
  <2> QED BY Zenon, <1>1, <2>1, <2>2, FinishKeeps
<1> QED BY Zenon, <1>2, <1>3

\* Asking the leader keeps the invariant.
LEMMA ForwardToLeaderKeeps ==
    ASSUME ForwardInv, ForwardToLeader
    PROVE  ForwardInv'
<1>1. origin.pc = "next" /\ origin \in Origins /\ UNCHANGED <<raftVars, frame, applied, hops, faults>>
  BY Zenon, OriginFields DEF ForwardToLeader, rest, ForwardInv
<1>2. CASE origin.i = 0 /\ knows[Origin] # None
  <2> DEFINE w == knows[Origin]
  <2>1. w \in Voter
    BY Zenon, <1>2, ForwardAssumption DEF ForwardToLeader, ForwardInv, ForwardTypes
  <2>2. origin' = [origin EXCEPT !.pc = "send", !.i = 1, !.to = w]
    BY Zenon, <1>2 DEF ForwardToLeader
  <2> HIDE DEF w
  <2>3. origin' \in Origins /\ origin'.pc = "send" /\ origin'.to = w /\ origin'.result = origin.result
    BY ZenonT(30), <1>1, <2>1, <2>2 DEF Origins
  <2>4. origin'.result = "ok" => applied > 0
    BY Zenon, <2>3 DEF ForwardInv, Successes
  <2> QED BY Zenon, <1>1, <2>1, <2>3, <2>4, OriginMoves
<1>3. CASE ~(origin.i = 0 /\ knows[Origin] # None)
  <2>1. Finish("uncoded")
    BY Zenon, <1>3, OriginFields DEF ForwardToLeader, ForwardInv
  <2>2. "uncoded" \in Reply
    BY Zenon DEF Reply
  <2> QED BY Zenon, <1>1, <2>1, <2>2, FinishKeeps
<1> QED BY Zenon, <1>2, <1>3

\* Sending keeps the invariant.
LEMMA OriginSendKeeps ==
    ASSUME ForwardInv, OriginSend
    PROVE  ForwardInv'
<1>1. /\ origin.pc = "send" /\ origin.to \in Voter /\ origin \in Origins
      /\ UNCHANGED <<raftVars, applied, hops, faults>> /\ Len(frame) + 1 \in Nat
  BY OriginFields DEF OriginSend, rest, ForwardInv, Tree, ForwardTypes
<1>2. Added(0, origin.to)
  BY Zenon, <1>1, SendAdds DEF OriginSend, ForwardInv
<1> DEFINE n == Len(frame) + 1
<1>3. origin' = [origin EXCEPT !.pc = "wait", !.child = n]
  BY Zenon DEF OriginSend
<1>4. origin' \in Origins /\ origin'.pc = "wait" /\ origin'.child = n /\ origin'.to = origin.to /\ origin'.result = origin.result
  <2> HIDE DEF n
  <2> QED BY Zenon, <1>1, <1>3 DEF Origins, n
<1>5. ForwardTypes' /\ Leaders'
  BY Zenon, <1>1, <1>2, <1>4, TypesKept DEF ForwardInv, Added, ForwardTypes
<1>6. Tree'
  BY Zenon, <1>1, <1>2, <1>4, TreeAdded DEF ForwardInv
<1>7. Successes'
  BY Zenon, <1>1, <1>2, <1>4, SuccessAdded DEF ForwardInv
<1>8. Passed'
  BY Zenon, <1>1, <1>2, PassedAdded
<1>9. Counted'
  <2>1. 0 \in Chances /\ Chances' \subseteq (Chances \ {0}) \cup {n}
    BY Zenon, <1>1, <1>2, <1>4, ChancesAdded
  <2>2. Cardinality(Chances') <= Cardinality(Chances) /\ Cardinality(Chances) \in Nat /\ Cardinality(Chances') \in Nat
    BY Zenon, <2>1, OneForAnother, ChancesFinite DEF ForwardInv
  <2> QED BY <1>1, <2>2 DEF ForwardInv, ForwardTypes, Counted
<1> QED BY Zenon, <1>5, <1>6, <1>7, <1>8, <1>9 DEF ForwardInv

\* Taking the reply keeps the invariant.
LEMMA OriginReplyKeeps ==
    ASSUME ForwardInv, OriginReply
    PROVE  ForwardInv'
<1> DEFINE c == origin.child
           r == frame[c].reply
<1>1. /\ origin.pc = "wait" /\ frame[c].pc = "done" /\ c \in Frame /\ origin \in Origins
      /\ UNCHANGED <<raftVars, frame, applied, hops, faults>>
  BY Zenon, OriginFields DEF OriginReply, rest, ForwardInv, Tree
<1>2. r \in Reply /\ (r = "ok" => applied > 0)
  BY Zenon, <1>1, FrameFields DEF ForwardInv, Successes
<1>3. CASE r \in {"ok", "coded"} \/ Origin # None
  <2>1. Finish(r)
    BY Zenon, <1>3 DEF OriginReply
  <2> QED BY Zenon, <1>1, <1>2, <2>1, FinishKeeps
<1>4. CASE ~(r \in {"ok", "coded"} \/ Origin # None)
  <2>1. origin' = [origin EXCEPT !.pc = "next", !.last = "uncoded"]
    BY Zenon, <1>4 DEF OriginReply
  <2>2. origin' \in Origins /\ origin'.pc = "next" /\ origin'.result = origin.result
    BY Zenon, <1>1, <2>1 DEF Origins
  <2>3. origin'.result = "ok" => applied > 0
    BY Zenon, <2>2 DEF ForwardInv, Successes
  <2> QED BY Zenon, <1>1, <1>4, <2>2, <2>3, OriginMoves
<1> QED BY Zenon, <1>3, <1>4

\* So does a broken connection at the caller.
LEMMA OriginBrokenKeeps ==
    ASSUME ForwardInv, OriginBroken \/ OriginTimeout
    PROVE  ForwardInv'
<1>1. /\ origin.pc \in {"send", "wait"} /\ origin \in Origins /\ faults' = faults + 1
      /\ UNCHANGED <<raftVars, frame, applied, hops>> /\ origin.attempt \in 0..(Attempts - 1) /\ origin.to \in Voter
  BY Zenon, OriginFields DEF OriginBroken, OriginTimeout, rest, ForwardInv, Tree
<1>2. CASE OriginTimeout
  <2>1. Finish("coded") /\ "coded" \in Reply
    BY Zenon, <1>2 DEF OriginTimeout, Reply
  <2> QED BY Zenon, <1>1, <2>1, FinishKeeps
<1>3. CASE origin.attempt + 1 < Attempts /\ origin' = [origin EXCEPT !.pc = "send", !.attempt = @ + 1]
  <2> DEFINE a == origin.attempt + 1
  <2>1. a \in 0..(Attempts - 1)
    BY <1>1, <1>3 DEF Attempts
  <2>2. origin' = [origin EXCEPT !.pc = "send", !.attempt = a]
    BY Zenon, <1>3
  <2> HIDE DEF a
  <2>3. origin' \in Origins /\ origin'.pc = "send" /\ origin'.to = origin.to /\ origin'.result = origin.result
    BY Zenon, <1>1, <2>1, <2>2 DEF Origins
  <2>4. origin'.result = "ok" => applied > 0
    BY Zenon, <2>3 DEF ForwardInv, Successes
  <2> QED BY Zenon, <1>1, <2>3, <2>4, OriginMoves
<1>4. CASE origin' = [origin EXCEPT !.pc = "next", !.last = "uncoded"]
  <2>1. origin' \in Origins /\ origin'.pc = "next" /\ origin'.result = origin.result
    BY Zenon, <1>1, <1>4 DEF Origins
  <2>2. origin'.result = "ok" => applied > 0
    BY Zenon, <2>1 DEF ForwardInv, Successes
  <2> QED BY Zenon, <1>1, <2>1, <2>2, OriginMoves
<1> QED BY Zenon, <1>2, <1>3, <1>4 DEF OriginBroken

\* The invariant holds at the start.
LEMMA ForwardInit ==
    ASSUME Init
    PROVE  ForwardInv
<1>1. PICK l \in Voter : /\ term = [v \in Voter |-> 1]
                         /\ leads = [v \in Voter |-> v = l]
                         /\ \E informed \in SUBSET Voter :
                                knows = [v \in Voter |-> IF v = l \/ v \in informed THEN l ELSE None]
  BY Zenon DEF Init
<1>2. frame = <<>> /\ applied = 0 /\ faults = 0 /\ hops = {} /\ Frame = {}
  BY DEF Init, Frame
<1>3. PICK start \in Voter :
           origin = [pc |-> "next", i |-> 0, start |-> start, attempt |-> 0, to |-> None,
                     child |-> None, last |-> "uncoded", result |-> "pending"]
  BY Zenon DEF Init
<1>4. PICK informed \in SUBSET Voter :
          knows = [v \in Voter |-> IF v = l \/ v \in informed THEN l ELSE None]
  BY Zenon, <1>1
<1>5. ForwardTypes
  <2>1. 1 \in 1..MaxTerm /\ 0 \in 0..(Attempts - 1)
    BY ForwardAssumption DEF Attempts
  <2>2. origin \in Origins
    BY Zenon, <1>3, <2>1 DEF Origins, None
  <2>3. term \in [Voter -> 1..MaxTerm] /\ leads \in [Voter -> BOOLEAN]
    BY Zenon, <1>1, <2>1
  <2>4. knows \in [Voter -> Voter \cup {None}]
    BY Zenon, <1>4
  <2>5. frame \in Seq(Frames) /\ hops \subseteq Frame \X (1..MaxTerm) /\ applied \in Nat /\ faults \in Nat
    BY <1>2
  <2> QED BY Zenon, <2>2, <2>3, <2>4, <2>5 DEF ForwardTypes
<1>6. Tree /\ Successes
  BY Zenon, <1>2, <1>3 DEF Tree, Successes
<1>7. Counted
  <2>1. Chances = {0}
    BY Zenon, <1>2, <1>3 DEF Chances
  <2>2. Cardinality({0}) = 1
    BY Zenon, FS_Singleton
  <2> QED BY <1>2, <2>1, <2>2 DEF Counted
<1>8. Leaders
  <2>1. ASSUME NEW v \in Voter, knows[v] # None PROVE Won(knows[v], term[v])
    <3>1. knows[v] = l /\ term[v] = 1 /\ term[l] = 1 /\ leads[l]
      BY Zenon, <1>1, <1>4, <2>1
    <3>2. \A w \in Voter : leads[w] => w = l
      BY Zenon, <1>1
    <3> QED BY <3>1, <3>2 DEF Won
  <2>2. \A v \in Voter : leads[v] => knows[v] = v
    BY Zenon, <1>1, <1>4
  <2> QED BY Zenon, <2>1, <2>2 DEF Leaders
<1>9. Passed
  BY Zenon, <1>2 DEF Passed, HopsFollowElections
<1> QED BY Zenon, <1>5, <1>6, <1>7, <1>8, <1>9 DEF ForwardInv

\* A step that changes nothing keeps it.
LEMMA ForwardStutter ==
    ASSUME ForwardInv, UNCHANGED vars
    PROVE  ForwardInv'
<1> USE DEF vars
<1>1. ForwardTypes' /\ Tree' /\ Successes'
  BY Zenon DEF ForwardInv, ForwardTypes, Tree, Successes, Frame
<1>2. Chances' = Chances
  BY Zenon DEF Chances, Live, Awaited, Frame
<1>3. Counted'
  BY Zenon, <1>2 DEF Counted, ForwardInv
<1>4. Leaders'
  BY Zenon DEF ForwardInv, Leaders, Won
<1>5. Passed'
  BY Zenon DEF ForwardInv, Passed, Won, HopsFollowElections, Frame
<1> QED BY Zenon, <1>1, <1>3, <1>4, <1>5 DEF ForwardInv

\* Every step keeps it.
LEMMA ForwardStep ==
    ASSUME ForwardInv, [Next]_vars
    PROVE  ForwardInv'
<1>1. CASE \E v \in Voter : Elect(v) \/ Forget(v) \/ \E w \in Voter : Hear(v, w)
  BY Zenon, <1>1, RaftKeeps
<1>2. ASSUME NEW f \in Frame, Handler(f) \/ ProxyBroken(f) \/ ProxyTimeout(f) PROVE ForwardInv'
  BY Zenon, <1>2, CallLeaderKeeps, ProxyKeeps, ProxyReplyKeeps, ExecuteKeeps, ApplyWriteKeeps, ProxyBrokenKeeps DEF Handler
<1>3. CASE OriginStep
  BY Zenon, <1>3, NextVoterKeeps, ForwardToLeaderKeeps, OriginSendKeeps, OriginReplyKeeps DEF OriginStep
<1>4. CASE OriginBroken \/ OriginTimeout
  BY Zenon, <1>4, OriginBrokenKeeps
<1>5. CASE UNCHANGED vars
  BY Zenon, <1>5, ForwardStutter
<1> QED BY Zenon, <1>1, <1>2, <1>3, <1>4, <1>5 DEF Next

\* It holds throughout.
LEMMA ForwardInvHolds == Spec => []ForwardInv
<1>1. Init => ForwardInv
  BY Zenon, ForwardInit
<1>2. ForwardInv /\ [Next]_vars => ForwardInv'
  BY Zenon, ForwardStep
<1> QED BY <1>1, <1>2, PTL DEF Spec

\* The caller of DB.Query is told that its write succeeded only when the
\* statement was applied, over any number of voters, elections, requests passed
\* on, broken connections and timeouts.
THEOREM SuccessMeansApplied == Spec => []SuccessApplied
<1>1. ForwardInv => SuccessApplied
  BY Zenon DEF ForwardInv, Successes, SuccessApplied
<1> QED BY <1>1, ForwardInvHolds, PTL

\* A statement is applied again only after a broken connection, an early
\* timeout or a lost leadership, and at most once for each.
THEOREM DuplicatesBounded == Spec => []DuplicatesExplained
<1>1. ForwardInv => DuplicatesExplained
  <2> SUFFICES ASSUME ForwardInv PROVE DuplicatesExplained
    BY Zenon
  <2>1. IsFiniteSet(Chances)
    BY Zenon, ChancesFinite DEF ForwardInv
  <2>2. Cardinality(Chances) \in Nat
    BY Zenon, <2>1, FS_CardinalityType
  <2>3. applied \in Nat /\ faults \in Nat /\ applied + Cardinality(Chances) <= 1 + faults
    BY Zenon DEF ForwardInv, ForwardTypes, Counted
  <2> QED BY <2>2, <2>3 DEF DuplicatesExplained
<1> QED BY <1>1, ForwardInvHolds, PTL

\* A request that is passed on again is passed on in a newer term: it meets at
\* most one more voter for each election, and never goes in circles.
THEOREM HopsBounded == Spec => []HopsFollowElections
<1>1. ForwardInv => HopsFollowElections
  BY Zenon DEF ForwardInv, Passed
<1> QED BY <1>1, ForwardInvHolds, PTL
==============================================================================
