------------------------------ MODULE Forward ------------------------------
(***************************************************************************)
(* Forwarding (cluster/forward.go, client.go, and call in pool.go): one    *)
(* write statement on its way from a dataless client, or from a voter, to  *)
(* the leader.                                                             *)
(*                                                                         *)
(* An RPC in progress is a frame: the voter that serves it, the frame that *)
(* waits for it (0 for the origin), and where its handler is.  A caller    *)
(* that stops waiting does not stop the handler.  Raft is external: each   *)
(* voter has a term, may lead in it, and may know its leader.              *)
(***************************************************************************)
EXTENDS Integers, Sequences, FiniteSets

CONSTANTS Voter,          \* 1..n; client.peers in this order
          Origin,         \* the voter that forwards, or None (0) for a dataless client
          Unique,         \* whether the statement can succeed only once
          Deadline,       \* whether the caller set one
          MaxTerm,        \* bound on elections
          MaxFrame,       \* bound on RPCs
          MaxFault        \* bound on connections that break and waits that time out

None == 0
Attempts == 2

\* A cluster has voters, numbered in the order of Peers; one of them forwards,
\* or none does.
ASSUME ForwardAssumption ==
    /\ Voter = 1..Cardinality(Voter) /\ Cardinality(Voter) \in Nat \ {0}
    /\ Origin \in Voter \cup {None}
    /\ Unique \in BOOLEAN /\ Deadline \in BOOLEAN
    /\ MaxTerm \in Nat \ {0} /\ MaxFrame \in Nat /\ MaxFault \in Nat

VARIABLES term, leads, knows,   \* per voter: term, whether it leads, its leader
          frame,                \* the RPCs made so far
          origin,               \* the caller of DB.Query
          applied,              \* times the statement was applied
          faults,               \* breaks, timeouts and lost leaderships so far
          hops                  \* history: <<term of the sender, term of the receiver>>

raftVars == <<term, leads, knows>>
vars == <<term, leads, knows, frame, origin, applied, faults, hops>>

Reply == {"ok", "coded", "uncoded"}
Frame == 1..Len(frame)

Init ==
    /\ \E l \in Voter :
           /\ term = [v \in Voter |-> 1]
           /\ leads = [v \in Voter |-> v = l]
           /\ \E informed \in SUBSET Voter :
                  knows = [v \in Voter |-> IF v = l \/ v \in informed THEN l ELSE None]
    /\ frame = <<>>
    /\ \E start \in Voter :
           origin = [pc |-> "next", i |-> 0, start |-> start, attempt |-> 0, to |-> None,
                     child |-> None, last |-> "uncoded", result |-> "pending"]
    /\ applied = 0 /\ faults = 0 /\ hops = {}

----------------------------------------------------------------------------
(* Raft.                                                                   *)

newest == CHOOSE t \in 1..MaxTerm : (\E v \in Voter : term[v] = t) /\ \A v \in Voter : term[v] <= t

\* A voter wins a new term; the ones that voted for it know of the term.
Elect(v) ==
    /\ newest < MaxTerm /\ ~leads[v]
    /\ \E voters \in SUBSET Voter :
           /\ v \in voters /\ 2 * Cardinality(voters) > Cardinality(Voter)
           /\ term' = [w \in Voter |-> IF w \in voters THEN newest + 1 ELSE term[w]]
           /\ leads' = [w \in Voter |-> IF w \in voters THEN w = v ELSE leads[w]]
           /\ knows' = [w \in Voter |-> IF w \in voters THEN (IF w = v THEN v ELSE None) ELSE knows[w]]
    /\ UNCHANGED <<frame, origin, applied, faults, hops>>

\* A heartbeat from the leader of a term that is not older.
Hear(v, w) ==
    /\ leads[w] /\ v # w /\ term[w] >= term[v]
    /\ term' = [term EXCEPT ![v] = term[w]]
    /\ leads' = [leads EXCEPT ![v] = FALSE]
    /\ knows' = [knows EXCEPT ![v] = w]
    /\ UNCHANGED <<frame, origin, applied, faults, hops>>

\* A leader without a quorum steps down, a follower without heartbeats
\* forgets its leader.
Forget(v) ==
    /\ knows[v] # None
    /\ leads' = [leads EXCEPT ![v] = FALSE]
    /\ knows' = [knows EXCEPT ![v] = None]
    /\ UNCHANGED <<term, frame, origin, applied, faults, hops>>

----------------------------------------------------------------------------
(* connPool.call, for the origin and for a proxying handler.  A caller     *)
(* has `to`, `attempt` and `child`.                                        *)

\* net/rpc carries the request to voter v: a new frame for the caller p.
Send(p, v) ==
    /\ Len(frame) < MaxFrame
    /\ frame' = Append(IF p = 0 THEN frame
                       ELSE [frame EXCEPT ![p].pc = "wait", ![p].child = Len(frame) + 1],
                       [at |-> v, parent |-> p, pc |-> "start", attempt |-> 0, to |-> None,
                        child |-> None, reply |-> "uncoded"])

\* The proxied reply becomes the handler's own.
EndFrame(f, reply) == frame' = [frame EXCEPT ![f].pc = "done", ![f].reply = reply]

----------------------------------------------------------------------------
(* forwardService.Query.                                                   *)

frameOnly == <<raftVars, origin>>

\* Mutant of callLeader: a voter that knows no leader asks its neighbour.
callLeader_AnyPeer(f) ==
    LET v == frame[f].at
    IN /\ frame[f].pc = "start" /\ ~leads[v]
       /\ LET w == IF knows[v] = None THEN CHOOSE w \in Voter : w # v ELSE knows[v]
          IN /\ frame' = [frame EXCEPT ![f].pc = "send", ![f].to = w]
             /\ hops' = hops \cup {<<f, term[v]>>}
       /\ UNCHANGED <<raftVars, origin, applied, faults>>

\* A voter that does not lead asks the leader it knows of.
callLeader(f) ==
    LET v == frame[f].at
    IN /\ frame[f].pc = "start" /\ ~leads[v]
       /\ IF knows[v] = None
          THEN EndFrame(f, "uncoded") /\ UNCHANGED hops
          ELSE /\ frame' = [frame EXCEPT ![f].pc = "send", ![f].to = knows[v]]
               /\ hops' = hops \cup {<<f, term[v]>>}
       /\ UNCHANGED <<raftVars, origin, applied, faults>>

Proxy(f) ==
    /\ frame[f].pc = "send"
    /\ Send(f, frame[f].to)
    /\ UNCHANGED <<raftVars, origin, applied, faults, hops>>

\* Mutant of ProxyReply: an error of the leader is not copied.
ProxyReply_Dropped(f) ==
    /\ frame[f].pc = "wait" /\ frame[frame[f].child].pc = "done"
    /\ EndFrame(f, "ok")
    /\ UNCHANGED <<raftVars, origin, applied, faults, hops>>

ProxyReply(f) ==
    /\ frame[f].pc = "wait" /\ frame[frame[f].child].pc = "done"
    /\ EndFrame(f, frame[frame[f].child].reply)
    /\ UNCHANGED <<raftVars, origin, applied, faults, hops>>

\* The leader cannot be dialled, or the connection to it breaks: then call
\* tries once more.
ProxyBroken(f) ==
    /\ frame[f].pc \in {"send", "wait"} /\ faults < MaxFault
    /\ faults' = faults + 1
    /\ IF frame[f].pc = "wait" /\ frame[f].attempt + 1 < Attempts
       THEN frame' = [frame EXCEPT ![f].pc = "send", ![f].attempt = @ + 1]
       ELSE EndFrame(f, "uncoded")
    /\ UNCHANGED <<raftVars, origin, applied, hops>>

\* The proxy's context ends: the caller's deadline, which keeps its code, or
\* the voter's own timeout, which has none.
ProxyTimeout(f) ==
    /\ frame[f].pc \in {"send", "wait"} /\ faults < MaxFault
    /\ faults' = faults + 1
    /\ EndFrame(f, IF Deadline THEN "coded" ELSE "uncoded")
    /\ UNCHANGED <<raftVars, origin, applied, hops>>

\* The leader runs the statement through ApplyWrite: not leading any more;
\* past the deadline or refused while staging; leadership lost while
\* replicating, in which case the entry may or may not commit; applied.
Execute(f) ==
    /\ frame[f].pc = "start" /\ leads[frame[f].at]
    /\ frame' = [frame EXCEPT ![f].pc = "exec"]
    /\ UNCHANGED <<raftVars, origin, applied, faults, hops>>

Refused == Unique /\ applied > 0

ApplyWrite(f) ==
    /\ frame[f].pc = "exec"
    /\ \/ ~leads[frame[f].at] /\ EndFrame(f, "uncoded") /\ UNCHANGED <<applied, faults>>
       \/ (Refused \/ Deadline) /\ EndFrame(f, "coded") /\ UNCHANGED <<applied, faults>>
       \/ /\ ~Refused /\ faults < MaxFault
          /\ faults' = faults + 1
          /\ applied' \in {applied, applied + 1}
          /\ EndFrame(f, "uncoded")
       \/ /\ ~Refused /\ leads[frame[f].at] /\ term[frame[f].at] = newest
          /\ applied' = applied + 1
          /\ EndFrame(f, "ok")
          /\ UNCHANGED faults
    /\ UNCHANGED <<raftVars, origin, hops>>

----------------------------------------------------------------------------
(* The origin: client.Forward, or forward on a voter.                      *)

rest == <<raftVars, applied, hops>>

Finish(result) == origin' = [origin EXCEPT !.pc = "done", !.result = result]

\* The next peer, starting after the last one used, each at most once.
NextVoter ==
    /\ origin.pc = "next" /\ Origin = None
    /\ IF origin.i < Cardinality(Voter)
       THEN origin' = [origin EXCEPT !.pc = "send", !.i = @ + 1, !.attempt = 0,
                                     !.to = ((origin.start + origin.i) % Cardinality(Voter)) + 1]
       ELSE Finish(origin.last)
    /\ UNCHANGED <<rest, frame, faults>>

\* A voter that forwards its own query asks its leader directly, or fails.
ForwardToLeader ==
    /\ origin.pc = "next" /\ Origin # None
    /\ IF origin.i = 0 /\ knows[Origin] # None
       THEN origin' = [origin EXCEPT !.pc = "send", !.i = 1, !.to = knows[Origin]]
       ELSE Finish(origin.last)
    /\ UNCHANGED <<rest, frame, faults>>

OriginSend ==
    /\ origin.pc = "send"
    /\ Send(0, origin.to)
    /\ origin' = [origin EXCEPT !.pc = "wait", !.child = Len(frame) + 1]
    /\ UNCHANGED <<rest, faults>>

\* Mutant of OriginReply: the client takes an answer for good only when it
\* carries an error code.
OriginReply_Again ==
    /\ origin.pc = "wait" /\ frame[origin.child].pc = "done"
    /\ LET reply == frame[origin.child].reply
       IN IF reply = "coded" \/ Origin # None THEN Finish(reply)
          ELSE origin' = [origin EXCEPT !.pc = "next", !.last = reply]
    /\ UNCHANGED <<rest, frame, faults>>

\* An answer with an error that has no code sends the client to the next peer.
OriginReply ==
    /\ origin.pc = "wait" /\ frame[origin.child].pc = "done"
    /\ LET reply == frame[origin.child].reply
       IN IF reply \in {"ok", "coded"} \/ Origin # None THEN Finish(reply)
          ELSE origin' = [origin EXCEPT !.pc = "next", !.last = "uncoded"]
    /\ UNCHANGED <<rest, frame, faults>>

OriginBroken ==
    /\ origin.pc \in {"send", "wait"} /\ faults < MaxFault
    /\ faults' = faults + 1
    /\ origin' = IF origin.pc = "wait" /\ origin.attempt + 1 < Attempts THEN [origin EXCEPT !.pc = "send", !.attempt = @ + 1]
                 ELSE [origin EXCEPT !.pc = "next", !.last = "uncoded"]
    /\ UNCHANGED <<rest, frame>>

OriginTimeout ==
    /\ origin.pc \in {"send", "wait"} /\ Deadline /\ faults < MaxFault
    /\ faults' = faults + 1
    /\ Finish("coded")
    /\ UNCHANGED <<rest, frame>>

Handler(f) ==
    \/ callLeader(f) \/ Proxy(f) \/ ProxyReply(f) \/ Execute(f) \/ ApplyWrite(f)
OriginStep == NextVoter \/ ForwardToLeader \/ OriginSend \/ OriginReply

Next ==
    \/ \E v \in Voter : Elect(v) \/ Forget(v) \/ \E w \in Voter : Hear(v, w)
    \/ \E f \in Frame : Handler(f) \/ ProxyBroken(f) \/ ProxyTimeout(f)
    \/ OriginStep \/ OriginBroken \/ OriginTimeout

\* Handlers and callers that can go on do.
Fairness ==
    /\ WF_vars(OriginStep)
    /\ \A f \in 1..MaxFrame : WF_vars(f \in Frame /\ Handler(f))

Spec == Init /\ [][Next]_vars /\ Fairness

----------------------------------------------------------------------------
TypeOK ==
    /\ term \in [Voter -> 1..MaxTerm] /\ leads \in [Voter -> BOOLEAN] /\ knows \in [Voter -> Voter \cup {None}]
    /\ \A f \in Frame : /\ frame[f].at \in Voter /\ frame[f].parent \in 0..(f - 1)
                        /\ frame[f].reply \in Reply /\ frame[f].attempt < Attempts
    /\ origin.result \in Reply \cup {"pending"}

\* The caller of DB.Query is told that its write succeeded only when it did.
SuccessApplied == origin.result = "ok" => applied > 0

\* A request that a voter passes on reaches a voter that will only pass it on
\* itself if it knows a newer leader: requests do not go in circles, and the
\* voters they pass through are at most as many as the elections.
HopsFollowElections ==
    \A h \in hops : frame[h[1]].parent # 0 =>
        \A g \in hops : g[1] = frame[h[1]].parent => h[2] > g[2]

\* A statement is applied a second time only after a connection broke, a
\* wait ended early or a leadership was lost, once for each of these.
DuplicatesExplained == applied <= 1 + faults

\* docs/adr/0007: one Cypher write statement = one Raft log entry = one
\* atomic apply.
AppliedOnce == applied <= 1

\* client.Forward, "a definite answer": a statement that may be applied only
\* once and is refused was not applied.
DefiniteAnswer == Unique /\ ~Deadline /\ origin.result = "coded" => applied = 0

\* The caller gets an answer.
Answered == <>(origin.pc = "done")
=============================================================================
