------------------------------ MODULE MCRemote ------------------------------
(* Statements on their way to the leader: the connections a pool keeps      *)
(* (ConnPool), and one write forwarded by a dataless client through two     *)
(* voters or by a voter among three (Forward).  A behaviour is one of the    *)
(* four; the others stay as they start.  The properties are those of the   *)
(* two modules.                                                            *)
EXTENDS ConnPool, Forward, TLC

CONSTANTS c1, c2, c3

VARIABLES part

Callers == {c1, c2, c3}
Symmetry == Permutations(Callers)

\* The statement can be applied again, and the caller set no deadline.
Member == INSTANCE Forward WITH Voter <- 1..3, Origin <- 1, MaxFrame <- 8
\* Three leaderships, and no connection breaks.
Elections == INSTANCE Forward WITH Voter <- 1..3, Origin <- 1, MaxFrame <- 8, MaxTerm <- 3, MaxFault <- 0

\* Nothing is forwarded.
ForwardOff ==
    /\ term = <<1, 1>> /\ leads = <<TRUE, FALSE>> /\ knows = <<1, 1>> /\ frame = <<>>
    /\ origin = [pc |-> "off", result |-> "pending"]
    /\ applied = 0 /\ faults = 0 /\ hops = {}

MCInit ==
    /\ PoolInit
    /\ \/ part = "pool" /\ ForwardOff
       \/ part = "client" /\ Init
       \/ part = "member" /\ Member!Init
       \/ part = "elections" /\ Elections!Init

MCNext ==
    /\ UNCHANGED part
    /\ \/ part = "pool" /\ PoolNext /\ UNCHANGED vars
       \/ part = "client" /\ Next /\ UNCHANGED poolVars
       \/ part = "member" /\ Member!Next /\ UNCHANGED poolVars
       \/ part = "elections" /\ Elections!Next /\ UNCHANGED poolVars

MCSpec == MCInit /\ [][MCNext]_<<part, poolVars, vars>>
=============================================================================
