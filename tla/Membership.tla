----------------------------- MODULE Membership -----------------------------
(***************************************************************************)
(* How a cluster comes into being (cluster/node.go): the node that          *)
(* bootstraps starts alone, and a goroutine of that start, addVoters, makes  *)
(* the other peers voters one by one while they start, stop and time out.    *)
(* Raft itself is external: elections, replication and commitment of         *)
(* configurations, one change at a time.                                     *)
(***************************************************************************)
EXTENDS Naturals, FiniteSets

CONSTANTS Node,                \* the peers
          Boot,                \* the one started with Bootstrap
          MaxStart, MaxLoss    \* starts of each node, leaderships lost for no reason

None == 0

VARIABLES phase,    \* per node: "down", "starting" (in newNode) or "up"
          conf,     \* per node: the latest configuration of its log, {} before any
          voters,   \* the committed configuration
          leader,
          adding,   \* addVoters: where it is, the peers left of its pass
          cut,      \* its process ended before it did
          starts, losses

vars == <<phase, conf, voters, leader, adding, cut, starts, losses>>
raftVars == <<conf, voters, leader, losses>>

At(pc, todo) == [pc |-> pc, todo |-> todo]

Init ==
    /\ phase = [n \in Node |-> "down"] /\ conf = [n \in Node |-> {}] /\ voters = {}
    /\ leader = None /\ adding = At("off", {}) /\ cut = FALSE
    /\ starts = [n \in Node |-> 0] /\ losses = 0

Alive == {n \in Node : phase[n] # "down"}
Majority(S, c) == 2 * Cardinality(S \cap c) > Cardinality(c)

----------------------------------------------------------------------------
(* Raft.                                                                    *)

\* Votes of a live majority that knows no later configuration.
Elect(n) ==
    /\ leader = None /\ n \in Alive /\ n \in conf[n]
    /\ Majority({m \in Alive : conf[m] \subseteq conf[n]}, conf[n])
    /\ leader' = n
    /\ UNCHANGED <<phase, conf, voters, adding, cut, starts, losses>>

\* A leader without a majority steps down; another may lose an election.
Lose ==
    /\ leader # None
    /\ IF Majority(Alive, conf[leader]) THEN losses < MaxLoss /\ losses' = losses + 1 ELSE losses' = losses
    /\ leader' = None
    /\ UNCHANGED <<phase, conf, voters, adding, cut, starts>>

Replicate(m) ==
    /\ leader # None /\ m \in conf[leader] \cap Alive /\ conf[m] # conf[leader]
    /\ conf' = [conf EXCEPT ![m] = conf[leader]]
    /\ UNCHANGED <<phase, voters, leader, adding, cut, starts, losses>>

Commit ==
    /\ leader # None /\ voters # conf[leader]
    /\ Majority({m \in Alive : conf[m] = conf[leader]}, conf[leader])
    /\ voters' = conf[leader]
    /\ UNCHANGED <<phase, conf, leader, adding, cut, starts, losses>>

\* Leader() is not empty: a leader that counts the node in has reached it.
Led(n) == leader # None /\ n \in conf[leader] /\ conf[n] # {}

----------------------------------------------------------------------------
(* newNode and Close.                                                       *)

\* BootstrapCluster refuses when the log has a configuration, which is no error.
Bootstrap(n, flag) == flag /\ conf[n] = {}

Start(n, flag) ==
    /\ phase[n] = "down" /\ starts[n] < MaxStart[n] /\ (flag => n = Boot)
    /\ phase' = [phase EXCEPT ![n] = "starting"]
    /\ starts' = [starts EXCEPT ![n] = @ + 1]
    /\ conf' = IF Bootstrap(n, flag) THEN [conf EXCEPT ![n] = {n}] ELSE conf
    /\ adding' = IF Bootstrap(n, flag) THEN At("look", {}) ELSE adding
    /\ UNCHANGED <<voters, leader, cut, losses>>

\* waitForLeader, in time.
Open(n) ==
    /\ phase[n] = "starting" /\ Led(n)
    /\ phase' = [phase EXCEPT ![n] = "up"]
    /\ UNCHANGED <<raftVars, adding, cut, starts>>

\* Close, a crash, or waitForLeader giving up.
Stop(n) ==
    /\ phase[n] = "up" \/ (phase[n] = "starting" /\ ~Led(n))
    /\ phase' = [phase EXCEPT ![n] = "down"]
    /\ leader' = IF leader = n THEN None ELSE leader
    /\ IF n = Boot THEN adding' = At("off", {}) /\ cut' = (cut \/ adding.pc # "off")
       ELSE UNCHANGED <<adding, cut>>
    /\ UNCHANGED <<conf, voters, starts, losses>>

----------------------------------------------------------------------------
(* addVoters.                                                               *)

\* GetConfiguration: the peers that are missing from it.
Look ==
    /\ adding.pc = "look"
    /\ LET missing == Node \ (conf[Boot] \cup {Boot})
       IN adding' = IF missing = {} THEN At("off", {}) ELSE At("add", missing)
    /\ UNCHANGED <<phase, raftVars, cut, starts>>

\* AddVoter: its error is ignored.  Only a leader takes it, and not while the
\* change before is uncommitted.
AddVoter(p) ==
    /\ adding.pc = "add" /\ p \in adding.todo
    /\ \/ /\ leader = Boot /\ voters = conf[Boot]
          /\ conf' = [conf EXCEPT ![Boot] = @ \cup {p}]
          /\ adding' = At("added", adding.todo \ {p})
       \/ /\ leader # Boot \/ voters # conf[Boot]
          /\ conf' = conf
          /\ adding' = At("add", adding.todo \ {p})
    /\ UNCHANGED <<phase, voters, leader, cut, starts, losses>>

\* The future answers: committed, or the leadership is lost.
Added ==
    /\ adding.pc = "added" /\ (leader # Boot \/ voters = conf[Boot])
    /\ adding' = At("add", adding.todo)
    /\ UNCHANGED <<phase, raftVars, cut, starts>>

\* Mutant of AfterPass: every peer has been tried, that is all.
AfterPass_Done == "off"

\* Some peer was missing: look again after addVoterInterval.
AfterPass == "look"

EndPass ==
    /\ adding.pc = "add" /\ adding.todo = {}
    /\ adding' = At(AfterPass, {})
    /\ UNCHANGED <<phase, raftVars, cut, starts>>

Next ==
    \/ \E n \in Node : Elect(n) \/ Replicate(n) \/ Open(n) \/ Stop(n) \/ AddVoter(n)
    \/ \E n \in Node, flag \in BOOLEAN : Start(n, flag)
    \/ Lose \/ Commit \/ Look \/ Added \/ EndPass

\* The goroutine goes on when it can, and Raft elects, replicates and commits.
Fairness ==
    /\ WF_vars(Look \/ Added \/ EndPass \/ \E p \in Node : AddVoter(p))
    /\ WF_vars(\E n \in Node : Elect(n)) /\ WF_vars(\E n \in Node : Replicate(n)) /\ WF_vars(Commit)

Spec == Init /\ [][Next]_vars /\ Fairness

----------------------------------------------------------------------------
\* A voter is never lost: configurations only grow, whatever the flag of a
\* restart says ("On restart Bootstrap is ignored").
VotersKept == [][voters \subseteq voters']_vars

\* The cluster is formed: when the bootstrapping process lasts, leads again and
\* again, and the peers are there in the end, all become voters, whatever calls of
\* AddVoter failed before ("retrying until every peer is a member").
Forms ==
    <>[](Alive = Node) /\ []<>(leader = Boot) /\ []~cut => <>(voters = Node)

\* The same of every run in which the peers are there in the end ("Exactly one node
\* bootstraps; it then adds the other voters from Peers").
FormsWhenever == <>[](Alive = Node) => <>(voters = Node)
=============================================================================
