----------------------------- MODULE MCProgress -----------------------------
(* Every call returns: statements on a local store (Isolation), writes and  *)
(* linearizable reads on a voter (Cluster), forwarded writes (Forward) and   *)
(* shortest-path searches (ShortestPath); and a cluster is formed            *)
(* (Membership).  A behaviour is one of the five.                            *)
(* The others are in a state in which nothing they are fair about can        *)
(* happen, so fairness is the one of the part that runs.                     *)
EXTENDS Integers

CONSTANTS x, Absent, Client, Value, Node, Key, maxRetries

VARIABLES part,
          setting, store, txn,
          bound, committed, term, leader, tail, tailAt, applied, reached, replica, missed, snap, restore,
          writer, barrierTerm, reader, acked, ackedAt, restarts, reads, failures,
          voterTerm, leads, knows, frame, origin, times, faults, hops,
          edge, spec, fwd, bwd, done, paths,
          phase, conf, voters, chief, adding, cut, starts, losses

isolationVars == <<setting, store, txn>>
clusterVars == <<bound, committed, term, leader, tail, tailAt, applied, reached, replica, missed, snap, restore,
                 writer, barrierTerm, reader, acked, ackedAt, restarts, reads, failures>>
forwardVars == <<voterTerm, leads, knows, frame, origin, times, faults, hops>>
searchVars == <<edge, spec, fwd, bwd, done, paths>>
memberVars == <<phase, conf, voters, chief, adding, cut, starts, losses>>

\* Node statements of two clients on Badger under a unique constraint.
NodeStatements ==
    {<<"create", v>> : v \in Value} \cup {<<"merge", v>> : v \in Value} \cup {<<"set", n, v>> : n \in 1..2, v \in Value}
        \cup {<<"delete", n>> : n \in 1..2}
Conflicting == [engine |-> "badger", schema |-> "unique", statements |-> NodeStatements]

\* A write and a read over two leaderships.
Write == [terms |-> 2, writes |-> 1, keys |-> {x}, reads |-> 0, entries |-> {}, restarts |-> 0,
          snapshots |-> FALSE, loadFails |-> FALSE, failures |-> 0]
Read == [Write EXCEPT !.writes = 0, !.reads = 1, !.entries = {"query"}]

I == INSTANCE Isolation WITH Settings <- {Conflicting}, MaxNode <- 2, MaxEdge <- 0
C == INSTANCE Cluster WITH store <- replica, Bounds <- {Write, Read}
\* A client with a deadline, and a statement that can be applied once.
F == INSTANCE Forward
    WITH term <- voterTerm, applied <- times, Voter <- 1..2, Origin <- 0, Unique <- TRUE, Deadline <- TRUE,
         MaxTerm <- 2, MaxFrame <- 8, MaxFault <- 1
S == INSTANCE ShortestPath
    WITH Node <- 1..4, MaxEdge <- 3, HopBounds <- {-1}, Ends <- {<<1, 2>>}
\* Two processes may start again; a leadership is lost with its majority.
M == INSTANCE Membership WITH Node <- 1..3, Boot <- 1, MaxStart <- <<2, 2, 1>>, MaxLoss <- 0, leader <- chief

----------------------------------------------------------------------------
IsolationOff == I!Init
ClusterOff ==
    /\ bound = Read /\ committed = <<>> /\ term = [n \in Node |-> 1] /\ leader = [n \in Node |-> FALSE]
    /\ tail = [n \in Node |-> <<>>] /\ tailAt = [n \in Node |-> 0]
    /\ applied = [n \in Node |-> 0] /\ reached = [n \in Node |-> 0] /\ replica = [n \in Node |-> C!Empty]
    /\ missed = [n \in Node |-> {}] /\ failures = 0
    /\ snap = [n \in Node |-> C!NoSnap] /\ restore = [n \in Node |-> "no"]
    /\ writer = [n \in Node |-> C!IdleWriter] /\ barrierTerm = [n \in Node |-> 0]
    /\ reader = [n \in Node |-> C!IdleReader] /\ acked = {} /\ ackedAt = 0 /\ restarts = 0 /\ reads = 0
ForwardOff ==
    /\ voterTerm = <<1, 1>> /\ leads = <<TRUE, FALSE>> /\ knows = <<1, 1>> /\ frame = <<>>
    /\ origin = [pc |-> "off"] /\ times = 0 /\ faults = 0 /\ hops = {}
SearchOff ==
    /\ edge = <<<<1, 1>>, <<1, 1>>, <<1, 1>>>>
    /\ spec = [all |-> FALSE] /\ fwd = <<>> /\ bwd = <<>> /\ done = TRUE /\ paths = {}

\* Voters are interchangeable: one of them leads first, or is asked first.
First == CHOOSE n \in Node : TRUE

\* Which relationship has which identifier makes no difference to the search.
Ordered == \A i \in 1..2 : 4 * edge[i][1] + edge[i][2] <= 4 * edge[i + 1][1] + edge[i + 1][2]

MCInit ==
    \/ part = "statement" /\ I!Init /\ ClusterOff /\ ForwardOff /\ SearchOff /\ M!Init
    \/ part = "cluster" /\ IsolationOff /\ C!Init /\ leader[First] /\ ForwardOff /\ SearchOff /\ M!Init
    \/ part = "forward" /\ IsolationOff /\ ClusterOff /\ F!Init /\ origin.start = 1 /\ SearchOff /\ M!Init
    \/ part = "search" /\ IsolationOff /\ ClusterOff /\ ForwardOff /\ S!Init /\ Ordered /\ M!Init
    \/ part = "members" /\ IsolationOff /\ ClusterOff /\ ForwardOff /\ SearchOff /\ M!Init

MCNext ==
    /\ UNCHANGED part
    /\ \/ part = "statement" /\ I!Next /\ UNCHANGED <<clusterVars, forwardVars, searchVars, memberVars>>
       \/ part = "cluster" /\ C!Next /\ UNCHANGED <<isolationVars, forwardVars, searchVars, memberVars>>
       \/ part = "forward" /\ F!Next /\ UNCHANGED <<isolationVars, clusterVars, searchVars, memberVars>>
       \/ part = "search" /\ S!Next /\ UNCHANGED <<isolationVars, clusterVars, forwardVars, memberVars>>
       \/ part = "members" /\ M!Next /\ UNCHANGED <<isolationVars, clusterVars, forwardVars, searchVars>>

MCSpec ==
    /\ MCInit /\ [][MCNext]_<<part, isolationVars, clusterVars, forwardVars, searchVars, memberVars>>
    /\ I!Fairness /\ C!Fairness /\ F!Fairness /\ S!Fairness /\ M!Fairness

----------------------------------------------------------------------------
(* The properties of the five modules (see there).                         *)

\* Whatever conflicts, elections and faults do, a statement in Update ends
\* (Store.Update), and so do ApplyWrite, a linearizable read (ReadBarrier,
\* DB.Query) and a forwarded write (client.Forward).
CallsReturn ==
    /\ part = "statement" => I!StatementsEnd
    /\ part = "cluster" => C!WritesEnd /\ C!ReadsEnd
    /\ part = "forward" => F!Answered

\* The bidirectional search comes to an end (ShortestPaths).
SearchEnds == part = "search" => S!SearchEnds

\* A cluster whose bootstrapping process lasts and leads gets all its voters,
\* whatever calls of AddVoter failed, and no voter is ever lost (newNode,
\* addVoters).
ClusterForms == (part = "members" => M!Forms) /\ M!VotersKept
=============================================================================
