----------------------------- MODULE MCCluster -----------------------------
(* Two interchangeable voters, in the situations that the properties are    *)
(* about.                                                                   *)
EXTENDS Cluster, TLC

CONSTANTS n1, n2, x, y

Voters == {n1, n2}
Symmetry == Permutations(Voters)

Basic == [terms |-> 2, writes |-> 2, keys |-> {x}, reads |-> 0, entries |-> {}, restarts |-> 0,
          snapshots |-> FALSE, loadFails |-> FALSE, failures |-> 0]

\* A write while leadership goes back and forth.
Leaderships == [Basic EXCEPT !.terms = 3, !.writes = 1]
\* A write, and a read the RPC handler serves.
HandledRead == [Basic EXCEPT !.writes = 1, !.reads = 1, !.entries = {"rpc"}]
\* The same through DB.Query, with one leadership.
LocalRead == [HandledRead EXCEPT !.terms = 1, !.entries = {"query"}]
\* Snapshots sent to the other voter.
Sending == [Basic EXCEPT !.writes = 1, !.snapshots = TRUE]
\* A restart of one leadership, with snapshots or without, and loads that fail.
Restarts == [Basic EXCEPT !.terms = 1, !.keys = {x, y}, !.restarts = 1, !.snapshots = TRUE, !.loadFails = TRUE]

Twice == [Restarts EXCEPT !.keys = {x}, !.restarts = 2]

\* An entry that one voter fails to apply, with a restart.
Failing == [Restarts EXCEPT !.keys = {x}, !.loadFails = FALSE, !.failures = 1]

Covered == {Basic, Leaderships, HandledRead, LocalRead, Sending, Restarts, Twice, Failing}

\* A read through DB.Query, with two leaderships.
QueryRead == {[HandledRead EXCEPT !.entries = {"query"}]}
=============================================================================
