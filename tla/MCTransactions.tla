--------------------------- MODULE MCTransactions ---------------------------
(* Two clients on one database.  They issue single statements (Isolation),  *)
(* or they call Update and View with functions of several queries (Tx, on a *)
(* store of its own).                                                       *)
EXTENDS Tx

CONSTANTS a, b

Setting(engine, schema, statements) == [engine |-> engine, schema |-> schema, statements |-> statements]

Creates == {<<"create", v>> : v \in Value}
Merges == {<<"merge", v>> : v \in Value}
Sets == {<<"set", n, v>> : n \in 1..2, v \in Value}
Deletes == {<<"delete", n>> : n \in 1..3}
Connects == {<<"create", a>>, <<"disconnect", 1>>} \cup {<<"connect", n, m>> : n, m \in 1..2}
              \cup {<<kind, n>> : kind \in {"delete", "detach"}, n \in 1..2}
Definitions == {<<"createIndex">>, <<"dropIndex">>, <<"createConstraint">>, <<"dropConstraint">>}

\* Node statements on Badger under a unique constraint.
UniqueNodes == Setting("badger", "unique", Creates \cup Merges \cup Sets \cup Deletes)
\* MERGE and DELETE on Badger, without an index.
Merging == Setting("badger", "none", {<<"merge", a>>} \cup Deletes)
\* Nodes and edges on Badger.
Connecting == Setting("badger", "none", Connects)
\* Nodes, edges and an index on Badger, where no node is deleted.
Linking == Setting("badger", "index", {<<"create", a>>, <<"set", 1, b>>, <<"connect", 1, 2>>, <<"disconnect", 1>>})
\* Every kind of statement on bbolt.
Locked == Setting("bolt", "none", Connects \cup Definitions \cup {<<"merge", a>>, <<"set", 1, a>>, <<"set", 2, a>>})

\* Index and constraint statements beside node statements on Badger.
Redefining == Setting("badger", "none", {<<"create", a>>} \cup Definitions)

\* No single statements: the clients call Update and View.
Calling == Setting("badger", "none", {})

Serializable == {UniqueNodes, Merging, Linking, Locked, Calling}
Phantoms == {Connecting}
SchemaPhantoms == {Redefining}

MCInit == Init /\ TxInit

\* Which of the two the clients do; the other one stays as it starts.
Queries == setting # Calling

MCNext ==
    \/ Queries /\ Next /\ UNCHANGED txVars
    \/ ~Queries /\ TxNext /\ UNCHANGED vars

MCSpec == MCInit /\ [][MCNext]_<<vars, txVars>>
=============================================================================
