------------------------------- MODULE Schema -------------------------------
(***************************************************************************)
(* The catalog and the schema statements: name dictionaries, the registries *)
(* of indexes and constraints with the names they are known by, and the     *)
(* format marker that keeps older builds out.                               *)
(*                                                                         *)
(* A name is a sequence of words, the parts an underscore separates, so the *)
(* default name index_<label>_<property> is a concatenation.  One action is *)
(* one statement in its own transaction: when it fails nothing changes.     *)
(* The entries behind an index are in Graph; here CREATE CONSTRAINT fails   *)
(* on duplicate values whenever it likes.                                   *)
(***************************************************************************)
EXTENDS Naturals, Sequences

CONSTANTS Label, Type, PropName, \* names a statement uses, sequences of words
          Given             \* names a CREATE or DROP statement gives

VARIABLES dict,             \* per kind: fwd name -> id, rev id -> name, counter
          labelIndex,            \* registry X: <<label id, key id>> -> given name
          constraint,       \* registry U: <<label id, key id>> -> definition
          relIndex,         \* registry Y: <<type id, key id>> -> given name
          format,           \* the format marker; 0 before the first open
          open,             \* newest version the running build reads; 0: closed
          wanted            \* pairs whose index a CREATE INDEX statement built

schemaVars == <<dict, labelIndex, constraint, relIndex, format, open, wanted>>

formatVersion == 1
formatUnique == 2
formatRelIndex == 3
maxFormat == formatRelIndex

Kind == {"L", "T", "K"}
NamesOf(kind) == CASE kind = "L" -> Label [] kind = "T" -> Type [] kind = "K" -> PropName
NoName == <<>>

SchemaInit ==
    /\ dict = [kind \in Kind |-> [fwd |-> <<>>, rev |-> <<>>, counter |-> 0]]
    /\ labelIndex = <<>> /\ constraint = <<>> /\ relIndex = <<>>
    /\ format = 0 /\ open = 0 /\ wanted = {}

With(f, x, y) == [z \in DOMAIN f \cup {x} |-> IF z = x THEN y ELSE f[z]]
Without(f, x) == [y \in DOMAIN f \ {x} |-> f[y]]

----------------------------------------------------------------------------
(* Opening a database with a build that reads versions 1 to max.           *)

\* The marker once the database is open; 0 when it is refused.
EnsureFormat(max) ==
    IF format = 0 THEN formatVersion
    ELSE IF format \in formatVersion..max THEN format ELSE 0

OpenDB(max) ==
    /\ open = 0
    /\ EnsureFormat(max) # 0
    /\ format' = EnsureFormat(max)
    /\ open' = max
    /\ UNCHANGED <<dict, labelIndex, constraint, relIndex, wanted>>

CloseDB ==
    /\ open # 0
    /\ open' = 0
    /\ UNCHANGED <<dict, labelIndex, constraint, relIndex, format, wanted>>

\* Mutant of requireFormat: the marker is set, not raised.
requireFormat_Sets(v) == v

requireFormat(v) == IF format >= v THEN format ELSE v

----------------------------------------------------------------------------
(* Dictionaries.                                                           *)

internDict(kind, name) ==
    LET d == dict[kind]
        id == d.counter + 1
    IN IF name \in DOMAIN d.fwd THEN d
       ELSE [fwd |-> With(d.fwd, name, id), rev |-> With(d.rev, id, name), counter |-> id]

\* Interning the names of a pair, the label or type first.
Interned(kind, name, key) ==
    [dict EXCEPT ![kind] = internDict(kind, name), !["K"] = internDict("K", key)]

\* The identifiers of a pair once its names are interned.
PairOf(kind, name, key) ==
    <<internDict(kind, name).fwd[name], internDict("K", key).fwd[key]>>

revName(kind, id) == dict[kind].rev[id]

----------------------------------------------------------------------------
(* The names indexes and constraints are known by.                         *)

KnownName(kind, prefix, pair, given) ==
    IF given # NoName THEN given
    ELSE prefix \o revName(kind, pair[1]) \o revName("K", pair[2])

IndexName(p) == KnownName("L", <<"index">>, p, labelIndex[p])
RelIndexName(p) == KnownName("T", <<"rel", "index">>, p, relIndex[p])
ConstraintName(p) == KnownName("L", <<"constraint">>, p, constraint[p].name)

\* Node indexes are listed before relationship indexes, each by identifiers.
listAllIndexes ==
    {[rel |-> 0, pair |-> p, name |-> IndexName(p)] : p \in DOMAIN labelIndex}
        \cup {[rel |-> 1, pair |-> p, name |-> RelIndexName(p)] : p \in DOMAIN relIndex}

PairBefore(p, q) == p[1] < q[1] \/ (p[1] = q[1] /\ p[2] <= q[2])
ListedBefore(x, y) == x.rel < y.rel \/ (x.rel = y.rel /\ PairBefore(x.pair, y.pair))

IndexesNamed(name) == {x \in listAllIndexes : x.name = name}
findAnyIndex(name) == CHOOSE x \in IndexesNamed(name) :
                        \A y \in IndexesNamed(name) : ListedBefore(x, y)

ConstraintsNamed(name) == {p \in DOMAIN constraint : ConstraintName(p) = name}
findConstraint(name) == CHOOSE p \in ConstraintsNamed(name) :
                          \A q \in ConstraintsNamed(name) : PairBefore(p, q)

----------------------------------------------------------------------------
(* Statements.  Those that would change nothing, because they fail or find  *)
(* what they ask for, are not steps.                                        *)

\* A write of data interns the names it uses.
Intern(kind, name) ==
    /\ open # 0
    /\ dict' = [dict EXCEPT ![kind] = internDict(kind, name)]
    /\ UNCHANGED <<labelIndex, constraint, relIndex, format, open, wanted>>

CreateIndex(label, key, name) ==
    LET p == PairOf("L", label, key)
    IN /\ open # 0
       /\ p \notin DOMAIN labelIndex
       /\ name # NoName => IndexesNamed(name) = {}
       /\ dict' = Interned("L", label, key)
       /\ labelIndex' = With(labelIndex, p, name)
       /\ wanted' = wanted \cup {p}
       /\ UNCHANGED <<constraint, relIndex, format, open>>

createRelIndex(type, key, name) ==
    LET p == PairOf("T", type, key)
    IN /\ open >= formatRelIndex
       /\ p \notin DOMAIN relIndex
       /\ name # NoName => IndexesNamed(name) = {}
       /\ dict' = Interned("T", type, key)
       /\ format' = requireFormat(formatRelIndex)
       /\ relIndex' = With(relIndex, p, name)
       /\ UNCHANGED <<labelIndex, constraint, open, wanted>>

CreateConstraint(label, key, name) ==
    LET p == PairOf("L", label, key)
    IN /\ open >= formatUnique
       /\ p \notin DOMAIN constraint
       /\ name # NoName => ConstraintsNamed(name) = {}
       /\ dict' = Interned("L", label, key)
       /\ labelIndex' = IF p \in DOMAIN labelIndex THEN labelIndex ELSE With(labelIndex, p, NoName)
       /\ format' = requireFormat(formatUnique)
       /\ constraint' = With(constraint, p, [name |-> name, owns |-> p \notin DOMAIN labelIndex])
       /\ UNCHANGED <<relIndex, open, wanted>>

DropIndex(name) ==
    /\ open # 0
    /\ IndexesNamed(name) # {}
    /\ LET x == findAnyIndex(name)
       IN \/ /\ x.rel = 1
             /\ relIndex' = Without(relIndex, x.pair)
             /\ UNCHANGED <<labelIndex, wanted>>
          \/ /\ x.rel = 0
             /\ x.pair \notin DOMAIN constraint
             /\ labelIndex' = Without(labelIndex, x.pair)
             /\ wanted' = wanted \ {x.pair}
             /\ UNCHANGED relIndex
    /\ UNCHANGED <<dict, constraint, format, open>>

\* Mutant of DropConstraint: the index goes with the constraint in any case.
DropConstraint_DropsIndex(name) ==
    /\ open # 0
    /\ ConstraintsNamed(name) # {}
    /\ LET p == findConstraint(name)
       IN constraint' = Without(constraint, p) /\ labelIndex' = Without(labelIndex, p)
    /\ UNCHANGED <<dict, relIndex, format, open, wanted>>

DropConstraint(name) ==
    /\ open # 0
    /\ ConstraintsNamed(name) # {}
    /\ LET p == findConstraint(name)
       IN /\ constraint' = Without(constraint, p)
          /\ labelIndex' = IF constraint[p].owns THEN Without(labelIndex, p) ELSE labelIndex
    /\ UNCHANGED <<dict, relIndex, format, open, wanted>>

\* Names a DROP may give: those given at creation and the default ones.
Droppable == {x.name : x \in listAllIndexes} \cup {ConstraintName(p) : p \in DOMAIN constraint}

SchemaNext ==
    \/ \E max \in formatVersion..maxFormat : OpenDB(max)
    \/ CloseDB
    \/ \E kind \in Kind : \E name \in NamesOf(kind) : Intern(kind, name)
    \/ \E key \in PropName, name \in Given \cup {NoName} :
          \/ \E label \in Label : \/ CreateIndex(label, key, name)
                                  \/ CreateConstraint(label, key, name)
          \/ \E type \in Type : createRelIndex(type, key, name)
    \/ \E name \in Droppable : DropIndex(name) \/ DropConstraint(name)

SchemaSpec == SchemaInit /\ [][SchemaNext]_schemaVars

----------------------------------------------------------------------------
(* Properties.                                                             *)

\* Every variable holds what the catalog keys can hold.
CatalogTypes ==
    /\ \A kind \in Kind : /\ DOMAIN dict[kind].fwd \subseteq NamesOf(kind)
                          /\ dict[kind].counter \in Nat
    /\ \A p \in DOMAIN labelIndex \cup DOMAIN relIndex \cup DOMAIN constraint : p \in Nat \X Nat
    /\ format \in 0..maxFormat /\ open \in 0..maxFormat
    /\ wanted \subseteq Nat \X Nat

\* internDict keeps each dictionary and its reverse inverse to each other, so
\* no two names share an identifier, and every registered pair still has the
\* names IndexName, RelIndexName and ConstraintName resolve.
NamesResolve ==
    /\ \A kind \in Kind : LET d == dict[kind] IN
          /\ \A name \in DOMAIN d.fwd : d.fwd[name] \in DOMAIN d.rev /\ d.rev[d.fwd[name]] = name
          /\ \A id \in DOMAIN d.rev : id \in 1..d.counter /\ d.fwd[d.rev[id]] = id
    /\ \A p \in DOMAIN labelIndex \cup DOMAIN constraint :
          p[1] \in DOMAIN dict["L"].rev /\ p[2] \in DOMAIN dict["K"].rev
    /\ \A p \in DOMAIN relIndex : p[1] \in DOMAIN dict["T"].rev /\ p[2] \in DOMAIN dict["K"].rev

\* EnsureFormat and requireFormat together: a build that does not maintain u
\* keys never has a database with constraints open, nor one that does not
\* maintain r keys a database with relationship indexes.
OldBuildsKeptOut ==
    open # 0 => /\ DOMAIN constraint # {} => open >= formatUnique
                /\ DOMAIN relIndex # {} => open >= formatRelIndex

\* OwnsIndex: an index built by CREATE INDEX goes only by DROP INDEX, whatever
\* constraints on its pair are created and dropped; and no constraint is ever
\* without an index.
IndexOutlivesConstraint == wanted \cup DOMAIN constraint \subseteq DOMAIN labelIndex

\* createIndexOp refuses a name in use: two indexes, of nodes or of
\* relationships, never have the same given name.
GivenNamesUnique ==
    LET given == {x \in listAllIndexes :
                    NoName # (IF x.rel = 1 THEN relIndex[x.pair] ELSE labelIndex[x.pair])}
    IN \A x, y \in given : x.name = y.name => x = y

\* What a name or an identifier stands for is never ambiguous: dictionaries
\* (internDict) and the names given to indexes (createIndexOp).
NamesExact == NamesResolve /\ GivenNamesUnique

\* What a name or an identifier stands for is never ambiguous: dictionaries
\* (internDict) and the names given to indexes (createIndexOp); an index built by
\* CREATE INDEX goes only by DROP INDEX, and no constraint is ever without an
\* index (OwnsIndex, DropUniqueConstraint).
CatalogExact == CatalogTypes /\ NamesExact /\ IndexOutlivesConstraint

\* DROP INDEX takes a name, given or default, to mean one index: no two
\* indexes are known by the same name.
IndexNamesUnique == \A x, y \in listAllIndexes : x.name = y.name => x = y
=============================================================================
