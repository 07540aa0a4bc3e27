--------------------------- MODULE StorageProofs ---------------------------
(***************************************************************************)
(* What lies under the graph layer, whatever the names, the builds and the *)
(* format of numbers: the catalog and its format marker (Schema), lookups  *)
(* by value and unique constraints (PropLookup).                           *)
(***************************************************************************)
EXTENDS PropLookup, Schema, WellFoundedInduction, TLAPS

----------------------------------------------------------------------------
(* The catalog.  The parts of the invariant say what they are about in      *)
(* their parameters, so that they can be stated of the next state as well.  *)

\* A dictionary and its reverse are inverse to each other (internDict).
Inverses(fwd, rev, n, names) ==
    /\ DOMAIN fwd \subseteq names /\ n \in Nat
    /\ \A name \in DOMAIN fwd : fwd[name] \in DOMAIN rev /\ rev[fwd[name]] = name
    /\ \A id \in DOMAIN rev : id \in 1..n /\ rev[id] \in DOMAIN fwd /\ fwd[rev[id]] = id
DictOK(d, kind) == Inverses(d.fwd, d.rev, d.counter, NamesOf(kind))
DictsOK(D) == D = [kind \in Kind |-> D[kind]] /\ \A kind \in Kind : DictOK(D[kind], kind)

\* The pairs of a registry have names.
Named(D, kind, pairs) ==
    \A p \in pairs : p \in Nat \X Nat /\ p[1] \in DOMAIN D[kind].rev /\ p[2] \in DOMAIN D["K"].rev

\* No two indexes have the same given name.
GivenApart(L, R) ==
    /\ \A p, q \in DOMAIN L : L[p] # NoName /\ L[p] = L[q] => p = q
    /\ \A p, q \in DOMAIN R : R[p] # NoName /\ R[p] = R[q] => p = q
    /\ \A p \in DOMAIN L, q \in DOMAIN R : L[p] # NoName => L[p] # R[q]

\* Constraints and CREATE INDEX statements have their index, and a constraint owns
\* its index only while no CREATE INDEX asked for it.
Backed(L, C, W) ==
    /\ W \cup DOMAIN C \subseteq DOMAIN L
    /\ \A p \in DOMAIN C : C[p].owns => p \notin W

\* The marker is as high as the features in use, and no higher than what the build
\* that has the file open reads.
Marked(C, R, f, o) ==
    /\ f \in 0..maxFormat /\ o \in 0..maxFormat
    /\ o # 0 => 1 <= f /\ f <= o
    /\ DOMAIN C # {} => f >= formatUnique
    /\ DOMAIN R # {} => f >= formatRelIndex

SchemaInv ==
    /\ DictsOK(dict)
    /\ Named(dict, "L", DOMAIN labelIndex \cup DOMAIN constraint)
    /\ Named(dict, "T", DOMAIN relIndex)
    /\ GivenApart(labelIndex, relIndex)
    /\ Backed(labelIndex, constraint, wanted)
    /\ Marked(constraint, relIndex, format, open)

\* What With and Without make of a function.
LEMMA WithIs ==
    ASSUME NEW f, NEW x, NEW y
    PROVE  /\ DOMAIN With(f, x, y) = DOMAIN f \cup {x}
           /\ With(f, x, y)[x] = y
           /\ \A z \in DOMAIN f : z # x => With(f, x, y)[z] = f[z]
BY Zenon DEF With

\* A function without an element of its domain.
LEMMA WithoutIs ==
    ASSUME NEW f, NEW x
    PROVE  /\ DOMAIN Without(f, x) = DOMAIN f \ {x}
           /\ \A z \in DOMAIN f \ {x} : Without(f, x)[z] = f[z]
BY Zenon DEF Without

\* A new name gets the next identifier: that keeps a dictionary in order and what
\* it holds.
LEMMA DictGrows ==
    ASSUME NEW fwd, NEW rev, NEW n, NEW names, Inverses(fwd, rev, n, names),
           NEW name \in names, name \notin DOMAIN fwd
    PROVE  /\ Inverses(With(fwd, name, n + 1), With(rev, n + 1, name), n + 1, names)
           /\ DOMAIN rev \subseteq DOMAIN With(rev, n + 1, name)
           /\ name \in DOMAIN With(fwd, name, n + 1)
<1>1. PICK id : id = n + 1
  OBVIOUS
<1>2. id \in Nat /\ id \notin DOMAIN rev /\ id \in 1..id /\ \A x \in 1..n : x \in 1..id
  BY <1>1 DEF Inverses
<1>3. PICK f : f = With(fwd, name, id)
  OBVIOUS
<1>4. DOMAIN f = DOMAIN fwd \cup {name} /\ f[name] = id /\ \A z \in DOMAIN fwd : f[z] = fwd[z]
  BY Zenon, <1>3 DEF With
<1>5. PICK r : r = With(rev, id, name)
  OBVIOUS
<1>6. DOMAIN r = DOMAIN rev \cup {id} /\ r[id] = name /\ \A z \in DOMAIN rev : r[z] = rev[z]
  BY Zenon, <1>2, <1>5 DEF With
<1>7. \A z \in DOMAIN f : f[z] \in DOMAIN r /\ r[f[z]] = z
  BY Zenon, <1>4, <1>6 DEF Inverses
<1>8. \A x \in DOMAIN r : x \in 1..id /\ r[x] \in DOMAIN f /\ f[r[x]] = x
  BY Zenon, <1>2, <1>4, <1>6 DEF Inverses
<1>9. Inverses(f, r, id, names)
  BY Zenon, <1>2, <1>4, <1>7, <1>8 DEF Inverses
<1> QED BY Zenon, <1>1, <1>3, <1>4, <1>5, <1>6, <1>9

\* Interning a name keeps a dictionary in order and what it holds, and the name has
\* an identifier then.
LEMMA InternKeeps ==
    ASSUME DictsOK(dict), NEW kind \in Kind, NEW name \in NamesOf(kind)
    PROVE  /\ DictOK(internDict(kind, name), kind)
           /\ DOMAIN dict[kind].rev \subseteq DOMAIN internDict(kind, name).rev
           /\ name \in DOMAIN internDict(kind, name).fwd
<1>1. DictOK(dict[kind], kind)
  BY Zenon DEF DictsOK
<1>2. CASE name \in DOMAIN dict[kind].fwd
  BY Zenon, <1>1, <1>2 DEF internDict
<1>3. CASE name \notin DOMAIN dict[kind].fwd
  <2>1. PICK fwd, rev, n : fwd = dict[kind].fwd /\ rev = dict[kind].rev /\ n = dict[kind].counter
    OBVIOUS
  <2>2. PICK e : e = [fwd |-> With(fwd, name, n + 1), rev |-> With(rev, n + 1, name), counter |-> n + 1]
    BY Zenon
  <2>3. e = internDict(kind, name)
    BY Zenon, <1>3, <2>1, <2>2 DEF internDict
  <2>4. e.fwd = With(fwd, name, n + 1) /\ e.rev = With(rev, n + 1, name) /\ e.counter = n + 1
    BY Zenon, <2>2
  <2>5. Inverses(fwd, rev, n, NamesOf(kind)) /\ name \notin DOMAIN fwd
    BY Zenon, <1>1, <1>3, <2>1 DEF DictOK
  <2>6. DictOK(e, kind) /\ DOMAIN rev \subseteq DOMAIN e.rev /\ name \in DOMAIN e.fwd
    BY Zenon, <2>4, <2>5, DictGrows DEF DictOK
  <2> QED BY Zenon, <2>1, <2>3, <2>6
<1> QED BY Zenon, <1>2, <1>3

\* The names of a pair are interned, and its identifiers stand for them.
LEMMA PairInterned ==
    ASSUME DictsOK(dict), NEW kind \in {"L", "T"}, NEW name \in NamesOf(kind), NEW key \in NamesOf("K")
    PROVE  /\ DictsOK(Interned(kind, name, key))
           /\ \A k \in Kind : DOMAIN dict[k].rev \subseteq DOMAIN Interned(kind, name, key)[k].rev
           /\ Named(Interned(kind, name, key), kind, {PairOf(kind, name, key)})
<1> DEFINE D == Interned(kind, name, key)
           i == internDict(kind, name)
           j == internDict("K", key)
<1>1. kind \in Kind /\ "K" \in Kind /\ kind # "K"
  BY Zenon DEF Kind
<1>2. DictOK(i, kind) /\ DOMAIN dict[kind].rev \subseteq DOMAIN i.rev /\ name \in DOMAIN i.fwd
  BY Zenon, <1>1, InternKeeps
<1>3. DictOK(j, "K") /\ DOMAIN dict["K"].rev \subseteq DOMAIN j.rev /\ key \in DOMAIN j.fwd
  BY Zenon, <1>1, InternKeeps
<1>4. DOMAIN dict = Kind
  BY Zenon DEF DictsOK
<1>5. /\ D = [k \in Kind |-> D[k]] /\ D[kind] = i /\ D["K"] = j
      /\ \A k \in Kind : k # kind /\ k # "K" => D[k] = dict[k]
  <2> HIDE DEF i, j
  <2>1. D = [dict EXCEPT ![kind] = i, !["K"] = j]
    BY Zenon DEF Interned, i, j
  <2> QED BY Zenon, <2>1, <1>1, <1>4
<1> HIDE DEF D, i, j
<1>6. \A k \in Kind : DictOK(D[k], k) /\ DOMAIN dict[k].rev \subseteq DOMAIN D[k].rev
  BY Zenon, <1>2, <1>3, <1>5 DEF DictsOK
<1>7. DictsOK(D)
  BY Zenon, <1>5, <1>6 DEF DictsOK
<1>8. /\ i.fwd[name] \in DOMAIN i.rev /\ i.fwd[name] \in 1..i.counter /\ i.counter \in Nat
      /\ j.fwd[key] \in DOMAIN j.rev /\ j.fwd[key] \in 1..j.counter /\ j.counter \in Nat
  BY Zenon, <1>2, <1>3 DEF DictOK, Inverses
<1>9. PairOf(kind, name, key) = <<i.fwd[name], j.fwd[key]>>
  BY Zenon DEF PairOf, i, j
<1>10. Named(D, kind, {PairOf(kind, name, key)})
  BY <1>5, <1>8, <1>9 DEF Named
<1> QED BY Zenon, <1>6, <1>7, <1>10 DEF D

\* More names leave the pairs of a registry named.
LEMMA NamedGrows ==
    ASSUME NEW D, NEW E, NEW kind \in Kind, NEW S, Named(D, kind, S),
           \A k \in Kind : DOMAIN D[k].rev \subseteq DOMAIN E[k].rev
    PROVE  Named(E, kind, S)
BY Zenon DEF Named, Kind

\* createIndexOp refuses a name in use: a name that is free was given to no index.
LEMMA NameFree ==
    ASSUME NEW name, name # NoName, IndexesNamed(name) = {}
    PROVE  /\ \A q \in DOMAIN labelIndex : labelIndex[q] # name
           /\ \A q \in DOMAIN relIndex : relIndex[q] # name
<1>1. ASSUME NEW q \in DOMAIN labelIndex, labelIndex[q] = name PROVE FALSE
  <2>1. PICK x : x = [rel |-> 0, pair |-> q, name |-> IndexName(q)]
    BY Zenon
  <2>2. x.name = name
    BY Zenon, <1>1, <2>1 DEF IndexName, KnownName
  <2>3. x \in listAllIndexes
    BY Zenon, <2>1 DEF listAllIndexes
  <2> QED BY Zenon, <2>2, <2>3 DEF IndexesNamed
<1>2. ASSUME NEW q \in DOMAIN relIndex, relIndex[q] = name PROVE FALSE
  <2>1. PICK x : x = [rel |-> 1, pair |-> q, name |-> RelIndexName(q)]
    BY Zenon
  <2>2. x.name = name
    BY Zenon, <1>2, <2>1 DEF RelIndexName, KnownName
  <2>3. x \in listAllIndexes
    BY Zenon, <2>1 DEF listAllIndexes
  <2> QED BY Zenon, <2>2, <2>3 DEF IndexesNamed
<1> QED BY Zenon, <1>1, <1>2

\* An index with a free name, or none, keeps the given names apart ...
LEMMA GivenAdded ==
    ASSUME NEW L, NEW R, GivenApart(L, R), NEW p, p \notin DOMAIN L, NEW name,
           name # NoName => (\A q \in DOMAIN L : L[q] # name) /\ (\A q \in DOMAIN R : R[q] # name)
    PROVE  GivenApart(With(L, p, name), R) /\ GivenApart(R, With(L, p, name))
<1>1. PICK M : M = With(L, p, name)
  OBVIOUS
<1>2. DOMAIN M = DOMAIN L \cup {p} /\ M[p] = name /\ \A z \in DOMAIN L : M[z] = L[z]
  BY Zenon, <1>1 DEF With
<1>3. \A x, y \in DOMAIN M : M[x] # NoName /\ M[x] = M[y] => x = y
  BY Zenon, <1>2 DEF GivenApart
<1>4. \A x \in DOMAIN M, y \in DOMAIN R : (M[x] # NoName => M[x] # R[y]) /\ (R[y] # NoName => R[y] # M[x])
  BY Zenon, <1>2 DEF GivenApart
<1> QED BY Zenon, <1>1, <1>3, <1>4 DEF GivenApart

\* ... and so does an index less.
LEMMA GivenDropped ==
    ASSUME NEW L, NEW R, GivenApart(L, R), NEW p
    PROVE  GivenApart(Without(L, p), R) /\ GivenApart(R, Without(L, p)) /\ GivenApart(R, L)
<1>1. PICK M : M = Without(L, p)
  OBVIOUS
<1>2. DOMAIN M = DOMAIN L \ {p} /\ \A z \in DOMAIN L \ {p} : M[z] = L[z]
  BY Zenon, <1>1 DEF Without
<1> QED BY Zenon, <1>1, <1>2 DEF GivenApart

\* A nonempty set of naturals has a least element.
LEMMA LeastOf ==
    ASSUME NEW S, S \subseteq Nat, S # {}
    PROVE  \E least \in S : \A other \in S : least <= other
<1> DEFINE R == {ss \in Nat \X Nat : ss[1] < ss[2]}
<1>1. IsWellFoundedOn(R, Nat)
  BY Zenon, NatLessThanWellFounded DEF OpToRel
<1> HIDE DEF R
<1>2. PICK least \in S : \A other \in S : ~(<<other, least>> \in R)
  BY Zenon, <1>1, WFMin
<1>3. ASSUME NEW other \in S
      PROVE  least <= other
  <2>1. least \in Nat /\ other \in Nat
    BY Zenon
  <2>2. <<other, least>> \notin R
    BY Zenon, <1>2
  <2> QED BY <2>1, <2>2 DEF R
<1> QED BY Zenon, <1>3

\* Of any pairs of identifiers one is listed first.
LEMMA LeastPair ==
    ASSUME NEW S, S \subseteq Nat \X Nat, S # {}
    PROVE  \E p \in S : \A q \in S : PairBefore(p, q)
<1>1. PICK a \in {p[1] : p \in S} : \A b \in {p[1] : p \in S} : a <= b
  <2>1. {p[1] : p \in S} \subseteq Nat /\ {p[1] : p \in S} # {}
    OBVIOUS
  <2> QED BY Zenon, <2>1, LeastOf
<1> DEFINE First == {p \in S : p[1] = a}
<1>2. PICK c \in {p[2] : p \in First} : \A b \in {p[2] : p \in First} : c <= b
  <2>1. {p[2] : p \in First} \subseteq Nat /\ {p[2] : p \in First} # {}
    BY <1>1
  <2> QED BY Zenon, <2>1, LeastOf
<1>3. PICK p \in First : p[2] = c
  BY Zenon, <1>2
<1>4. ASSUME NEW q \in S PROVE PairBefore(p, q)
  <2>1. p \in Nat \X Nat /\ q \in Nat \X Nat /\ p[1] = a
    BY Zenon, <1>3
  <2>2. a <= q[1]
    BY Zenon, <1>1
  <2>3. q[1] = a => c <= q[2]
    BY Zenon, <1>2
  <2> QED BY <1>3, <2>1, <2>2, <2>3 DEF PairBefore
<1> QED BY Zenon, <1>3, <1>4

\* findConstraint finds a constraint of that name, when there is one.
LEMMA ConstraintFound ==
    ASSUME SchemaInv, NEW name, ConstraintsNamed(name) # {}
    PROVE  findConstraint(name) \in DOMAIN constraint
<1>1. ConstraintsNamed(name) \subseteq Nat \X Nat
  BY Zenon DEF SchemaInv, Named, ConstraintsNamed
<1>2. \E p \in ConstraintsNamed(name) : \A q \in ConstraintsNamed(name) : PairBefore(p, q)
  BY Zenon, <1>1, LeastPair
<1>3. findConstraint(name) \in ConstraintsNamed(name)
  BY Zenon, <1>2 DEF findConstraint
<1> QED BY Zenon, <1>3 DEF ConstraintsNamed

\* Opening and closing the file keep the invariant: EnsureFormat refuses a marker
\* beyond what the build reads.
LEMMA OpenKeeps ==
    ASSUME SchemaInv, (\E max \in formatVersion..maxFormat : OpenDB(max)) \/ CloseDB
    PROVE  SchemaInv'
<1>1. UNCHANGED <<dict, labelIndex, constraint, relIndex, wanted>>
  BY Zenon DEF OpenDB, CloseDB
<1>2. Marked(constraint, relIndex, format, open)
  BY Zenon DEF SchemaInv
<1>3. Marked(constraint, relIndex, format', open')
  <2>1. ASSUME NEW max \in formatVersion..maxFormat, OpenDB(max)
        PROVE  Marked(constraint, relIndex, format', open')
    BY <1>2, <2>1 DEF OpenDB, EnsureFormat, Marked, formatVersion, formatUnique, formatRelIndex, maxFormat
  <2>2. CASE CloseDB
    BY <1>2, <2>2 DEF CloseDB, Marked, formatRelIndex, maxFormat
  <2> QED BY Zenon, <2>1, <2>2
<1> QED BY Zenon, <1>1, <1>3 DEF SchemaInv

\* A name used by data keeps it.
LEMMA InternStep ==
    ASSUME SchemaInv, NEW kind \in Kind, NEW name \in NamesOf(kind), Intern(kind, name)
    PROVE  SchemaInv'
<1>1. UNCHANGED <<labelIndex, constraint, relIndex, format, open, wanted>>
  BY Zenon DEF Intern
<1>2. DictsOK(dict)
  BY Zenon DEF SchemaInv
<1>3. PICK i : i = internDict(kind, name)
  OBVIOUS
<1>4. DictOK(i, kind) /\ DOMAIN dict[kind].rev \subseteq DOMAIN i.rev
  BY Zenon, <1>2, <1>3, InternKeeps
<1>5. /\ dict' = [k \in Kind |-> dict'[k]] /\ dict'[kind] = i
      /\ \A k \in Kind : k # kind => dict'[k] = dict[k]
  <2>1. dict' = [dict EXCEPT ![kind] = i] /\ DOMAIN dict = Kind
    BY Zenon, <1>2, <1>3 DEF Intern, DictsOK
  <2> QED BY Zenon, <2>1
<1>6. \A k \in Kind : DictOK(dict'[k], k) /\ DOMAIN dict[k].rev \subseteq DOMAIN dict'[k].rev
  BY Zenon, <1>2, <1>4, <1>5 DEF DictsOK
<1>7. DictsOK(dict')
  BY Zenon, <1>5, <1>6 DEF DictsOK
<1>8. "L" \in Kind /\ "T" \in Kind
  BY Zenon DEF Kind
<1>9. /\ Named(dict', "L", DOMAIN labelIndex \cup DOMAIN constraint)
      /\ Named(dict', "T", DOMAIN relIndex)
  BY Zenon, <1>6, <1>8, NamedGrows DEF SchemaInv
<1> QED BY Zenon, <1>1, <1>7, <1>9 DEF SchemaInv

\* What a statement that names a pair does to the dictionaries and the registries'
\* names.
LEMMA PairStep ==
    ASSUME SchemaInv, NEW kind \in {"L", "T"}, NEW name \in NamesOf(kind), NEW key \in NamesOf("K"),
           dict' = Interned(kind, name, key)
    PROVE  /\ DictsOK(dict')
           /\ Named(dict', "L", DOMAIN labelIndex \cup DOMAIN constraint)
           /\ Named(dict', "T", DOMAIN relIndex)
           /\ Named(dict', kind, {PairOf(kind, name, key)})
<1>1. DictsOK(dict) /\ "L" \in Kind /\ "T" \in Kind
  BY Zenon DEF SchemaInv, Kind
<1>2. /\ DictsOK(dict') /\ Named(dict', kind, {PairOf(kind, name, key)})
      /\ \A k \in Kind : DOMAIN dict[k].rev \subseteq DOMAIN dict'[k].rev
  BY Zenon, <1>1, PairInterned
<1>3. /\ Named(dict', "L", DOMAIN labelIndex \cup DOMAIN constraint)
      /\ Named(dict', "T", DOMAIN relIndex)
  BY Zenon, <1>1, <1>2, NamedGrows DEF SchemaInv
<1> QED BY Zenon, <1>2, <1>3

\* CREATE INDEX on nodes keeps it.
LEMMA CreateIndexKeeps ==
    ASSUME SchemaInv, NEW label \in Label, NEW key \in PropName, NEW name, CreateIndex(label, key, name)
    PROVE  SchemaInv'
<1>1. PICK p : p = PairOf("L", label, key)
  OBVIOUS
<1>2. label \in NamesOf("L") /\ key \in NamesOf("K")
  BY DEF NamesOf
<1>3. /\ p \notin DOMAIN labelIndex /\ (name # NoName => IndexesNamed(name) = {})
      /\ dict' = Interned("L", label, key) /\ labelIndex' = With(labelIndex, p, name) /\ wanted' = wanted \cup {p}
      /\ UNCHANGED <<constraint, relIndex, format, open>>
  BY Zenon, <1>1 DEF CreateIndex
<1>4. DOMAIN labelIndex' = DOMAIN labelIndex \cup {p}
  BY Zenon, <1>3 DEF With
<1>5. /\ DictsOK(dict') /\ Named(dict', "L", DOMAIN labelIndex \cup DOMAIN constraint)
      /\ Named(dict', "T", DOMAIN relIndex) /\ Named(dict', "L", {p})
  BY Zenon, <1>1, <1>2, <1>3, PairStep
<1>6. Named(dict', "L", DOMAIN labelIndex' \cup DOMAIN constraint)
  BY Zenon, <1>4, <1>5 DEF Named
<1>7. GivenApart(labelIndex', relIndex)
  <2>1. GivenApart(labelIndex, relIndex)
    BY Zenon DEF SchemaInv
  <2>2. name # NoName => /\ \A q \in DOMAIN labelIndex : labelIndex[q] # name
                         /\ \A q \in DOMAIN relIndex : relIndex[q] # name
    BY Zenon, <1>3, NameFree
  <2> QED BY Zenon, <1>3, <2>1, <2>2, GivenAdded
<1>8. Backed(labelIndex', constraint, wanted')
  BY Zenon, <1>3, <1>4 DEF SchemaInv, Backed
<1> QED BY Zenon, <1>3, <1>5, <1>6, <1>7, <1>8 DEF SchemaInv

\* CREATE INDEX on relationships keeps it: the build reads the version it needs, and
\* requireFormat raises the marker.
LEMMA CreateRelIndexKeeps ==
    ASSUME SchemaInv, NEW type \in Type, NEW key \in PropName, NEW name, createRelIndex(type, key, name)
    PROVE  SchemaInv'
<1>1. PICK p : p = PairOf("T", type, key)
  OBVIOUS
<1>2. type \in NamesOf("T") /\ key \in NamesOf("K")
  BY DEF NamesOf
<1>3. /\ p \notin DOMAIN relIndex /\ (name # NoName => IndexesNamed(name) = {})
      /\ dict' = Interned("T", type, key) /\ relIndex' = With(relIndex, p, name)
      /\ UNCHANGED <<labelIndex, constraint, open, wanted>>
      /\ open >= formatRelIndex /\ format' = requireFormat(formatRelIndex)
  BY Zenon, <1>1 DEF createRelIndex
<1>4. DOMAIN relIndex' = DOMAIN relIndex \cup {p}
  BY Zenon, <1>3 DEF With
<1>5. /\ DictsOK(dict') /\ Named(dict', "L", DOMAIN labelIndex \cup DOMAIN constraint)
      /\ Named(dict', "T", DOMAIN relIndex) /\ Named(dict', "T", {p})
  BY Zenon, <1>1, <1>2, <1>3, PairStep
<1>6. Named(dict', "T", DOMAIN relIndex')
  BY Zenon, <1>4, <1>5 DEF Named
<1>7. GivenApart(labelIndex, relIndex')
  <2>1. GivenApart(relIndex, labelIndex)
    BY Zenon, GivenDropped DEF SchemaInv
  <2>2. name # NoName => /\ \A q \in DOMAIN relIndex : relIndex[q] # name
                         /\ \A q \in DOMAIN labelIndex : labelIndex[q] # name
    BY Zenon, <1>3, NameFree
  <2> QED BY Zenon, <1>3, <2>1, <2>2, GivenAdded
<1>8. Marked(constraint, relIndex', format', open)
  BY <1>3 DEF SchemaInv, Marked, requireFormat, formatUnique, formatRelIndex, maxFormat
<1> QED BY Zenon, <1>3, <1>5, <1>6, <1>7, <1>8 DEF SchemaInv

\* CREATE CONSTRAINT keeps it: it makes the index it has not found, and owns it.
LEMMA CreateConstraintKeeps ==
    ASSUME SchemaInv, NEW label \in Label, NEW key \in PropName, NEW name, CreateConstraint(label, key, name)
    PROVE  SchemaInv'
<1>1. PICK p : p = PairOf("L", label, key)
  OBVIOUS
<1>2. label \in NamesOf("L") /\ key \in NamesOf("K")
  BY DEF NamesOf
<1>3. PICK c : c = [name |-> name, owns |-> p \notin DOMAIN labelIndex]
  BY Zenon
<1>4. /\ p \notin DOMAIN constraint /\ dict' = Interned("L", label, key)
      /\ labelIndex' = IF p \in DOMAIN labelIndex THEN labelIndex ELSE With(labelIndex, p, NoName)
      /\ constraint' = With(constraint, p, c)
      /\ UNCHANGED <<relIndex, open, wanted>>
      /\ open >= formatUnique /\ format' = requireFormat(formatUnique)
  BY Zenon, <1>1, <1>3 DEF CreateConstraint
<1>5. c.owns <=> p \notin DOMAIN labelIndex
  BY Zenon, <1>3
<1>6. /\ DOMAIN constraint' = DOMAIN constraint \cup {p} /\ constraint'[p] = c
      /\ \A z \in DOMAIN constraint : constraint'[z] = constraint[z]
  BY Zenon, <1>4 DEF With
<1>7. DOMAIN labelIndex' = DOMAIN labelIndex \cup {p}
  BY Zenon, <1>4 DEF With
<1>8. /\ DictsOK(dict') /\ Named(dict', "L", DOMAIN labelIndex \cup DOMAIN constraint)
      /\ Named(dict', "T", DOMAIN relIndex) /\ Named(dict', "L", {p})
  BY Zenon, <1>1, <1>2, <1>4, PairStep
<1>9. Named(dict', "L", DOMAIN labelIndex' \cup DOMAIN constraint')
  BY Zenon, <1>6, <1>7, <1>8 DEF Named
<1>10. GivenApart(labelIndex', relIndex)
  <2>1. GivenApart(labelIndex, relIndex)
    BY Zenon DEF SchemaInv
  <2>2. p \notin DOMAIN labelIndex => GivenApart(With(labelIndex, p, NoName), relIndex)
    BY Zenon, <2>1, GivenAdded
  <2> QED BY Zenon, <1>4, <2>1, <2>2
<1>11. Backed(labelIndex', constraint', wanted)
  <2>1. Backed(labelIndex, constraint, wanted)
    BY Zenon DEF SchemaInv
  <2>2. c.owns => p \notin wanted
    BY Zenon, <1>5, <2>1 DEF Backed
  <2> QED BY Zenon, <1>6, <1>7, <2>1, <2>2 DEF Backed
<1>12. Marked(constraint', relIndex, format', open)
  BY <1>4 DEF SchemaInv, Marked, requireFormat, formatUnique, formatRelIndex, maxFormat
<1> QED BY Zenon, <1>4, <1>8, <1>9, <1>10, <1>11, <1>12 DEF SchemaInv

\* DROP INDEX keeps it: it refuses the index of a constraint.
LEMMA DropIndexKeeps ==
    ASSUME SchemaInv, NEW name, DropIndex(name)
    PROVE  SchemaInv'
<1>1. PICK x : x = findAnyIndex(name)
  OBVIOUS
<1>2. UNCHANGED <<dict, constraint, format, open>>
  BY Zenon DEF DropIndex
<1>3. CASE relIndex' = Without(relIndex, x.pair) /\ UNCHANGED <<labelIndex, wanted>>
  <2>1. DOMAIN relIndex' = DOMAIN relIndex \ {x.pair}
    BY Zenon, <1>3, WithoutIs
  <2>2. Named(dict, "T", DOMAIN relIndex')
    BY Zenon, <2>1 DEF SchemaInv, Named
  <2>3. GivenApart(labelIndex, relIndex')
    <3>1. GivenApart(relIndex, labelIndex)
      BY Zenon, GivenDropped DEF SchemaInv
    <3> QED BY Zenon, <1>3, <3>1, GivenDropped
  <2>4. Marked(constraint, relIndex', format, open)
    BY Zenon, <2>1 DEF SchemaInv, Marked
  <2> QED BY Zenon, <1>2, <1>3, <2>2, <2>3, <2>4 DEF SchemaInv
<1>4. CASE /\ x.pair \notin DOMAIN constraint /\ labelIndex' = Without(labelIndex, x.pair)
           /\ wanted' = wanted \ {x.pair} /\ UNCHANGED relIndex
  <2>1. DOMAIN labelIndex' = DOMAIN labelIndex \ {x.pair}
    BY Zenon, <1>4, WithoutIs
  <2>2. Named(dict, "L", DOMAIN labelIndex' \cup DOMAIN constraint)
    BY Zenon, <2>1 DEF SchemaInv, Named
  <2>3. GivenApart(labelIndex', relIndex)
    BY Zenon, <1>4, GivenDropped DEF SchemaInv
  <2>4. Backed(labelIndex', constraint, wanted')
    BY Zenon, <1>4, <2>1 DEF SchemaInv, Backed
  <2> QED BY Zenon, <1>2, <1>4, <2>2, <2>3, <2>4 DEF SchemaInv
<1> QED BY Zenon, <1>1, <1>3, <1>4 DEF DropIndex

\* DROP CONSTRAINT keeps it: an index that a CREATE INDEX statement built is not the
\* constraint's own.
LEMMA DropConstraintKeeps ==
    ASSUME SchemaInv, NEW name, DropConstraint(name)
    PROVE  SchemaInv'
<1>1. PICK p \in DOMAIN constraint : p = findConstraint(name)
  BY Zenon, ConstraintFound DEF DropConstraint
<1>2. /\ constraint' = Without(constraint, p)
      /\ labelIndex' = IF constraint[p].owns THEN Without(labelIndex, p) ELSE labelIndex
      /\ UNCHANGED <<dict, relIndex, format, open, wanted>>
  BY Zenon, <1>1 DEF DropConstraint
<1>3. /\ DOMAIN constraint' = DOMAIN constraint \ {p}
      /\ \A z \in DOMAIN constraint \ {p} : constraint'[z] = constraint[z]
  BY Zenon, <1>2, WithoutIs
<1>4. DOMAIN labelIndex' = (IF constraint[p].owns THEN DOMAIN labelIndex \ {p} ELSE DOMAIN labelIndex)
  BY Zenon, <1>2, WithoutIs
<1>5. Named(dict, "L", DOMAIN labelIndex' \cup DOMAIN constraint')
  BY Zenon, <1>3, <1>4 DEF SchemaInv, Named
<1>6. GivenApart(labelIndex', relIndex)
  BY Zenon, <1>2, GivenDropped DEF SchemaInv
<1>7. Backed(labelIndex', constraint', wanted)
  BY Zenon, <1>3, <1>4 DEF SchemaInv, Backed
<1>8. Marked(constraint', relIndex, format, open)
  BY Zenon, <1>3 DEF SchemaInv, Marked
<1> QED BY Zenon, <1>2, <1>5, <1>6, <1>7, <1>8 DEF SchemaInv

\* The invariant of the catalog, for every set of names and any order of statements
\* and builds.
LEMMA SchemaInvariant == SchemaSpec => []SchemaInv
<1>1. SchemaInit => SchemaInv
  <2> SUFFICES ASSUME SchemaInit PROVE SchemaInv
    BY Zenon
  <2>1. /\ dict = [kind \in Kind |-> [fwd |-> <<>>, rev |-> <<>>, counter |-> 0]]
        /\ labelIndex = <<>> /\ constraint = <<>> /\ relIndex = <<>> /\ format = 0 /\ open = 0 /\ wanted = {}
    BY Zenon DEF SchemaInit
  <2>2. DOMAIN <<>> = {}
    OBVIOUS
  <2>3. ASSUME NEW kind \in Kind PROVE DictOK(dict[kind], kind)
    <3>1. dict[kind].fwd = <<>> /\ dict[kind].rev = <<>> /\ dict[kind].counter = 0
      BY Zenon, <2>1
    <3>2. 0 \in Nat
      OBVIOUS
    <3> QED BY Zenon, <2>2, <3>1, <3>2 DEF DictOK, Inverses
  <2>4. DictsOK(dict)
    BY Zenon, <2>1, <2>3 DEF DictsOK
  <2>5. /\ Named(dict, "L", DOMAIN labelIndex \cup DOMAIN constraint) /\ Named(dict, "T", DOMAIN relIndex)
        /\ GivenApart(labelIndex, relIndex) /\ Backed(labelIndex, constraint, wanted)
    BY Zenon, <2>1, <2>2 DEF Named, GivenApart, Backed
  <2>6. Marked(constraint, relIndex, format, open)
    BY <2>1, <2>2 DEF Marked, formatRelIndex, maxFormat
  <2> QED BY Zenon, <2>4, <2>5, <2>6 DEF SchemaInv
<1>2. SchemaInv /\ [SchemaNext]_schemaVars => SchemaInv'
  <2> SUFFICES ASSUME SchemaInv, [SchemaNext]_schemaVars PROVE SchemaInv'
    BY Zenon
  <2>1. CASE UNCHANGED schemaVars
    BY Zenon, <2>1 DEF schemaVars, SchemaInv
  <2>2. CASE (\E max \in formatVersion..maxFormat : OpenDB(max)) \/ CloseDB
    BY Zenon, <2>2, OpenKeeps
  <2>3. CASE \E kind \in Kind : \E name \in NamesOf(kind) : Intern(kind, name)
    BY Zenon, <2>3, InternStep
  <2>4. CASE \E key \in PropName, name \in Given \cup {NoName} :
                 \/ \E label \in Label : CreateIndex(label, key, name) \/ CreateConstraint(label, key, name)
                 \/ \E type \in Type : createRelIndex(type, key, name)
    BY Zenon, <2>4, CreateIndexKeeps, CreateConstraintKeeps, CreateRelIndexKeeps
  <2>5. CASE \E name \in Droppable : DropIndex(name) \/ DropConstraint(name)
    BY Zenon, <2>5, DropIndexKeeps, DropConstraintKeeps
  <2> QED BY Zenon, <2>1, <2>2, <2>3, <2>4, <2>5 DEF SchemaNext
<1> QED BY <1>1, <1>2, PTL DEF SchemaSpec

\* Whatever names statements give and drop, and whichever builds take turns on the
\* file: dictionaries are one to one, registered pairs have names, given names are
\* unambiguous, an index outlives the constraints on its pair and no constraint is
\* without one (internDict, createIndexOp, OwnsIndex, DropUniqueConstraint).
THEOREM CatalogCorrect == SchemaSpec => []CatalogExact
<1>1. SchemaInv => CatalogExact
  <2> SUFFICES ASSUME SchemaInv PROVE CatalogExact
    BY Zenon
  <2>1. CatalogTypes
    <3>1. \A kind \in Kind : DOMAIN dict[kind].fwd \subseteq NamesOf(kind) /\ dict[kind].counter \in Nat
      BY Zenon DEF SchemaInv, DictsOK, DictOK, Inverses
    <3>2. \A p \in DOMAIN labelIndex \cup DOMAIN relIndex \cup DOMAIN constraint : p \in Nat \X Nat
      BY Zenon DEF SchemaInv, Named
    <3>3. wanted \subseteq Nat \X Nat
      BY Zenon, <3>2 DEF SchemaInv, Backed
    <3> QED BY Zenon, <3>1, <3>2, <3>3 DEF CatalogTypes, SchemaInv, Marked
  <2>2. NamesResolve
    BY Zenon DEF NamesResolve, SchemaInv, DictsOK, DictOK, Inverses, Named
  <2>3. GivenNamesUnique
    <3>1. ASSUME NEW x \in listAllIndexes, NEW y \in listAllIndexes,
                 NoName # (IF x.rel = 1 THEN relIndex[x.pair] ELSE labelIndex[x.pair]),
                 NoName # (IF y.rel = 1 THEN relIndex[y.pair] ELSE labelIndex[y.pair]), x.name = y.name
          PROVE  x = y
      <4>1. ASSUME NEW z \in listAllIndexes,
                   NoName # (IF z.rel = 1 THEN relIndex[z.pair] ELSE labelIndex[z.pair])
            PROVE  \/ z.rel = 0 /\ z.pair \in DOMAIN labelIndex /\ z.name = labelIndex[z.pair] /\ z.name # NoName
                      /\ z = [rel |-> 0, pair |-> z.pair, name |-> z.name]
                   \/ z.rel = 1 /\ z.pair \in DOMAIN relIndex /\ z.name = relIndex[z.pair] /\ z.name # NoName
                      /\ z = [rel |-> 1, pair |-> z.pair, name |-> z.name]
        <5>1. CASE \E p \in DOMAIN labelIndex : z = [rel |-> 0, pair |-> p, name |-> IndexName(p)]
          <6>1. PICK p \in DOMAIN labelIndex : z = [rel |-> 0, pair |-> p, name |-> IndexName(p)]
            BY Zenon, <5>1
          <6>2. z.rel = 0 /\ z.pair = p /\ z.name = IndexName(p)
            BY <6>1
          <6>3. labelIndex[p] # NoName
            BY <4>1, <6>2
          <6>4. IndexName(p) = labelIndex[p]
            BY Zenon, <6>3 DEF IndexName, KnownName
          <6> QED BY Zenon, <6>1, <6>2, <6>3, <6>4
        <5>2. CASE \E p \in DOMAIN relIndex : z = [rel |-> 1, pair |-> p, name |-> RelIndexName(p)]
          <6>1. PICK p \in DOMAIN relIndex : z = [rel |-> 1, pair |-> p, name |-> RelIndexName(p)]
            BY Zenon, <5>2
          <6>2. z.rel = 1 /\ z.pair = p /\ z.name = RelIndexName(p)
            BY <6>1
          <6>3. relIndex[p] # NoName
            BY <4>1, <6>2
          <6>4. RelIndexName(p) = relIndex[p]
            BY Zenon, <6>3 DEF RelIndexName, KnownName
          <6> QED BY Zenon, <6>1, <6>2, <6>3, <6>4
        <5> QED BY Zenon, <5>1, <5>2 DEF listAllIndexes
      <4>2. GivenApart(labelIndex, relIndex)
        BY Zenon DEF SchemaInv
      <4> DEFINE Of(z, p, n) ==
            \/ p \in DOMAIN labelIndex /\ n = labelIndex[p] /\ z = [rel |-> 0, pair |-> p, name |-> n]
            \/ p \in DOMAIN relIndex /\ n = relIndex[p] /\ z = [rel |-> 1, pair |-> p, name |-> n]
      <4>3. PICK p : p = x.pair
        OBVIOUS
      <4>4. PICK q : q = y.pair
        OBVIOUS
      <4>5. PICK n : n = x.name
        OBVIOUS
      <4>6. Of(x, p, n) /\ n # NoName
        BY Zenon, <3>1, <4>1, <4>3, <4>5
      <4>7. Of(y, q, n)
        BY Zenon, <3>1, <4>1, <4>4, <4>5
      <4>8. CASE p \in DOMAIN labelIndex /\ n = labelIndex[p] /\ q \in DOMAIN labelIndex /\ n = labelIndex[q]
                 /\ x = [rel |-> 0, pair |-> p, name |-> n] /\ y = [rel |-> 0, pair |-> q, name |-> n]
        <5>1. p = q
          BY Zenon, <4>2, <4>6, <4>8 DEF GivenApart
        <5> QED BY Zenon, <4>8, <5>1
      <4>9. CASE p \in DOMAIN relIndex /\ n = relIndex[p] /\ q \in DOMAIN relIndex /\ n = relIndex[q]
                 /\ x = [rel |-> 1, pair |-> p, name |-> n] /\ y = [rel |-> 1, pair |-> q, name |-> n]
        <5>1. p = q
          BY Zenon, <4>2, <4>6, <4>9 DEF GivenApart
        <5> QED BY Zenon, <4>9, <5>1
      <4>10. ASSUME NEW r \in DOMAIN labelIndex, NEW s \in DOMAIN relIndex PROVE ~(n = labelIndex[r] /\ n = relIndex[s])
        BY Zenon, <4>2, <4>6 DEF GivenApart
      <4> QED BY Zenon, <4>6, <4>7, <4>8, <4>9, <4>10
    <3> QED BY Zenon, <3>1 DEF GivenNamesUnique
  <2>4. IndexOutlivesConstraint
    BY Zenon DEF IndexOutlivesConstraint, SchemaInv, Backed
  <2> QED BY Zenon, <2>1, <2>2, <2>3, <2>4 DEF CatalogExact, NamesExact
<1> QED BY <1>1, SchemaInvariant, PTL

\* A build that does not maintain the keys of constraints or of relationship indexes
\* never has a file with any open, whatever builds opened it before (EnsureFormat,
\* requireFormat).
THEOREM BuildsKeptOut == SchemaSpec => []OldBuildsKeptOut
<1>1. SchemaInv => OldBuildsKeptOut
  BY DEF SchemaInv, Marked, OldBuildsKeptOut, formatUnique, formatRelIndex, maxFormat
<1> QED BY <1>1, SchemaInvariant, PTL

-----------------------------------------------------------------------------
(* Lookups by value.                                                        *)

\* Counting integers in units keeps their order and their differences.
LEMMA Scaled ==
    ASSUME NEW m \in Int, NEW n \in Int
    PROVE  /\ One * m \in Int
           /\ m < n => One * m + One <= One * n
           /\ One * m < One * n <=> m < n
           /\ One * m = One * n <=> m = n
           /\ One * (-m) = -(One * m) /\ One * 0 = 0
           /\ One * (m + 1) = One * m + One
<1>1. One \in Nat \ {0}
  BY Zenon, FormatAssumption
<1>2. ASSUME NEW k \in Int, NEW l \in Int, k < l PROVE One * k + One <= One * l
  <2>1. PICK d \in Nat : l = k + 1 + d
    <3>1. l - k - 1 \in Nat /\ l = k + 1 + (l - k - 1)
      BY <1>2
    <3> QED BY Zenon, <3>1
  <2>2. One * l = One * k + One + One * d /\ One * d >= 0 /\ One * k \in Int /\ One * d \in Int
    BY <1>1, <2>1
  <2> QED BY <1>1, <2>2
<1>3. One * m \in Int /\ One * n \in Int
  BY <1>1
<1>4. (m < n => One * m + One <= One * n) /\ (n < m => One * n + One <= One * m)
  BY Zenon, <1>2
<1>5. One * (-m) = -(One * m) /\ One * 0 = 0 /\ One * (m + 1) = One * m + One
  BY <1>1
<1> QED BY <1>1, <1>3, <1>4, <1>5

\* Whole units: the integers around a float.
LEMMA Divided ==
    ASSUME NEW h \in Int
    PROVE  /\ Floor(h) \in Int /\ Ceil(h) \in Int
           /\ One * Floor(h) <= h /\ h < One * Floor(h) + One
           /\ One * Ceil(h) >= h /\ h > One * Ceil(h) - One
           /\ h % One = 0 <=> h = One * (h \div One)
<1>1. One \in Nat \ {0}
  BY Zenon, FormatAssumption
<1>2. ASSUME NEW k \in Int
      PROVE  k \div One \in Int /\ k % One \in 0..(One - 1) /\ k = One * (k \div One) + (k % One)
  BY <1>1
<1>3. h \div One \in Int /\ h % One \in 0..(One - 1) /\ h = One * (h \div One) + (h % One)
  BY Zenon, <1>2
<1>4. -h \in Int
  OBVIOUS
<1>5. (-h) \div One \in Int /\ (-h) % One \in 0..(One - 1) /\ -h = One * ((-h) \div One) + ((-h) % One)
  BY Zenon, <1>2, <1>4
<1>6. PICK f \in Int : f = h \div One
  BY Zenon, <1>3
<1>7. PICK c \in Int : c = (-h) \div One
  BY Zenon, <1>5
<1>8. One * f \in Int /\ One * c \in Int /\ One * (-c) = -(One * c)
  BY <1>6, <1>7, Scaled
<1>9. Floor(h) = f /\ Ceil(h) = -c
  BY Zenon, <1>6, <1>7 DEF Floor, Ceil
<1>10. PICK r : r = h % One
  OBVIOUS
<1>11. PICK s : s = (-h) % One
  OBVIOUS
<1>12. r \in 0..(One - 1) /\ s \in 0..(One - 1) /\ h = One * f + r /\ -h = One * c + s
  BY Zenon, <1>3, <1>5, <1>6, <1>7, <1>10, <1>11
<1>13. One * f <= h /\ h < One * f + One /\ -(One * c) >= h /\ h > -(One * c) - One /\ (r = 0 <=> h = One * f)
  BY <1>1, <1>8, <1>12
<1>14. -c \in Int
  OBVIOUS
<1> QED BY Zenon, <1>6, <1>8, <1>9, <1>10, <1>13, <1>14

\* Distances, without Abs.
LEMMA Nearer ==
    ASSUME NEW a \in Int, NEW b \in Int, NEW x \in Int, Abs(a - x) <= Abs(b - x)
    PROVE  /\ b = x => a = x
           /\ x < b /\ b < a => FALSE
           /\ a < b /\ b < x => FALSE
           /\ a < b => 2 * x <= a + b
           /\ b < a => 2 * x >= a + b
BY DEF Abs

\* Finite floats lie between the largest one and its negation, zero among them.
LEMMA FiniteInt ==
    /\ MaxFinite \in Int /\ Infinite \in Int /\ Infinite = MaxFinite + 1 /\ MaxFinite >= 0
    /\ \A h \in Finite : h \in Int /\ -MaxFinite <= h /\ h <= MaxFinite /\ -h \in Finite
    /\ 0 \in Finite
<1>1. 0 \in -maxExactInt..maxExactInt /\ One * 0 = 0
  BY FormatAssumption
<1>2. 0 \in Finite
  BY Zenon, <1>1, FormatAssumption
<1>3. 0 \in -MaxFinite..MaxFinite
  BY Zenon, <1>2, FormatAssumption
<1>4. MaxFinite \in -MaxFinite..MaxFinite
  BY Zenon, FormatAssumption
<1>5. \A h \in Finite : h \in -MaxFinite..MaxFinite /\ -h \in Finite
  BY Zenon, FormatAssumption
<1>6. MaxFinite \in Int
  BY <1>4
<1> QED BY <1>2, <1>3, <1>5, <1>6 DEF Infinite

\* The nearest float of an integer, which no float is nearer to.
LEMMA RoundedNear ==
    ASSUME NEW n \in MinInt..MaxInt, NEW h \in Finite
    PROVE  /\ n \in Int /\ Rounded[n] \in Finite /\ Rounded[n] \in Int /\ h \in Int /\ One * n \in Int
           /\ h = One * n => Rounded[n] = h
           /\ One * n < h => Rounded[n] <= h
           /\ h < One * n => h <= Rounded[n]
           /\ Rounded[n] < h => 2 * (One * n) <= Rounded[n] + h
           /\ h < Rounded[n] => 2 * (One * n) >= Rounded[n] + h
<1>1. n \in Int
  BY FormatAssumption
<1>2. PICK r : r = Rounded[n]
  OBVIOUS
<1>3. r \in Finite /\ Abs(r - One * n) <= Abs(h - One * n)
  BY Zenon, <1>2, FormatAssumption
<1>4. r \in Int /\ h \in Int
  BY Zenon, <1>3, FiniteInt
<1>5. PICK x \in Int : x = One * n
  BY Zenon, <1>1, Scaled
<1>6. Abs(r - x) <= Abs(h - x)
  BY Zenon, <1>3, <1>5
<1>7. /\ h = x => r = x
      /\ x < h => ~(h < r)
      /\ h < x => ~(r < h)
      /\ r < h => 2 * x <= r + h
      /\ h < r => 2 * x >= r + h
  BY Zenon, <1>4, <1>5, <1>6, Nearer
<1>8. (~(h < r) => r <= h) /\ (~(r < h) => h <= r)
  BY <1>4
<1> QED BY Zenon, <1>1, <1>2, <1>3, <1>4, <1>5, <1>7, <1>8

\* Up to maxExactInt conversion is exact, beyond it never comes back under it.
LEMMA RoundedExact ==
    ASSUME NEW n \in MinInt..MaxInt
    PROVE  /\ n \in -maxExactInt..maxExactInt => Rounded[n] = One * n
           /\ n > maxExactInt => Rounded[n] >= One * maxExactInt
           /\ n < -maxExactInt => Rounded[n] <= -(One * maxExactInt)
<1>1. n \in Int /\ maxExactInt \in Int /\ One * maxExactInt \in Int /\ One * n \in Int /\ -maxExactInt \in Int
  BY FormatAssumption, Scaled
<1>2. ASSUME n \in -maxExactInt..maxExactInt PROVE Rounded[n] = One * n
  <2>1. One * n \in Finite
    BY Zenon, <1>2, FormatAssumption
  <2> QED BY Zenon, <2>1, RoundedNear
<1>3. ASSUME n > maxExactInt PROVE Rounded[n] >= One * maxExactInt
  <2>1. maxExactInt \in -maxExactInt..maxExactInt
    BY FormatAssumption
  <2>2. One * maxExactInt \in Finite
    BY Zenon, <2>1, FormatAssumption
  <2>3. One * maxExactInt < One * n
    BY <1>1, <1>3, Scaled
  <2>4. One * maxExactInt <= Rounded[n] /\ Rounded[n] \in Int
    BY Zenon, <2>2, <2>3, RoundedNear
  <2> QED BY <1>1, <2>4
<1>4. ASSUME n < -maxExactInt PROVE Rounded[n] <= -(One * maxExactInt)
  <2>1. -maxExactInt \in -maxExactInt..maxExactInt
    BY FormatAssumption
  <2>2. One * (-maxExactInt) \in Finite
    BY Zenon, <2>1, FormatAssumption
  <2>3. One * n < One * (-maxExactInt)
    BY <1>1, <1>4, Scaled
  <2>4. Rounded[n] <= One * (-maxExactInt)
    BY Zenon, <2>2, <2>3, RoundedNear
  <2>5. One * (-maxExactInt) = -(One * maxExactInt)
    BY Zenon, <1>1, Scaled
  <2> QED BY Zenon, <2>4, <2>5
<1> QED BY Zenon, <1>2, <1>3, <1>4

\* A result under the limit says which integer was converted.
LEMMA RoundedInside ==
    ASSUME NEW n \in MinInt..MaxInt, NEW h \in Int, -(One * maxExactInt) < h, h < One * maxExactInt
    PROVE  /\ Rounded[n] = h <=> One * n = h
           /\ h < Rounded[n] <=> h < One * n
           /\ Rounded[n] < h <=> One * n < h
<1>1. n \in Int /\ maxExactInt \in Int /\ One * maxExactInt \in Int /\ One * n \in Int /\ -maxExactInt \in Int
  BY FormatAssumption, Scaled
<1>2. Rounded[n] \in Int
  BY Zenon, FiniteInt, FormatAssumption
<1>3. CASE n \in -maxExactInt..maxExactInt
  BY Zenon, <1>3, RoundedExact
<1>4. CASE n > maxExactInt
  <2>1. Rounded[n] >= One * maxExactInt
    BY Zenon, <1>4, RoundedExact
  <2>2. One * maxExactInt < One * n
    BY <1>1, <1>4, Scaled
  <2> QED BY <1>1, <1>2, <2>1, <2>2
<1>5. CASE n < -maxExactInt
  <2>1. Rounded[n] <= -(One * maxExactInt)
    BY Zenon, <1>5, RoundedExact
  <2>2. One * n < One * (-maxExactInt)
    BY <1>1, <1>5, Scaled
  <2>3. One * (-maxExactInt) = -(One * maxExactInt)
    BY Zenon, <1>1, Scaled
  <2>4. One * n < -(One * maxExactInt)
    BY Zenon, <2>2, <2>3
  <2> QED BY <1>1, <1>2, <2>1, <2>4
<1> QED BY <1>1, <1>3, <1>4, <1>5

\* What a value is.
Valued(v) ==
    \/ v.kind = "int" /\ v.n \in MinInt..MaxInt /\ v = IntOf(v.n)
    \/ v.kind = "float" /\ (v.n \in Finite \/ v.n = Infinite \/ v.n = -Infinite) /\ v = FloatOf(v.n)
    \/ v.kind = "negzero" /\ v.n = 0 /\ v = NegZero
    \/ v.kind = "nan" /\ v = NaN
    \/ v.kind = "string" /\ v.n \in Int /\ v = StringOf(v.n)
    \/ v.kind = "null" /\ v = Null

\* What is stored and what is asked about is a value of one of the kinds.
LEMMA Values ==
    ASSUME NEW v \in Stored \cup Asked
    PROVE  Valued(v)
<1>1. CASE v \in Ints
  <2>1. PICK n \in MinInt..MaxInt : v = IntOf(n)
    BY Zenon, <1>1 DEF Ints
  <2>2. v.kind = "int" /\ v.n = n
    BY <2>1 DEF IntOf
  <2> QED BY Zenon, <2>1, <2>2 DEF Valued
<1>2. CASE v \in Floats
  <2>1. CASE v \in {FloatOf(h) : h \in Finite \cup {Infinite, -Infinite}}
    <3>1. PICK h \in Finite \cup {Infinite, -Infinite} : v = FloatOf(h)
      BY Zenon, <2>1
    <3>2. v.kind = "float" /\ v.n = h
      BY <3>1 DEF FloatOf
    <3> QED BY Zenon, <3>1, <3>2 DEF Valued
  <2>2. CASE v = NegZero \/ v = NaN
    BY <2>2 DEF Valued, NegZero, NaN
  <2> QED BY Zenon, <1>2, <2>1, <2>2 DEF Floats
<1>3. CASE v = Null
  BY <1>3 DEF Valued, Null
<1> QED BY Zenon, <1>1, <1>2, <1>3, ValuesAssumption DEF Valued

\* The number a float is compared by.
LEMMA FloatInt ==
    ASSUME NEW h, h \in Finite \/ h = Infinite \/ h = -Infinite
    PROVE  h \in Int /\ -Infinite <= h /\ h <= Infinite
BY FiniteInt

\* The equality of queries, kind by kind.
Float(v) == v.kind \in {"float", "negzero"}
\* QueryEqual is one of these cases.
LEMMA Equality ==
    ASSUME NEW a, NEW b, Valued(a), Valued(b)
    PROVE  QueryEqual(a, b) <=> \/ a.kind = "int" /\ b.kind = "int" /\ a.n = b.n
                                \/ a.kind = "int" /\ Float(b) /\ Rounded[a.n] = b.n
                                \/ Float(a) /\ b.kind = "int" /\ a.n = Rounded[b.n]
                                \/ Float(a) /\ Float(b) /\ a.n = b.n
                                \/ a.kind = "string" /\ b.kind = "string" /\ a.n = b.n
<1>1. a.kind \in {"int", "float", "negzero", "nan", "string", "null"} /\ b.kind \in {"int", "float", "negzero", "nan", "string", "null"}
  BY Zenon DEF Valued
<1> QED BY <1>1 DEF QueryEqual, IsNumber, IsFloat, AsFloat, RoundToFloat, Float

\* A whole float is the integer it counts.
LEMMA Whole ==
    ASSUME NEW i \in Int, NEW h \in Int, One * i = h
    PROVE  h % One = 0 /\ h \div One = i
<1>1. PICK f \in Int : f = h \div One
  BY Zenon, Divided DEF Floor
<1>2. One * f <= h /\ h < One * f + One /\ (h % One = 0 <=> h = One * f)
  BY Zenon, <1>1, Divided DEF Floor
<1>3. /\ One \in Int /\ One * f \in Int /\ One * i \in Int
      /\ f < i => One * f + One <= One * i
      /\ i < f => One * i + One <= One * f
  BY FormatAssumption, Scaled
<1>4. f = i
  BY <1>2, <1>3, FormatAssumption
<1> QED BY Zenon, <1>1, <1>2, <1>4

\* Values that are equal and exact have one canonical form.
LEMMA CanonicalMixed ==
    ASSUME NEW a, NEW b, Valued(a), Valued(b), a.kind = "int", Float(b), Rounded[a.n] = b.n,
           Abs(b.n) < One * maxExactInt
    PROVE  uniqueValue(a) = uniqueValue(b)
<1>1. PICK i : i = a.n
  OBVIOUS
<1>2. PICK h : h = b.n
  OBVIOUS
<1>3. i \in MinInt..MaxInt /\ a = IntOf(i)
  BY Zenon, <1>1 DEF Valued
<1>4. Rounded[i] = h /\ h \in Finite
  BY Zenon, <1>1, <1>2, <1>3, FormatAssumption
<1>5. h \in Int /\ i \in Int /\ MinInt \in Int /\ MaxInt \in Int /\ One * maxExactInt \in Int
  BY <1>3, <1>4, FiniteInt, FormatAssumption, Scaled
<1>6. -(One * maxExactInt) < h /\ h < One * maxExactInt
  BY <1>2, <1>5 DEF Abs
<1>7. One * i = h
  BY Zenon, <1>3, <1>4, <1>5, <1>6, RoundedInside
<1>8. h % One = 0 /\ h \div One = i
  BY Zenon, <1>5, <1>7, Whole
<1>9. h >= One * MinInt /\ h < One * (MaxInt + 1)
  <2>1. /\ One * MinInt \in Int /\ One * (MaxInt + 1) \in Int
        /\ MinInt < i => One * MinInt < One * i
        /\ MinInt = i => One * MinInt = One * i
        /\ i < MaxInt + 1 => One * i < One * (MaxInt + 1)
    <3>1. MaxInt + 1 \in Int
      BY <1>5
    <3> QED BY Zenon, <1>5, <3>1, Scaled
  <2> QED BY <1>3, <1>5, <1>7, <2>1
<1>10. uniqueValue(a) = a
  BY <1>3 DEF uniqueValue, IntOf
<1>11. CASE b.kind = "float"
  <2>1. uniqueValue(b) = IntOf(h \div One)
    BY Zenon, <1>2, <1>8, <1>9, <1>11 DEF uniqueValue
  <2> QED BY Zenon, <1>3, <1>8, <1>10, <2>1
<1>12. CASE b.kind = "negzero"
  <2>1. h = 0
    BY Zenon, <1>2, <1>12 DEF Valued
  <2>2. i = 0
    BY <1>5, <1>7, <2>1, Scaled
  <2> QED BY Zenon, <1>3, <1>10, <1>12, <2>2 DEF uniqueValue
<1> QED BY Zenon, <1>11, <1>12 DEF Float

\* Exact values that are equal have the same unique value, and none is a NaN.
LEMMA Canonical ==
    ASSUME NEW a, NEW b, Valued(a), Valued(b), QueryEqual(a, b), IsExact(a), IsExact(b)
    PROVE  uniqueValue(a) = uniqueValue(b) /\ a.kind # "nan" /\ b.kind # "nan"
<1>1. CASE ((a.kind = "int" /\ b.kind = "int") \/ (a.kind = "string" /\ b.kind = "string")) /\ a.n = b.n
  <2>1. a = b
    BY Zenon, <1>1 DEF Valued
  <2>2. a.kind # "nan" /\ b.kind # "nan"
    BY <1>1
  <2> QED BY Zenon, <2>1, <2>2
<1>2. CASE Float(a) /\ Float(b) /\ a.n = b.n
  <2>1. uniqueValue(a) = uniqueValue(b)
    <3>1. CASE a.kind = b.kind
      BY Zenon, <1>2, <3>1 DEF Valued, Float
    <3>2. CASE (a.kind = "negzero" /\ b.kind = "float") \/ (a.kind = "float" /\ b.kind = "negzero")
      <4>1. a.n = 0 /\ b.n = 0
        BY Zenon, <1>2, <3>2 DEF Valued
      <4>2. 0 % One = 0 /\ 0 \div One = 0
        BY Whole, Scaled
      <4>3. 0 >= One * MinInt /\ 0 < One * (MaxInt + 1)
        <5>1. 0 \in -maxExactInt..maxExactInt
          BY FormatAssumption
        <5>2. 0 \in MinInt..MaxInt
          BY Zenon, <5>1, FormatAssumption
        <5>3. /\ One * MinInt \in Int /\ One * (MaxInt + 1) \in Int /\ One * 0 = 0
              /\ MinInt < 0 => One * MinInt < One * 0
              /\ 0 < MaxInt + 1 => One * 0 < One * (MaxInt + 1)
          BY FormatAssumption, Scaled
        <5> QED BY <5>2, <5>3, FormatAssumption
      <4>4. \A v : v.kind = "float" /\ v.n = 0 => uniqueValue(v) = IntOf(0)
        BY <4>2, <4>3 DEF uniqueValue
      <4>5. \A v : v.kind = "negzero" => uniqueValue(v) = IntOf(0)
        BY Zenon DEF uniqueValue
      <4>6. uniqueValue(a) = IntOf(0) /\ uniqueValue(b) = IntOf(0)
        BY Zenon, <3>2, <4>1, <4>4, <4>5
      <4> QED BY Zenon, <4>6
    <3>3. a.kind = b.kind \/ (a.kind = "negzero" /\ b.kind = "float") \/ (a.kind = "float" /\ b.kind = "negzero")
      BY <1>2 DEF Float
    <3> QED BY Zenon, <3>1, <3>2, <3>3
  <2> QED BY <1>2, <2>1 DEF Float
<1>3. ASSUME NEW v, Valued(v), Float(v), IsExact(v)
      PROVE  Abs(v.n) < One * maxExactInt /\ v.kind # "nan"
  BY <1>3 DEF IsExact, Float, IsNumber, IsFloat, AsFloat
<1>4. CASE a.kind = "int" /\ Float(b) /\ Rounded[a.n] = b.n
  <2>1. a.kind # "nan"
    BY <1>4
  <2> QED BY Zenon, <1>3, <1>4, <2>1, CanonicalMixed
<1>5. CASE Float(a) /\ b.kind = "int" /\ a.n = Rounded[b.n]
  <2>1. b.kind # "nan"
    BY <1>5
  <2>2. uniqueValue(b) = uniqueValue(a)
    BY Zenon, <1>3, <1>5, CanonicalMixed
  <2> QED BY Zenon, <1>3, <1>5, <2>1, <2>2
<1>6. \/ a.kind = "int" /\ b.kind = "int" /\ a.n = b.n
      \/ a.kind = "int" /\ Float(b) /\ Rounded[a.n] = b.n
      \/ Float(a) /\ b.kind = "int" /\ a.n = Rounded[b.n]
      \/ Float(a) /\ Float(b) /\ a.n = b.n
      \/ a.kind = "string" /\ b.kind = "string" /\ a.n = b.n
  BY Zenon, Equality
<1> QED BY Zenon, <1>1, <1>2, <1>4, <1>5, <1>6

\* Integers that a whole or broken float equals.
LEMMA IntProbe ==
    ASSUME NEW w, NEW v, Valued(w), Valued(v), w.kind = "int", v.kind = "float", v.n \in Int,
           Abs(v.n) < One * maxExactInt
    PROVE  Rounded[w.n] = v.n <=> v.n % One = 0 /\ w = IntOf(v.n \div One)
<1>1. PICK i : i = w.n
  OBVIOUS
<1>2. PICK h \in Int : h = v.n
  OBVIOUS
<1>3. i \in MinInt..MaxInt /\ w = IntOf(i) /\ i \in Int
  BY Zenon, <1>1, RoundedNear, FiniteInt DEF Valued
<1>4. One * maxExactInt \in Int
  BY FormatAssumption, Scaled
<1>5. -(One * maxExactInt) < h /\ h < One * maxExactInt
  BY <1>2, <1>4 DEF Abs
<1>6. Rounded[i] = h <=> One * i = h
  BY Zenon, <1>3, <1>5, RoundedInside
<1>7. One * i = h => h % One = 0 /\ h \div One = i
  BY Zenon, <1>3, Whole
<1>8. h % One = 0 => h = One * (h \div One)
  BY Zenon, Divided
<1>9. \A k : w = IntOf(k) => i = k
  BY <1>1 DEF IntOf
<1> QED BY Zenon, <1>1, <1>2, <1>3, <1>6, <1>7, <1>8, <1>9

\* The probes are the values that are equal, when there are few of them.
LEMMA ProbesOfInt ==
    ASSUME NEW w, NEW v, Valued(w), Valued(v), v.kind = "int"
    PROVE  /\ equalityProbes(v).exact
           /\ w \in equalityProbes(v).probes <=> QueryEqual(w, v)
<1> DEFINE P == {v, FloatOf(RoundToFloat(v.n))} \cup (IF v.n = 0 THEN {NegZero} ELSE {})
<1>1. equalityProbes(v) = [exact |-> TRUE, probes |-> P]
  BY DEF equalityProbes
<1>2. equalityProbes(v).exact /\ equalityProbes(v).probes = P
  BY <1>1
<1>3. v.n \in MinInt..MaxInt /\ v = IntOf(v.n)
  BY Zenon DEF Valued
<1>4. Rounded[v.n] \in Finite
  BY Zenon, <1>3, FormatAssumption
<1>5. Rounded[v.n] = 0 <=> v.n = 0
  <2>1. PICK i : i = v.n
    OBVIOUS
  <2>2. i \in MinInt..MaxInt /\ i \in Int
    BY Zenon, <1>3, <2>1, RoundedNear, FiniteInt
  <2>3. -(One * maxExactInt) < 0 /\ 0 < One * maxExactInt
    <3>1. One * 0 < One * maxExactInt /\ One * 0 = 0 /\ One * maxExactInt \in Int
      BY FormatAssumption, Scaled
    <3> QED BY <3>1
  <2>4. Rounded[i] = 0 <=> One * i = 0
    BY <2>2, <2>3, RoundedInside
  <2>5. One * i = One * 0 <=> i = 0
    BY ZenonT(30), <2>2, Scaled
  <2>6. One * 0 = 0
    BY Scaled
  <2> QED BY Zenon, <2>1, <2>4, <2>5, <2>6
<1>6. w \in P <=> w = v \/ w = FloatOf(Rounded[v.n]) \/ (v.n = 0 /\ w = NegZero)
  BY Zenon DEF RoundToFloat
<1>7. QueryEqual(w, v) <=> (w.kind = "int" /\ w.n = v.n) \/ (Float(w) /\ w.n = Rounded[v.n])
  <2>1. QueryEqual(w, v) <=> \/ w.kind = "int" /\ v.kind = "int" /\ w.n = v.n
                             \/ w.kind = "int" /\ Float(v) /\ Rounded[w.n] = v.n
                             \/ Float(w) /\ v.kind = "int" /\ w.n = Rounded[v.n]
                             \/ Float(w) /\ Float(v) /\ w.n = v.n
                             \/ w.kind = "string" /\ v.kind = "string" /\ w.n = v.n
    BY Zenon, Equality
  <2> QED BY <2>1 DEF Float
<1>8. w.kind = "int" /\ w.n = v.n <=> w = v
  BY Zenon, <1>3 DEF Valued
<1>9. w = FloatOf(Rounded[v.n]) <=> w.kind = "float" /\ w.n = Rounded[v.n]
  <2>1. w = FloatOf(Rounded[v.n]) => w.kind = "float" /\ w.n = Rounded[v.n]
    BY DEF FloatOf
  <2>2. w.kind = "float" => w = FloatOf(w.n)
    BY DEF Valued
  <2> QED BY Zenon, <2>1, <2>2
<1>10. v.n = 0 /\ w = NegZero <=> w.kind = "negzero" /\ w.n = Rounded[v.n]
  <2>1. w = NegZero <=> w.kind = "negzero"
    BY DEF Valued, NegZero
  <2>2. w = NegZero => w.n = 0
    BY DEF NegZero
  <2> QED BY Zenon, <1>5, <2>1, <2>2
<1>11. Float(w) <=> w.kind = "float" \/ w.kind = "negzero"
  BY Zenon DEF Float
<1> HIDE DEF P
<1> QED BY Zenon, <1>2, <1>6, <1>7, <1>8, <1>9, <1>10, <1>11

\* The probes of a float are the values equal to it.
LEMMA ProbesOfFloat ==
    ASSUME NEW w, NEW v, Valued(w), Valued(v), v.kind = "float" \/ v.kind = "negzero",
           equalityProbes(v).exact
    PROVE  w \in equalityProbes(v).probes <=> QueryEqual(w, v)
<1>1. QueryEqual(w, v) <=> (w.kind = "int" /\ Rounded[w.n] = v.n) \/ (Float(w) /\ w.n = v.n)
  <2>1. QueryEqual(w, v) <=> \/ w.kind = "int" /\ v.kind = "int" /\ w.n = v.n
                             \/ w.kind = "int" /\ Float(v) /\ Rounded[w.n] = v.n
                             \/ Float(w) /\ v.kind = "int" /\ w.n = Rounded[v.n]
                             \/ Float(w) /\ Float(v) /\ w.n = v.n
                             \/ w.kind = "string" /\ v.kind = "string" /\ w.n = v.n
    BY Zenon, Equality
  <2> QED BY <2>1 DEF Float
<1>2. /\ w.kind = "int" => w.n \in MinInt..MaxInt /\ w = IntOf(w.n) /\ Rounded[w.n] \in Finite
      /\ w.kind = "float" => w = FloatOf(w.n)
      /\ w.kind = "negzero" <=> w = NegZero
      /\ w.kind = "negzero" => w.n = 0
  <2>1. w.kind = "int" => w.n \in MinInt..MaxInt /\ w = IntOf(w.n)
    BY DEF Valued
  <2>2. w.kind = "int" => Rounded[w.n] \in Finite
    BY Zenon, <2>1, FormatAssumption
  <2>3. w.kind = "float" => w = FloatOf(w.n)
    BY DEF Valued
  <2>4. (w.kind = "negzero" <=> w = NegZero) /\ (w.kind = "negzero" => w.n = 0)
    BY DEF Valued, NegZero
  <2> QED BY Zenon, <2>1, <2>2, <2>3, <2>4
<1>3. \A k : (w = IntOf(k) => w.kind = "int" /\ w.n = k) /\ (w = FloatOf(k) => w.kind = "float" /\ w.n = k)
  BY DEF IntOf, FloatOf
<1>4. Float(w) <=> w.kind = "float" \/ w.kind = "negzero"
  BY Zenon DEF Float
<1>5. v.n \in Int
  BY FloatInt DEF Valued
<1>6. -(One * maxExactInt) < 0 /\ 0 < One * maxExactInt /\ One * maxExactInt \in Int
  <2>1. One * 0 < One * maxExactInt /\ One * 0 = 0 /\ One * maxExactInt \in Int
    BY FormatAssumption, Scaled
  <2> QED BY <2>1
<1>7. CASE v.n = 0
  <2>1. equalityProbes(v).probes = {IntOf(0), FloatOf(0), NegZero}
    <3>1. Abs(0) # Infinite /\ ~(v.kind = "float" /\ v.n # 0)
      BY <1>7, FiniteInt DEF Abs
    <3> QED BY <1>7, <3>1 DEF equalityProbes
  <2>2. w.kind = "int" => (Rounded[w.n] = 0 <=> w.n = 0)
    <3> SUFFICES ASSUME w.kind = "int" PROVE Rounded[w.n] = 0 <=> w.n = 0
      BY Zenon
    <3>1. PICK i : i = w.n
      OBVIOUS
    <3>2. i \in MinInt..MaxInt /\ i \in Int
      BY Zenon, <1>2, <3>1, RoundedNear, FiniteInt
    <3>3. Rounded[i] = 0 <=> One * i = 0
      BY <1>6, <3>2, RoundedInside
    <3>4. 0 \in Int /\ One * 0 = 0
      BY Scaled
    <3>5. One * i = One * 0 <=> i = 0
      BY Zenon, <3>2, <3>4, Scaled
    <3> QED BY Zenon, <3>1, <3>3, <3>4, <3>5
  <2>3. w \in equalityProbes(v).probes <=> w = IntOf(0) \/ w = FloatOf(0) \/ w = NegZero
    BY Zenon, <2>1
  <2> QED BY Zenon, <1>1, <1>2, <1>3, <1>4, <1>7, <2>2, <2>3
<1>8. CASE v.n # 0
  <2>1. v.kind = "float" /\ v = FloatOf(v.n)
    BY <1>8 DEF Valued
  <2>2. w = v <=> w.kind = "float" /\ w.n = v.n
    BY Zenon, <1>2, <1>3, <2>1
  <2>3. w.kind = "negzero" => w.n # v.n
    BY Zenon, <1>2, <1>8
  <2>4. CASE Abs(v.n) = Infinite
    <3>1. equalityProbes(v).probes = {v}
      <4>1. maxExactInt \in -maxExactInt..maxExactInt
        BY FormatAssumption
      <4>2. One * maxExactInt \in Finite
        BY Zenon, <4>1, FormatAssumption
      <4>3. ~(Infinite < One * maxExactInt)
        BY <1>6, <4>2, FiniteInt
      <4>4. equalityProbes(v) = [exact |-> TRUE, probes |-> {v}]
        BY <1>8, <2>1, <2>4, <4>3 DEF equalityProbes
      <4> QED BY <4>4
    <3>2. v.n \notin Finite
      BY <1>5, <2>4, FiniteInt DEF Abs
    <3> QED BY Zenon, <1>1, <1>2, <1>4, <2>2, <2>3, <3>1, <3>2
  <2>5. CASE Abs(v.n) # Infinite
    <3>1. Abs(v.n) < One * maxExactInt
      <4>1. ~(Abs(v.n) >= One * maxExactInt)
        <5>1. ASSUME Abs(v.n) >= One * maxExactInt PROVE equalityProbes(v) = [exact |-> FALSE, probes |-> {}]
          <6>1. ~(Abs(v.n) < One * maxExactInt)
            BY <1>5, <1>6, <5>1 DEF Abs
          <6> QED BY <1>8, <2>1, <2>5, <5>1, <6>1 DEF equalityProbes
        <5> QED BY <5>1
      <4> QED BY <1>5, <1>6, <4>1 DEF Abs
    <3>2. w.kind = "int" => (Rounded[w.n] = v.n <=> v.n % One = 0 /\ w = IntOf(v.n \div One))
      BY Zenon, <1>5, <2>1, <3>1, IntProbe
    <3>3. CASE v.n % One = 0
      <4>1. equalityProbes(v) = [exact |-> TRUE, probes |-> {v, IntOf(v.n \div One)}]
        BY <1>5, <1>6, <1>8, <2>1, <2>5, <3>1, <3>3 DEF equalityProbes, Abs
      <4>2. equalityProbes(v).probes = {v, IntOf(v.n \div One)}
        BY <4>1
      <4> QED BY Zenon, <1>1, <1>2, <1>3, <1>4, <2>2, <2>3, <3>2, <3>3, <4>2
    <3>4. CASE v.n % One # 0
      <4>1. equalityProbes(v) = [exact |-> TRUE, probes |-> {v}]
        BY <1>5, <1>6, <1>8, <2>1, <2>5, <3>1, <3>4 DEF equalityProbes, Abs
      <4>2. equalityProbes(v).probes = {v}
        BY <4>1
      <4> QED BY Zenon, <1>1, <1>2, <1>4, <2>2, <2>3, <3>2, <3>4, <4>2
    <3> QED BY Zenon, <3>3, <3>4
  <2> QED BY Zenon, <2>4, <2>5
<1> QED BY Zenon, <1>7, <1>8

\* math.Nextafter goes to the next float and no further.
LEMMA NextFloat ==
    ASSUME NEW h \in Finite
    PROVE  /\ NextUp(h) \in Int /\ h < NextUp(h) /\ NextUp(h) <= Infinite
           /\ \A k \in Finite : h < k => NextUp(h) <= k
<1>1. h \in Int /\ -MaxFinite <= h /\ h <= MaxFinite
  BY Zenon, FiniteInt
<1>2. h # -Infinite
  BY <1>1, FiniteInt
<1>3. CASE h = MaxFinite
  <2>1. NextUp(h) = Infinite
    BY Zenon, <1>3 DEF NextUp
  <2>2. \A k \in Finite : ~(h < k)
    BY <1>1, <1>3, FiniteInt
  <2> QED BY <1>1, <1>3, <2>1, <2>2, FiniteInt
<1>4. CASE h # MaxFinite
  <2> DEFINE More == {k - h : k \in {g \in Finite : g > h}}
  <2>1. More \subseteq Nat
    BY <1>1, FiniteInt
  <2>2. MaxFinite \in Finite /\ MaxFinite > h
    BY <1>1, <1>4, FiniteInt, FormatAssumption
  <2>3. More # {}
    BY Zenon, <2>2
  <2> HIDE DEF More
  <2>4. PICK d \in More : \A e \in More : d <= e
    BY Zenon, <2>1, <2>3, LeastOf
  <2>5. PICK g \in Finite : g > h /\ d = g - h
    BY Zenon, <2>4 DEF More
  <2>6. ASSUME NEW k \in Finite, k > h PROVE g <= k
    <3>1. k - h \in More
      BY Zenon, <2>6 DEF More
    <3>2. g - h <= k - h
      BY Zenon, <2>4, <2>5, <3>1
    <3>3. g \in Int /\ k \in Int
      BY Zenon, FiniteInt
    <3> QED BY <1>1, <3>2, <3>3
  <2>7. PICK u : u = (CHOOSE f \in Finite : f > h /\ \A k \in Finite : k > h => f <= k)
    OBVIOUS
  <2>8. u \in Finite /\ u > h /\ \A k \in Finite : k > h => u <= k
    BY Zenon, <2>5, <2>6, <2>7
  <2>9. Above[h] = u
    BY Zenon, <1>4, <2>7 DEF Above
  <2>10. NextUp(h) = u
    BY Zenon, <1>2, <1>4, <2>9 DEF NextUp
  <2>11. u \in Int /\ u <= Infinite
    BY <2>8, FiniteInt
  <2>12. h < u /\ \A k \in Finite : h < k => u <= k
    <3>1. \A k \in Finite : h < k => k > h
      BY <1>1, FiniteInt
    <3>2. h < u
      BY <1>1, <2>8, <2>11
    <3> QED BY Zenon, <2>8, <3>1, <3>2
  <2> QED BY Zenon, <2>10, <2>11, <2>12
<1> QED BY Zenon, <1>3, <1>4

\* The float before a float is below it.
LEMMA PreviousFloat ==
    ASSUME NEW h \in Finite
    PROVE  NextDown(h) \in Int /\ NextDown(h) < h
<1>1. -h \in Finite /\ h \in Int
  BY Zenon, FiniteInt
<1>2. NextUp(-h) \in Int /\ -h < NextUp(-h)
  BY Zenon, <1>1, NextFloat
<1> QED BY <1>1, <1>2 DEF NextDown

\* The comparison of queries, kind by kind.
Number(v) == v.kind \in {"int", "float", "negzero"}
Below(x, y, orEqual) == x < y \/ (orEqual /\ x = y)
\* Less is one of these cases.
LEMMA Comparison ==
    ASSUME NEW a, NEW b, NEW orEqual, Valued(a), Valued(b), Less(a, b, orEqual)
    PROVE  \/ /\ Number(a) /\ Number(b)
              /\ IF a.kind = "int" /\ b.kind = "int" THEN Below(a.n, b.n, orEqual)
                 ELSE Below(AsFloat(a), AsFloat(b), orEqual)
           \/ a.kind = "string" /\ b.kind = "string" /\ Below(a.n, b.n, orEqual)
<1>1. a.kind \in {"int", "float", "negzero", "nan", "string", "null"} /\ b.kind \in {"int", "float", "negzero", "nan", "string", "null"}
  BY Zenon DEF Valued
<1> QED BY <1>1 DEF Less, IsNumber, IsFloat, Number, Below

\* A number as a float is one.
LEMMA FloatNumber ==
    ASSUME NEW v, Valued(v), Number(v)
    PROVE  /\ v.n \in Int /\ AsFloat(v) \in Int /\ -Infinite <= AsFloat(v) /\ AsFloat(v) <= Infinite
           /\ AsFloat(v) \in Finite \/ AsFloat(v) = Infinite \/ AsFloat(v) = -Infinite
           /\ v.kind = "int" => AsFloat(v) \in Finite /\ AsFloat(v) = Rounded[v.n] /\ v.n \in MinInt..MaxInt
           /\ v.kind # "int" => AsFloat(v) = v.n
<1>1. CASE v.kind = "int"
  <2>1. v.n \in MinInt..MaxInt
    BY <1>1 DEF Valued
  <2>2. Rounded[v.n] \in Finite
    BY Zenon, <2>1, FormatAssumption
  <2>3. AsFloat(v) = Rounded[v.n]
    BY Zenon, <1>1 DEF AsFloat, RoundToFloat
  <2>4. v.n \in Int
    BY <2>1, FormatAssumption
  <2>5. PICK r : r = Rounded[v.n]
    OBVIOUS
  <2>6. r \in Finite /\ AsFloat(v) = r
    BY Zenon, <2>2, <2>3, <2>5
  <2>7. r \in Int /\ -Infinite <= r /\ r <= Infinite
    BY <2>6, FiniteInt
  <2> QED BY Zenon, <1>1, <2>1, <2>4, <2>5, <2>6, <2>7
<1>2. CASE v.kind = "float" \/ v.kind = "negzero"
  <2>1. AsFloat(v) = v.n /\ v.kind # "int"
    BY <1>2 DEF AsFloat
  <2>2. v.n \in Finite \/ v.n = Infinite \/ v.n = -Infinite
    BY <1>2, FiniteInt DEF Valued
  <2> QED BY <2>1, <2>2, FloatInt
<1> QED BY Zenon, <1>1, <1>2 DEF Number

\* A bound of a range.
Bounded(b) == b.incl \in BOOLEAN /\ Valued(b.v)

\* No integer that the comparison accepts is before the start of the band.
LEMMA IntStart ==
    ASSUME NEW w, NEW b, Valued(w), w.kind = "int", Bounded(b), Less(b.v, w, b.incl), intLowerBound(b).ok
    PROVE  w.n >= intLowerBound(b).n
<1>1. PICK v : v = b.v
  OBVIOUS
<1>2. Valued(v) /\ Less(v, w, b.incl) /\ b.incl \in BOOLEAN
  BY Zenon, <1>1 DEF Bounded
<1>3. \/ /\ Number(v) /\ Number(w)
         /\ IF v.kind = "int" /\ w.kind = "int" THEN Below(v.n, w.n, b.incl)
            ELSE Below(AsFloat(v), AsFloat(w), b.incl)
      \/ v.kind = "string" /\ w.kind = "string" /\ Below(v.n, w.n, b.incl)
  BY Zenon, <1>2, Comparison
<1>4. /\ Number(v) /\ Number(w)
      /\ IF v.kind = "int" THEN Below(v.n, w.n, b.incl) ELSE Below(AsFloat(v), AsFloat(w), b.incl)
  BY <1>3
<1>5. PICK i : i = w.n
  OBVIOUS
<1>6. i \in MinInt..MaxInt /\ i \in Int /\ AsFloat(w) = Rounded[i]
  BY Zenon, <1>4, <1>5, FloatNumber
<1>7. PICK h \in Int : h = v.n
  BY Zenon, <1>2, <1>4, FloatNumber
<1>8. CASE v.kind = "int"
  <2>1. intLowerBound(b) = (IF b.incl THEN Exactly(h) ELSE IF h = MaxInt THEN Open ELSE Exactly(h + 1))
    BY <1>1, <1>2, <1>7, <1>8 DEF intLowerBound
  <2>2. Below(h, i, b.incl)
    BY Zenon, <1>4, <1>5, <1>7, <1>8
  <2> QED BY <1>2, <1>5, <1>6, <2>1, <2>2 DEF Below, Exactly, Open
<1>9. CASE v.kind # "int"
  <2>1. intLowerBound(b) = (IF Abs(h) >= One * maxExactInt THEN Open
                            ELSE Exactly(IF b.incl THEN Ceil(h) ELSE Floor(h) + 1))
    BY <1>1, <1>7, <1>9 DEF intLowerBound
  <2>2. ~(Abs(h) >= One * maxExactInt)
    BY <2>1 DEF Open
  <2>3. One * maxExactInt \in Int
    BY FormatAssumption, Scaled
  <2>4. -(One * maxExactInt) < h /\ h < One * maxExactInt
    BY <2>2, <2>3 DEF Abs
  <2>5. Below(h, Rounded[i], b.incl)
    BY Zenon, <1>2, <1>4, <1>6, <1>7, <1>9, FloatNumber
  <2>6. Below(h, One * i, b.incl)
    BY Zenon, <1>6, <2>4, <2>5, RoundedInside DEF Below
  <2>7. One \in Int /\ One > 0 /\ One * i \in Int
    BY <1>6, FormatAssumption, Scaled
  <2>8. CASE b.incl
    <3>1. PICK c \in Int : c = Ceil(h) /\ h > One * c - One
      BY Zenon, Divided
    <3>2. One * c \in Int /\ (i < c => One * i + One <= One * c)
      BY Zenon, <1>6, <3>1, Scaled
    <3>3. i >= c
      BY <1>6, <2>6, <2>7, <2>8, <3>1, <3>2 DEF Below
    <3>4. intLowerBound(b) = Exactly(c)
      BY Zenon, <2>1, <2>2, <2>8, <3>1
    <3> QED BY <1>5, <3>3, <3>4 DEF Exactly
  <2>9. CASE ~b.incl
    <3>1. PICK c \in Int : c = Floor(h) /\ One * c <= h
      BY Zenon, Divided
    <3>2. One * c \in Int /\ (One * c < One * i <=> c < i)
      BY Zenon, <1>6, <3>1, Scaled
    <3>3. i >= c + 1
      BY <1>6, <2>6, <2>7, <2>9, <3>1, <3>2 DEF Below
    <3>4. intLowerBound(b) = Exactly(c + 1)
      BY Zenon, <2>1, <2>2, <2>9, <3>1
    <3> QED BY <1>5, <3>3, <3>4 DEF Exactly
  <2> QED BY Zenon, <2>8, <2>9
<1> QED BY Zenon, <1>8, <1>9

\* Nor is one behind its end.
LEMMA IntStop ==
    ASSUME NEW w, NEW b, Valued(w), w.kind = "int", Bounded(b), Less(w, b.v, b.incl), intUpperBound(b).ok
    PROVE  intUpperBound(b).n \in Int /\ w.n <= intUpperBound(b).n
<1>1. PICK v : v = b.v
  OBVIOUS
<1>2. Valued(v) /\ Less(w, v, b.incl) /\ b.incl \in BOOLEAN
  BY Zenon, <1>1 DEF Bounded
<1>3. \/ /\ Number(w) /\ Number(v)
         /\ IF w.kind = "int" /\ v.kind = "int" THEN Below(w.n, v.n, b.incl)
            ELSE Below(AsFloat(w), AsFloat(v), b.incl)
      \/ w.kind = "string" /\ v.kind = "string" /\ Below(w.n, v.n, b.incl)
  BY Zenon, <1>2, Comparison
<1>4. /\ Number(v) /\ Number(w)
      /\ IF v.kind = "int" THEN Below(w.n, v.n, b.incl) ELSE Below(AsFloat(w), AsFloat(v), b.incl)
  BY <1>3
<1>5. PICK i : i = w.n
  OBVIOUS
<1>6. i \in MinInt..MaxInt /\ i \in Int /\ AsFloat(w) = Rounded[i]
  BY Zenon, <1>4, <1>5, FloatNumber
<1>7. PICK h \in Int : h = v.n
  BY Zenon, <1>2, <1>4, FloatNumber
<1>8. CASE v.kind = "int"
  <2>1. intUpperBound(b) = (IF b.incl THEN Exactly(h) ELSE IF h = MinInt THEN Open ELSE Exactly(h - 1))
    BY <1>1, <1>2, <1>7, <1>8 DEF intUpperBound
  <2>2. Below(i, h, b.incl)
    BY Zenon, <1>4, <1>5, <1>7, <1>8
  <2> QED BY <1>2, <1>5, <1>6, <2>1, <2>2 DEF Below, Exactly, Open
<1>9. CASE v.kind # "int"
  <2>1. intUpperBound(b) = (IF Abs(h) >= One * maxExactInt THEN Open
                            ELSE Exactly(IF b.incl THEN Floor(h) ELSE Ceil(h) - 1))
    BY <1>1, <1>7, <1>9 DEF intUpperBound
  <2>2. ~(Abs(h) >= One * maxExactInt)
    BY <2>1 DEF Open
  <2>3. One * maxExactInt \in Int
    BY FormatAssumption, Scaled
  <2>4. -(One * maxExactInt) < h /\ h < One * maxExactInt
    BY <2>2, <2>3 DEF Abs
  <2>5. Below(Rounded[i], h, b.incl)
    BY Zenon, <1>2, <1>4, <1>6, <1>7, <1>9, FloatNumber
  <2>6. Below(One * i, h, b.incl)
    BY Zenon, <1>6, <2>4, <2>5, RoundedInside DEF Below
  <2>7. One \in Int /\ One > 0 /\ One * i \in Int
    BY <1>6, FormatAssumption, Scaled
  <2>8. CASE b.incl
    <3>1. PICK c \in Int : c = Floor(h) /\ h < One * c + One
      BY Zenon, Divided
    <3>2. One * c \in Int /\ (c < i => One * c + One <= One * i)
      BY Zenon, <1>6, <3>1, Scaled
    <3>3. i <= c
      BY <1>6, <2>6, <2>7, <2>8, <3>1, <3>2 DEF Below
    <3>4. intUpperBound(b) = Exactly(c)
      BY Zenon, <2>1, <2>2, <2>8, <3>1
    <3> QED BY <1>5, <3>3, <3>4 DEF Exactly
  <2>9. CASE ~b.incl
    <3>1. PICK c \in Int : c = Ceil(h) /\ One * c >= h
      BY Zenon, Divided
    <3>2. One * c \in Int /\ (One * i < One * c <=> i < c)
      BY Zenon, <1>6, <3>1, Scaled
    <3>3. i <= c - 1 /\ c - 1 \in Int
      BY <1>6, <2>6, <2>7, <2>9, <3>1, <3>2 DEF Below
    <3>4. intUpperBound(b) = Exactly(c - 1)
      BY Zenon, <2>1, <2>2, <2>9, <3>1
    <3> QED BY <1>5, <3>3, <3>4 DEF Exactly
  <2> QED BY Zenon, <2>8, <2>9
<1> QED BY Zenon, <1>8, <1>9

\* Both zeros, and the order of floats in their band.
LEMMA FloatRank ==
    ASSUME NEW w, Valued(w), Float(w)
    PROVE  /\ w.n \in Int /\ AsFloat(w) = w.n /\ Number(w) /\ Rank(w) \in Int
           /\ Rank(w) = 2 * w.n \/ (w.n = 0 /\ Rank(w) = -1)
           /\ w.n \in Finite \/ w.n = Infinite \/ w.n = -Infinite
<1>1. Number(w) /\ w.kind # "int"
  BY DEF Float, Number
<1>2. w.n \in Int /\ AsFloat(w) = w.n /\ (AsFloat(w) \in Finite \/ AsFloat(w) = Infinite \/ AsFloat(w) = -Infinite)
  BY Zenon, <1>1, FloatNumber
<1>3. CASE w.kind = "float"
  <2>1. Rank(w) = 2 * w.n
    BY <1>3 DEF Rank
  <2> QED BY <1>1, <1>2, <2>1
<1>4. CASE w.kind = "negzero"
  <2>1. Rank(w) = -1 /\ w.n = 0
    BY <1>4 DEF Rank, Valued
  <2> QED BY <1>1, <1>2, <2>1
<1> QED BY Zenon, <1>3, <1>4 DEF Float

\* Where a float lies in its band.
LEMMA RankOf ==
    ASSUME NEW h \in Int
    PROVE  Rank(FloatOf(h)) = 2 * h /\ Rank(NegZero) = -1
BY DEF Rank, FloatOf, NegZero

\* No float that the comparison accepts is before the start of the band.
LEMMA FloatStart ==
    ASSUME NEW w, NEW b, Valued(w), Float(w), Bounded(b), Less(b.v, w, b.incl), AsFloat(b.v) # -Infinite
    PROVE  Rank(w) >= floatStart(b)
<1>1. PICK v : v = b.v
  OBVIOUS
<1>2. Valued(v) /\ Less(v, w, b.incl) /\ b.incl \in BOOLEAN
  BY Zenon, <1>1 DEF Bounded
<1>3. \/ /\ Number(v) /\ Number(w)
         /\ IF v.kind = "int" /\ w.kind = "int" THEN Below(v.n, w.n, b.incl)
            ELSE Below(AsFloat(v), AsFloat(w), b.incl)
      \/ v.kind = "string" /\ w.kind = "string" /\ Below(v.n, w.n, b.incl)
  BY Zenon, <1>2, Comparison
<1>4. w.kind # "int" /\ w.kind # "string"
  BY DEF Float
<1>5. Number(v) /\ Below(AsFloat(v), AsFloat(w), b.incl)
  BY Zenon, <1>3, <1>4
<1>6. PICK l : l = AsFloat(v)
  OBVIOUS
<1>7. /\ l \in Int /\ l <= Infinite /\ (l \in Finite \/ l = Infinite) /\ (v.kind = "int" => l \in Finite)
      /\ l # -Infinite
  BY Zenon, <1>1, <1>2, <1>5, <1>6, FloatNumber
<1>8. PICK h : h = w.n
  OBVIOUS
<1>9. PICK r : r = Rank(w)
  OBVIOUS
<1>10. /\ h \in Int /\ r \in Int /\ (r = 2 * h \/ (h = 0 /\ r = -1))
       /\ h \in Finite \/ h = Infinite \/ h = -Infinite
       /\ Below(l, h, b.incl)
  BY Zenon, <1>5, <1>6, <1>8, <1>9, FloatRank
<1>11. l <= h /\ h <= Infinite /\ Infinite \in Int /\ (l < h => l # Infinite)
  <2>1. l < h \/ l = h
    BY Zenon, <1>10 DEF Below
  <2>2. h <= Infinite /\ Infinite \in Int
    BY Zenon, <1>10, FloatInt, FiniteInt
  <2> QED BY <1>7, <1>10, <2>1, <2>2
<1>12. CASE ~FloatExact(v)
  <2>1. l \in Finite
    BY Zenon, <1>7, <1>12 DEF FloatExact
  <2>2. PICK d \in Int : d = NextDown(l) /\ d < l
    BY Zenon, <2>1, PreviousFloat
  <2>3. floatStart(b) = Rank(FloatOf(d))
    BY <1>1, <1>6, <1>12, <2>2 DEF floatStart
  <2>4. floatStart(b) = 2 * d
    BY Zenon, <2>3, RankOf
  <2>5. r >= 2 * d
    BY <1>7, <1>10, <1>11, <2>2
  <2> QED BY Zenon, <1>9, <2>4, <2>5
<1>13. CASE FloatExact(v) /\ ~b.incl
  <2>1. l < h
    BY <1>10, <1>13 DEF Below
  <2>2. l # Infinite /\ l \in Finite
    BY Zenon, <1>7, <1>11, <2>1
  <2>3. PICK u \in Int : u = NextUp(l) /\ l < u /\ u <= Infinite /\ (h \in Finite => u <= h)
    BY Zenon, <2>1, <2>2, NextFloat
  <2>4. floatStart(b) = Rank(After(l))
    BY <1>1, <1>6, <1>13, <2>2 DEF floatStart
  <2>5. floatStart(b) = (IF u = 0 THEN -1 ELSE 2 * u)
    <3>1. u = 0 => floatStart(b) = Rank(NegZero)
      BY Zenon, <2>3, <2>4 DEF After
    <3>2. u # 0 => floatStart(b) = Rank(FloatOf(u))
      BY Zenon, <2>3, <2>4 DEF After
    <3> QED BY Zenon, <3>1, <3>2, RankOf
  <2>6. u <= h
    <3>1. h # -Infinite
      BY <1>7, <1>10, <2>1, <2>2, FiniteInt
    <3> QED BY Zenon, <1>10, <2>3, <3>1
  <2>7. r >= floatStart(b)
    BY <1>10, <2>3, <2>5, <2>6
  <2> QED BY Zenon, <1>9, <2>7
<1>14. CASE FloatExact(v) /\ b.incl
  <2>1. floatStart(b) = Rank(IF l = 0 THEN NegZero ELSE FloatOf(l))
    BY <1>1, <1>6, <1>14 DEF floatStart
  <2>2. floatStart(b) = (IF l = 0 THEN -1 ELSE 2 * l)
    BY Zenon, <1>7, <2>1, RankOf
  <2>3. r >= floatStart(b)
    BY <1>7, <1>10, <1>11, <2>2
  <2> QED BY Zenon, <1>9, <2>3
<1> QED BY Zenon, <1>2, <1>12, <1>13, <1>14

\* No float stops the scan before one that the comparison accepts.
LEMMA FloatStop ==
    ASSUME NEW w, NEW f, NEW b, Valued(w), Float(w), Valued(f), Float(f) \/ f.kind = "nan",
           Rank(f) <= Rank(w), Bounded(b), Less(w, b.v, b.incl)
    PROVE  ~floatStop(b, f)
<1>1. PICK v : v = b.v
  OBVIOUS
<1>2. Valued(v) /\ Less(w, v, b.incl) /\ b.incl \in BOOLEAN
  BY Zenon, <1>1 DEF Bounded
<1>3. \/ /\ Number(w) /\ Number(v)
         /\ IF w.kind = "int" /\ v.kind = "int" THEN Below(w.n, v.n, b.incl)
            ELSE Below(AsFloat(w), AsFloat(v), b.incl)
      \/ w.kind = "string" /\ v.kind = "string" /\ Below(w.n, v.n, b.incl)
  BY Zenon, <1>2, Comparison
<1>4. w.kind # "int" /\ w.kind # "string"
  BY DEF Float
<1>5. Number(v) /\ Below(AsFloat(w), AsFloat(v), b.incl)
  BY Zenon, <1>3, <1>4
<1>6. PICK u : u = AsFloat(v)
  OBVIOUS
<1>7. u \in Int /\ (v.kind = "int" => u \in Finite)
  BY Zenon, <1>2, <1>5, <1>6, FloatNumber
<1>8. CASE f.kind = "nan"
  BY <1>8 DEF floatStop
<1>9. CASE Float(f)
  <2>1. PICK h : h = w.n
    OBVIOUS
  <2>2. PICK g : g = f.n
    OBVIOUS
  <2>3. /\ h \in Int /\ Rank(w) \in Int /\ (Rank(w) = 2 * h \/ (h = 0 /\ Rank(w) = -1))
        /\ Below(h, u, b.incl)
    BY Zenon, <1>5, <1>6, <2>1, FloatRank
  <2>4. g \in Int /\ Rank(f) \in Int /\ (Rank(f) = 2 * g \/ (g = 0 /\ Rank(f) = -1))
    BY Zenon, <1>9, <2>2, FloatRank
  <2>5. g <= h
    BY <2>3, <2>4
  <2>6. CASE FloatExact(v)
    <3>1. ~(IF b.incl THEN g > u ELSE g >= u)
      BY <1>2, <1>7, <2>3, <2>4, <2>5 DEF Below
    <3> QED BY Zenon, <1>1, <1>6, <2>2, <2>6, <3>1 DEF floatStop
  <2>7. CASE ~FloatExact(v)
    <3>1. u \in Finite
      BY Zenon, <1>7, <2>7 DEF FloatExact
    <3>2. NextUp(u) \in Int /\ u < NextUp(u)
      BY Zenon, <3>1, NextFloat
    <3>3. ~(g > NextUp(u))
      BY <1>7, <2>3, <2>4, <2>5, <3>2 DEF Below
    <3> QED BY Zenon, <1>1, <1>6, <2>2, <2>7, <3>3 DEF floatStop
  <2> QED BY Zenon, <2>6, <2>7
<1> QED BY Zenon, <1>8, <1>9

\* The band of a value says its kind.
LEMMA BandOf ==
    ASSUME NEW v, Valued(v)
    PROVE  /\ Band(v) = 2 <=> v.kind = "int"
           /\ Band(v) = 3 <=> Float(v) \/ v.kind = "nan"
           /\ Band(v) = 4 <=> v.kind = "string"
           /\ v.kind = "int" => Rank(v) = v.n /\ v.n \in Int
           /\ v.kind = "string" => Rank(v) = v.n /\ v.n \in Int
<1>1. v.kind \in {"int", "float", "negzero", "nan", "string", "null"}
  BY Zenon DEF Valued
<1>2. (v.kind = "int" => v.n \in Int) /\ (v.kind = "string" => v.n \in Int)
  BY FormatAssumption DEF Valued
<1>3. /\ Band(v) = 2 <=> v.kind = "int"
      /\ Band(v) = 3 <=> Float(v) \/ v.kind = "nan"
      /\ Band(v) = 4 <=> v.kind = "string"
  BY <1>1 DEF Band, IsFloat, Float
<1>4. (v.kind = "int" => Rank(v) = v.n) /\ (v.kind = "string" => Rank(v) = v.n)
  BY <1>1 DEF Rank
<1> QED BY Zenon, <1>2, <1>3, <1>4

\* Every value has a place in its band.
LEMMA RankInt ==
    ASSUME NEW v, Valued(v)
    PROVE  Rank(v) \in Int
<1>1. CASE Float(v)
  BY Zenon, <1>1, FloatRank
<1>2. CASE v.kind = "nan"
  BY <1>2, FiniteInt DEF Rank
<1>3. CASE v.kind = "int" \/ v.kind = "string"
  BY <1>3, BandOf
<1>4. CASE v.kind = "null"
  <2>1. v.n = 0
    BY <1>4 DEF Valued, Null
  <2> QED BY <1>4, <2>1 DEF Rank
<1> QED BY <1>1, <1>2, <1>3, <1>4 DEF Valued, Float

\* What the comparison accepts is a number or text, and the bound is of its kind.
LEMMA SameKind ==
    ASSUME NEW a, NEW b, NEW orEqual, Valued(a), Valued(b), Less(a, b, orEqual)
    PROVE  \/ Number(a) /\ Number(b) /\ valueKind(a) = "number" /\ valueKind(b) = "number"
           \/ a.kind = "string" /\ b.kind = "string" /\ valueKind(a) = "string" /\ valueKind(b) = "string"
<1>1. (Number(a) /\ Number(b)) \/ (a.kind = "string" /\ b.kind = "string")
  BY Zenon, Comparison
<1> QED BY <1>1 DEF valueKind, Number

\* Nothing accepted is before the start of its band.
LEMMA Starts ==
    ASSUME NEW w, NEW lo, Valued(w), w.kind = "int" \/ Float(w) \/ w.kind = "string",
           lo.has \in BOOLEAN, Bounded(lo), lo.has => Less(lo.v, w, lo.incl)
    PROVE  start(Band(w), lo, Rank(w))
<1>1. CASE ~lo.has
  BY Zenon, <1>1 DEF start
<1>2. CASE lo.has /\ w.kind = "int"
  <2>1. Band(w) = 2 /\ Rank(w) = w.n
    BY Zenon, <1>2, BandOf
  <2>2. intLowerBound(lo).ok => w.n >= intLowerBound(lo).n
    BY Zenon, <1>2, IntStart
  <2> QED BY <1>2, <2>1, <2>2 DEF start
<1>3. CASE lo.has /\ Float(w)
  <2>1. Band(w) = 3
    BY Zenon, <1>3, BandOf
  <2>2. AsFloat(lo.v) # -Infinite => Rank(w) >= floatStart(lo)
    BY Zenon, <1>3, FloatStart
  <2> QED BY <1>3, <2>1, <2>2 DEF start
<1>4. CASE lo.has /\ w.kind = "string"
  <2>1. Band(w) = 4 /\ Rank(w) = w.n /\ w.n \in Int
    BY Zenon, <1>4, BandOf
  <2>2. Valued(lo.v) /\ Less(lo.v, w, lo.incl)
    BY Zenon, <1>4 DEF Bounded
  <2>3. \/ /\ Number(lo.v) /\ Number(w)
           /\ IF lo.v.kind = "int" /\ w.kind = "int" THEN Below(lo.v.n, w.n, lo.incl)
              ELSE Below(AsFloat(lo.v), AsFloat(w), lo.incl)
        \/ lo.v.kind = "string" /\ w.kind = "string" /\ Below(lo.v.n, w.n, lo.incl)
    BY Zenon, <2>2, Comparison
  <2>4. lo.v.kind = "string" /\ Below(lo.v.n, w.n, lo.incl)
    BY <1>4, <2>3 DEF Number
  <2>5. lo.v.n \in Int
    BY Zenon, <2>2, <2>4, BandOf
  <2>6. w.n >= lo.v.n
    <3>1. lo.v.n < w.n \/ lo.v.n = w.n
      BY Zenon, <2>4 DEF Below
    <3> QED BY <2>1, <2>5, <3>1
  <2> QED BY <1>4, <2>1, <2>6 DEF start
<1> QED BY Zenon, <1>1, <1>2, <1>3, <1>4

\* No entry ends the scan of a band before an accepted one.
LEMMA NotStopped ==
    ASSUME NEW w, NEW f, NEW hi, Valued(w), w.kind = "int" \/ Float(w) \/ w.kind = "string",
           Valued(f), Band(f) = Band(w), Rank(f) <= Rank(w),
           hi.has \in BOOLEAN, Bounded(hi), hi.has => Less(w, hi.v, hi.incl)
    PROVE  ~stop(Band(w), hi, f)
<1>1. CASE ~hi.has
  BY Zenon, <1>1 DEF stop
<1>2. CASE hi.has /\ w.kind = "int"
  <2>1. Band(w) = 2 /\ Rank(w) = w.n /\ w.n \in Int
    BY Zenon, <1>2, BandOf
  <2>2. f.kind = "int"
    BY Zenon, <2>1, BandOf
  <2>3. Rank(f) = f.n /\ f.n \in Int
    BY Zenon, <2>2, BandOf
  <2>4. intUpperBound(hi).ok => intUpperBound(hi).n \in Int /\ w.n <= intUpperBound(hi).n
    BY Zenon, <1>2, IntStop
  <2>5. ~(intUpperBound(hi).ok /\ f.n > intUpperBound(hi).n)
    BY <2>1, <2>3, <2>4
  <2> QED BY <1>2, <2>1, <2>5 DEF stop
<1>3. CASE hi.has /\ Float(w)
  <2>1. Band(w) = 3
    BY Zenon, <1>3, BandOf
  <2>2. Float(f) \/ f.kind = "nan"
    BY Zenon, <2>1, BandOf
  <2>3. ~floatStop(hi, f)
    BY Zenon, <1>3, <2>2, FloatStop
  <2> QED BY <1>3, <2>1, <2>3 DEF stop
<1>4. CASE hi.has /\ w.kind = "string"
  <2>1. Band(w) = 4 /\ Rank(w) = w.n /\ w.n \in Int
    BY Zenon, <1>4, BandOf
  <2>2. f.kind = "string"
    BY Zenon, <2>1, BandOf
  <2>3. Rank(f) = f.n /\ f.n \in Int
    BY Zenon, <2>2, BandOf
  <2>4. Valued(hi.v) /\ Less(w, hi.v, hi.incl)
    BY Zenon, <1>4 DEF Bounded
  <2>5. \/ /\ Number(w) /\ Number(hi.v)
           /\ IF w.kind = "int" /\ hi.v.kind = "int" THEN Below(w.n, hi.v.n, hi.incl)
              ELSE Below(AsFloat(w), AsFloat(hi.v), hi.incl)
        \/ w.kind = "string" /\ hi.v.kind = "string" /\ Below(w.n, hi.v.n, hi.incl)
    BY Zenon, <2>4, Comparison
  <2>6. hi.v.kind = "string" /\ Below(w.n, hi.v.n, hi.incl)
    BY <1>4, <2>5 DEF Number
  <2>7. hi.v.n \in Int
    BY Zenon, <2>4, <2>6, BandOf
  <2>8. ~(f.n > hi.v.n)
    <3>1. w.n < hi.v.n \/ w.n = hi.v.n
      BY Zenon, <2>6 DEF Below
    <3> QED BY <2>1, <2>3, <2>7, <3>1
  <2> QED BY <1>4, <2>1, <2>8 DEF stop
<1> QED BY Zenon, <1>1, <1>2, <1>3, <1>4

\* Nodes have values, and the index an entry for each.
LEMMA Indexed ==
    ASSUME TypeOK
    PROVE  /\ \A n \in Node : value[n] # Absent => /\ value[n] \in Stored /\ Valued(value[n])
                                                   /\ Entry(value[n], n) \in index
           /\ \A e \in index : \E n \in Node : value[n] # Absent /\ e = Entry(value[n], n)
<1>1. value \in [Node -> Stored \cup {Absent}] /\ index = {Entry(value[n], n) : n \in {m \in Node : value[m] # Absent}}
  BY Zenon DEF TypeOK
<1>2. ASSUME NEW n \in Node, value[n] # Absent PROVE value[n] \in Stored /\ Valued(value[n]) /\ Entry(value[n], n) \in index
  <2>1. value[n] \in Stored
    BY Zenon, <1>1, <1>2
  <2>2. PICK v \in Stored : v = value[n]
    BY Zenon, <2>1
  <2>3. Valued(v)
    BY Zenon, Values
  <2> QED BY Zenon, <1>1, <1>2, <2>1, <2>2, <2>3
<1> QED BY Zenon, <1>1, <1>2

\* What an index entry holds.
LEMMA EntryIs ==
    ASSUME NEW v, NEW n
    PROVE  /\ Entry(v, n).band = Band(v) /\ Entry(v, n).rank = Rank(v)
           /\ Entry(v, n).node = n /\ Entry(v, n).value = v
BY DEF Entry

\* NodesByProperty finds what comparing every value would find.
LEMMA SeekFinds ==
    ASSUME TypeOK, NEW v \in Asked
    PROVE  NodesByProperty(v) = {n \in Node : value[n] # Absent /\ QueryEqual(value[n], v)}
<1>1. Valued(v)
  BY Zenon, Values
<1>2. CASE v = Null
  <2>1. NodesByProperty(v) = {}
    BY <1>2 DEF NodesByProperty
  <2>2. v.kind = "null"
    BY <1>2 DEF Null
  <2>3. ASSUME NEW n \in Node, value[n] # Absent PROVE ~QueryEqual(value[n], v)
    <3>1. PICK w : w = value[n]
      OBVIOUS
    <3>2. QueryEqual(w, v) = FALSE
      BY <2>2 DEF QueryEqual, IsNumber, IsFloat
    <3> QED BY Zenon, <3>1, <3>2
  <2> QED BY Zenon, <2>1, <2>3
<1>3. CASE v # Null /\ equalityProbes(v).exact
  <2>1. PICK P : P = equalityProbes(v).probes
    OBVIOUS
  <2>2. NodesByProperty(v) = {e.node : e \in {e \in index : \E q \in P : sameValue(e.value, q)}}
    BY <1>3, <2>1 DEF NodesByProperty
  <2>3. ASSUME NEW w, Valued(w) PROVE w \in P <=> QueryEqual(w, v)
    <3>1. CASE v.kind = "int"
      BY Zenon, <1>1, <2>1, <2>3, <3>1, ProbesOfInt
    <3>2. CASE v.kind = "float" \/ v.kind = "negzero"
      BY Zenon, <1>1, <1>3, <2>1, <2>3, <3>2, ProbesOfFloat
    <3>3. CASE v.kind = "nan"
      <4>1. equalityProbes(v) = [exact |-> TRUE, probes |-> {}]
        BY <3>3 DEF equalityProbes
      <4>2. P = {}
        BY <2>1, <4>1
      <4>3. QueryEqual(w, v) = FALSE
        BY <3>3 DEF QueryEqual, IsNumber, IsFloat
      <4> QED BY Zenon, <4>2, <4>3
    <3>4. CASE v.kind = "string"
      <4>1. equalityProbes(v) = [exact |-> TRUE, probes |-> {v}]
        BY <3>4 DEF equalityProbes
      <4>2. P = {v}
        BY <2>1, <4>1
      <4>3. QueryEqual(w, v) <=> w.kind = "string" /\ w.n = v.n
        <5>1. w.kind \in {"int", "float", "negzero", "nan", "string", "null"}
          BY Zenon, <2>3 DEF Valued
        <5> QED BY <3>4, <5>1 DEF QueryEqual, IsNumber, IsFloat
      <4>4. v = StringOf(v.n) /\ (w.kind = "string" => w = StringOf(w.n))
        BY <1>1, <2>3, <3>4 DEF Valued
      <4> QED BY Zenon, <3>4, <4>2, <4>3, <4>4
    <3> QED BY Zenon, <1>1, <1>3, <3>1, <3>2, <3>3, <3>4 DEF Valued
  <2>4. ASSUME NEW n \in NodesByProperty(v) PROVE n \in Node /\ value[n] # Absent /\ QueryEqual(value[n], v)
    <3>1. PICK e \in index : n = e.node /\ \E q \in P : sameValue(e.value, q)
      BY Zenon, <2>2, <2>4
    <3>2. PICK m \in Node : value[m] # Absent /\ e = Entry(value[m], m)
      BY Zenon, Indexed
    <3>3. e.node = m /\ e.value = value[m]
      BY ZenonT(30), <3>2, EntryIs
    <3>4. value[m] \in P
      BY Zenon, <3>1, <3>3 DEF sameValue
    <3>5. Valued(value[m])
      BY Zenon, <3>2, Indexed
    <3> QED BY Zenon, <2>3, <3>1, <3>2, <3>3, <3>4, <3>5
  <2>5. ASSUME NEW n \in Node, value[n] # Absent, QueryEqual(value[n], v) PROVE n \in NodesByProperty(v)
    <3>1. Valued(value[n]) /\ Entry(value[n], n) \in index
      BY Zenon, <2>5, Indexed
    <3>2. value[n] \in P
      BY Zenon, <2>3, <2>5, <3>1
    <3>3. PICK e \in index : e = Entry(value[n], n)
      BY Zenon, <3>1
    <3>4. e.node = n /\ e.value = value[n]
      BY Zenon, <3>3, EntryIs
    <3> QED BY Zenon, <2>2, <3>2, <3>3, <3>4 DEF sameValue
  <2> QED BY Zenon, <2>4, <2>5
<1>4. CASE v # Null /\ ~equalityProbes(v).exact
  BY <1>4 DEF NodesByProperty
<1> QED BY Zenon, <1>2, <1>3, <1>4

\* A bound of a range has a value of one of the kinds, if any.
LEMMA BoundIs ==
    ASSUME NEW b \in Bounds
    PROVE  b.has \in BOOLEAN /\ Bounded(b)
<1>1. CASE b = NoBound
  <2>1. b.has = FALSE /\ b.incl = FALSE /\ b.v = Null
    BY <1>1 DEF NoBound
  <2>2. Valued(Null)
    BY DEF Valued, Null
  <2> QED BY Zenon, <2>1, <2>2 DEF Bounded
<1>2. CASE \E v \in Asked, incl \in BOOLEAN : b = Bound(v, incl)
  <2>1. PICK v \in Asked, incl \in BOOLEAN : b = Bound(v, incl)
    BY Zenon, <1>2
  <2>2. b.has = TRUE /\ b.incl = incl /\ b.v = v
    BY <2>1 DEF Bound
  <2>3. Valued(v)
    BY Zenon, Values
  <2> QED BY Zenon, <2>2, <2>3 DEF Bounded
<1>3. b = NoBound \/ \E v \in Asked, incl \in BOOLEAN : b = Bound(v, incl)
  BY DEF Bounds
<1> QED BY Zenon, <1>1, <1>2, <1>3

\* ScanPropertyRange skips no node whose value the comparisons accept.
LEMMA RangeFinds ==
    ASSUME TypeOK, NEW lo \in Bounds, NEW hi \in Bounds, lo.has \/ hi.has,
           NEW n \in Node, Accepts(lo, hi, value[n])
    PROVE  n \in ScanPropertyRange(lo, hi)
<1>1. PICK w : w = value[n]
  OBVIOUS
<1>2. /\ w # Absent /\ Valued(w) /\ Entry(w, n) \in index
      /\ lo.has => Less(lo.v, w, lo.incl)
      /\ hi.has => Less(w, hi.v, hi.incl)
  BY Zenon, <1>1, Indexed DEF Accepts
<1>3. lo.has \in BOOLEAN /\ Bounded(lo) /\ hi.has \in BOOLEAN /\ Bounded(hi)
  BY Zenon, BoundIs
<1>4. /\ lo.has => \/ Number(lo.v) /\ Number(w) /\ valueKind(lo.v) = "number" /\ valueKind(w) = "number"
                   \/ lo.v.kind = "string" /\ w.kind = "string" /\ valueKind(lo.v) = "string" /\ valueKind(w) = "string"
      /\ hi.has => \/ Number(w) /\ Number(hi.v) /\ valueKind(w) = "number" /\ valueKind(hi.v) = "number"
                   \/ w.kind = "string" /\ hi.v.kind = "string" /\ valueKind(w) = "string" /\ valueKind(hi.v) = "string"
  BY Zenon, <1>2, <1>3, SameKind DEF Bounded
<1>5. valueKind(w) = "number" \/ valueKind(w) = "string"
  BY Zenon, <1>4
<1>6. (lo.has => valueKind(lo.v) = valueKind(w)) /\ (hi.has => valueKind(hi.v) = valueKind(w))
  BY Zenon, <1>4
<1>7. {valueKind(b.v) : b \in {c \in {lo, hi} : c.has}} = {valueKind(w)}
  BY Zenon, <1>6
<1>8. w.kind = "int" \/ Float(w) \/ w.kind = "string"
  BY <1>4 DEF Number, Float
<1>9. Entry(w, n) \in Segment(Band(w), lo, hi)
  <2>1. PICK e \in index : e = Entry(w, n)
    BY Zenon, <1>2
  <2>2. e.band = Band(w) /\ e.rank = Rank(w) /\ e.value = w
    BY Zenon, <2>1, EntryIs
  <2>3. start(Band(w), lo, Rank(w))
    BY Zenon, <1>2, <1>3, <1>8, Starts
  <2>4. Rank(w) \in Int
    BY Zenon, <1>2, <1>8, BandOf, FloatRank
  <2>5. ASSUME NEW f \in index, f.band = Band(w), f.rank <= Rank(w) PROVE ~stop(Band(w), hi, f.value)
    <3>1. PICK m \in Node : value[m] # Absent /\ f = Entry(value[m], m)
      BY Zenon, Indexed
    <3>2. PICK x : x = value[m]
      OBVIOUS
    <3>3. Valued(x) /\ f = Entry(x, m)
      BY Zenon, <3>1, <3>2, Indexed
    <3>5. f.band = Band(x) /\ f.rank = Rank(x) /\ f.value = x
      BY Zenon, <3>3, EntryIs
    <3>4. Band(x) = Band(w) /\ Rank(x) <= Rank(w)
      BY Zenon, <2>5, <3>5
    <3> QED BY Zenon, <1>2, <1>3, <1>8, <3>3, <3>4, <3>5, NotStopped
  <2>6. Rank(w) <= Rank(w)
    BY <2>4
  <2>7. ~stop(Band(w), hi, e.value)
    BY Zenon, <2>2, <2>5, <2>6
  <2>8. ASSUME NEW f \in index, f.rank < e.rank \/ (f.rank = e.rank /\ f.node < e.node) PROVE f.rank <= Rank(w)
    <3>1. PICK m \in Node : value[m] # Absent /\ f = Entry(value[m], m)
      BY Zenon, Indexed
    <3>2. PICK x : x = value[m]
      OBVIOUS
    <3>3. Valued(x) /\ f = Entry(x, m)
      BY Zenon, <3>1, <3>2, Indexed
    <3>4. Rank(x) \in Int /\ f.rank = Rank(x)
      BY Zenon, <3>3, RankInt, EntryIs
    <3> QED BY <2>2, <2>4, <2>8, <3>4
  <2> QED BY Zenon, <2>1, <2>2, <2>3, <2>5, <2>7, <2>8 DEF Segment
<1>10. Entry(w, n).node = n
  BY DEF Entry
<1>11. CASE valueKind(w) = "string"
  <2>1. Band(w) = 4
    BY <1>2, <1>8, <1>11, BandOf DEF valueKind, Float
  <2>2. ScanPropertyRange(lo, hi) = {e.node : e \in UNION {Segment(b, lo, hi) : b \in {4}}}
    BY Zenon, <1>7, <1>11 DEF ScanPropertyRange
  <2> QED BY Zenon, <1>9, <1>10, <2>1, <2>2
<1>12. CASE valueKind(w) = "number"
  <2>1. Band(w) = 2 \/ Band(w) = 3
    BY <1>2, <1>8, <1>12, BandOf DEF valueKind, Float
  <2>2. ScanPropertyRange(lo, hi) = {e.node : e \in UNION {Segment(b, lo, hi) : b \in {2, 3}}}
    <3>1. {"number"} # {"string"}
      OBVIOUS
    <3> QED BY Zenon, <1>7, <1>12, <3>1 DEF ScanPropertyRange
  <2> QED BY Zenon, <1>9, <1>10, <2>1, <2>2
<1> QED BY Zenon, <1>5, <1>11, <1>12

\* Under a constraint every value but NaN is claimed, in its canonical form, and no
\* form by two nodes.
Owners ==
    constrained => /\ \A n \in Node : value[n] # Absent /\ value[n].kind # "nan" => <<uniqueValue(value[n]), n>> \in owner
                   /\ \A o, p \in owner : o[1] = p[1] => o[2] = p[2]

LookupInv == TypeOK /\ Owners /\ SeekExact /\ RangeCovers

\* A write keeps the index, the owners and the answers as they should be.
LEMMA PutKeeps ==
    ASSUME LookupInv, NEW n \in Node, NEW v \in Stored, Put(n, v)
    PROVE  LookupInv'
<1>1. /\ value[n] = Absent /\ (constrained => Claimable(v, n)) /\ value' = [value EXCEPT ![n] = v]
      /\ index' = index \cup {Entry(v, n)} /\ owner' = owner \cup Claimed(v, n)
      /\ asked' = NoQuery /\ found' = {} /\ constrained' = constrained
  BY Zenon DEF Put
<1>2. value \in [Node -> Stored \cup {Absent}] /\ index = {Entry(value[m], m) : m \in {k \in Node : value[k] # Absent}}
  BY Zenon DEF LookupInv, TypeOK
<1>3. v # Absent
  <2>1. Valued(v)
    BY Zenon, Values
  <2> QED BY <2>1 DEF Valued, Absent
<1>4. value' \in [Node -> Stored \cup {Absent}] /\ value'[n] = v /\ \A m \in Node \ {n} : value'[m] = value[m]
  BY Zenon, <1>1, <1>2
<1>5. TypeOK'
  <2>1. ASSUME NEW e \in index' PROVE \E m \in Node : value'[m] # Absent /\ e = Entry(value'[m], m)
    <3>1. CASE e = Entry(v, n)
      BY Zenon, <1>3, <1>4, <3>1
    <3>2. CASE e \in index
      <4>1. PICK m \in Node : value[m] # Absent /\ e = Entry(value[m], m)
        BY Zenon, <1>2, <3>2
      <4>2. m # n
        BY Zenon, <1>1, <4>1
      <4> QED BY Zenon, <1>4, <4>1, <4>2
    <3> QED BY Zenon, <1>1, <2>1, <3>1, <3>2
  <2>2. ASSUME NEW m \in Node, value'[m] # Absent PROVE Entry(value'[m], m) \in index'
    <3>1. CASE m = n
      BY Zenon, <1>1, <1>4, <3>1
    <3>2. CASE m # n
      <4>1. value'[m] = value[m]
        BY Zenon, <1>4, <3>2
      <4>2. Entry(value[m], m) \in index
        BY Zenon, <1>2, <2>2, <4>1
      <4>3. Entry(value'[m], m) = Entry(value[m], m)
        BY Zenon, <4>1
      <4>4. Entry(value[m], m) \in index'
        BY Zenon, <1>1, <4>2
      <4> QED BY Zenon, <4>3, <4>4
    <3> QED BY Zenon, <3>1, <3>2
  <2>3. index' = {Entry(value'[m], m) : m \in {k \in Node : value'[k] # Absent}}
    BY Zenon, <2>1, <2>2
  <2> QED BY Zenon, <1>1, <1>4, <2>3 DEF TypeOK
<1>6. Owners'
  <2> SUFFICES ASSUME constrained
               PROVE  /\ \A m \in Node : value'[m] # Absent /\ value'[m].kind # "nan" => <<uniqueValue(value'[m]), m>> \in owner'
                      /\ \A o, p \in owner' : o[1] = p[1] => o[2] = p[2]
    BY Zenon, <1>1 DEF Owners
  <2>1. /\ \A m \in Node : value[m] # Absent /\ value[m].kind # "nan" => <<uniqueValue(value[m]), m>> \in owner
        /\ \A o, p \in owner : o[1] = p[1] => o[2] = p[2]
    BY Zenon DEF LookupInv, Owners
  <2>2. CASE v.kind = "nan"
    <3>1. owner' = owner
      BY Zenon, <1>1, <2>2 DEF Claimed
    <3> QED BY Zenon, <1>4, <2>1, <2>2, <3>1
  <2>3. CASE v.kind # "nan"
    <3>1. PICK u : u = uniqueValue(v)
      OBVIOUS
    <3>2. owner' = owner \cup {<<u, n>>} /\ \A o \in owner : o[1] = u => o[2] = n
      BY Zenon, <1>1, <2>3, <3>1 DEF Claimed, Claimable
    <3>3. <<u, n>>[1] = u /\ <<u, n>>[2] = n
      OBVIOUS
    <3>4. ASSUME NEW o \in owner', NEW p \in owner', o[1] = p[1] PROVE o[2] = p[2]
      <4>1. CASE o \in owner /\ p \in owner
        BY Zenon, <2>1, <3>4, <4>1
      <4>2. ASSUME NEW q \in owner', q \notin owner PROVE q[1] = u /\ q[2] = n
        BY Zenon, <3>2, <3>3, <4>2
      <4>3. ASSUME NEW q \in owner', q[1] = u PROVE q[2] = n
        BY Zenon, <3>2, <3>3, <4>3
      <4>4. CASE o \notin owner \/ p \notin owner
        <5>1. o[1] = u /\ p[1] = u
          BY Zenon, <3>4, <4>2, <4>4
        <5>2. o[2] = n /\ p[2] = n
          BY Zenon, <4>3, <5>1
        <5> QED BY Zenon, <5>2
      <4> QED BY Zenon, <4>1, <4>4
    <3>5. \A m \in Node : value'[m] # Absent /\ value'[m].kind # "nan" => <<uniqueValue(value'[m]), m>> \in owner'
      BY Zenon, <1>4, <2>1, <3>1, <3>2
    <3> QED BY Zenon, <3>4, <3>5
  <2> QED BY Zenon, <2>2, <2>3
<1>7. SeekExact' /\ RangeCovers'
  <2>1. asked'.op = "none"
    BY <1>1 DEF NoQuery
  <2> QED BY <2>1 DEF SeekExact, RangeCovers
<1> QED BY Zenon, <1>5, <1>6, <1>7 DEF LookupInv

\* A lookup by value keeps them, and its answer is exact.
LEMMA SeekKeeps ==
    ASSUME LookupInv, NEW v \in Asked, Seek(v)
    PROVE  LookupInv'
<1>1. /\ asked' = [op |-> "equal", v |-> v] /\ found' = NodesByProperty(v)
      /\ UNCHANGED <<constrained, value, index, owner>>
  BY Zenon DEF Seek
<1>2. found' = {n \in Node : value[n] # Absent /\ QueryEqual(value[n], v)}
  BY Zenon, <1>1, SeekFinds DEF LookupInv
<1>3. asked'.op = "equal" /\ asked'.v = v
  BY <1>1
<1>4. TypeOK' /\ Owners'
  BY Zenon, <1>1, <1>2 DEF LookupInv, TypeOK, Owners
<1>5. SeekExact'
  BY Zenon, <1>1, <1>2, <1>3 DEF SeekExact
<1>6. RangeCovers'
  BY <1>3 DEF RangeCovers
<1> QED BY Zenon, <1>4, <1>5, <1>6 DEF LookupInv

\* A range scan keeps them, and its answer covers the range.
LEMMA RangeKeeps ==
    ASSUME LookupInv, NEW lo \in Bounds, NEW hi \in Bounds, Range(lo, hi)
    PROVE  LookupInv'
<1>1. /\ lo.has \/ hi.has
      /\ asked' = [op |-> "range", lo |-> lo, hi |-> hi]
      /\ found' = ScanPropertyRange(lo, hi) /\ UNCHANGED <<constrained, value, index, owner>>
  BY Zenon DEF Range
<1>2. asked'.op = "range" /\ asked'.lo = lo /\ asked'.hi = hi
  BY <1>1
<1>3. TypeOK
  BY Zenon DEF LookupInv
<1>4. ScanPropertyRange(lo, hi) \subseteq Node
  <2>1. \A band : Segment(band, lo, hi) \subseteq index
    BY Zenon DEF Segment
  <2>2. \A n \in ScanPropertyRange(lo, hi) : \E e \in index : n = e.node
    BY Zenon, <2>1 DEF ScanPropertyRange
  <2>3. ASSUME NEW e \in index PROVE e.node \in Node
    <3>1. PICK n \in Node : e = Entry(value[n], n)
      BY Zenon, <1>3, Indexed
    <3>2. e.node = n
      BY <3>1 DEF Entry
    <3> QED BY Zenon, <3>2
  <2> QED BY Zenon, <2>2, <2>3
<1>5. TypeOK' /\ Owners'
  BY Zenon, <1>1, <1>4 DEF LookupInv, TypeOK, Owners
<1>6. SeekExact'
  BY <1>2 DEF SeekExact
<1>7. {n \in Node : Accepts(lo, hi, value[n])} \subseteq ScanPropertyRange(lo, hi)
  BY Zenon, <1>1, <1>3, RangeFinds
<1>8. RangeCovers'
  BY Zenon, <1>1, <1>2, <1>7 DEF RangeCovers
<1> QED BY Zenon, <1>5, <1>6, <1>8 DEF LookupInv

\* The invariant of lookups holds throughout.
LEMMA LookupInvariant == Spec => []LookupInv
<1>1. Init => LookupInv
  <2> SUFFICES ASSUME Init PROVE LookupInv
    BY Zenon
  <2>1. value = [n \in Node |-> Absent] /\ index = {} /\ owner = {} /\ asked = NoQuery /\ found = {}
    BY Zenon DEF Init
  <2>2. \A n \in Node : value[n] = Absent
    BY Zenon, <2>1
  <2>3. value \in [Node -> Stored \cup {Absent}]
    BY Zenon, <2>1
  <2>4. TypeOK
    BY Zenon, <2>1, <2>2, <2>3 DEF TypeOK
  <2>5. Owners
    BY Zenon, <2>1, <2>2 DEF Owners
  <2>6. asked.op = "none"
    BY <2>1 DEF NoQuery
  <2>7. SeekExact /\ RangeCovers
    BY <2>6 DEF SeekExact, RangeCovers
  <2> QED BY Zenon, <2>4, <2>5, <2>7 DEF LookupInv
<1>2. LookupInv /\ [Next]_vars => LookupInv'
  <2> SUFFICES ASSUME LookupInv, [Next]_vars PROVE LookupInv'
    BY Zenon
  <2>1. CASE UNCHANGED vars
    BY Zenon, <2>1 DEF vars, LookupInv, TypeOK, Owners, SeekExact, RangeCovers
  <2> QED BY Zenon, <2>1, PutKeeps, SeekKeeps, RangeKeeps DEF Next
<1> QED BY <1>1, <1>2, PTL DEF Spec

\* For integers and floats of any format, whatever values are stored and asked for:
\* a lookup by equality finds exactly the nodes QueryEqual accepts, and a range scan
\* skips none that compareValues accepts (equalityProbes, intBand, floatBand).
THEOREM LookupsCorrect == Spec => []LookupsExact
<1>1. LookupInv => LookupsExact
  BY Zenon DEF LookupInv, LookupsExact
<1> QED BY <1>1, LookupInvariant, PTL

\* For integers and floats of any format: nodes under a unique constraint whose
\* numbers are all within maxExactInt never hold values that are equal in a query
\* (uniqueValue, claimValue).
THEOREM UniqueCorrect == Spec => []UniqueByEquality
<1>1. LookupInv => UniqueByEquality
  <2> SUFFICES ASSUME LookupInv, constrained, \A n \in Node : IsExact(value[n]),
                      NEW n \in Node, NEW m \in Node, n # m, value[n] # Absent, value[m] # Absent,
                      QueryEqual(value[n], value[m])
               PROVE  FALSE
    BY Zenon DEF UniqueByEquality, EqualApart
  <2>1. Valued(value[n]) /\ Valued(value[m])
    BY Zenon, Indexed DEF LookupInv
  <2>2. uniqueValue(value[n]) = uniqueValue(value[m]) /\ value[n].kind # "nan" /\ value[m].kind # "nan"
    BY Zenon, <2>1, Canonical
  <2>3. PICK u : u = uniqueValue(value[n])
    OBVIOUS
  <2>4. <<u, n>> \in owner /\ <<u, m>> \in owner
    BY Zenon, <2>2, <2>3 DEF LookupInv, Owners
  <2>5. <<u, n>>[1] = <<u, m>>[1] /\ <<u, n>>[2] = n /\ <<u, m>>[2] = m
    OBVIOUS
  <2>6. <<u, n>>[2] = <<u, m>>[2]
    BY Zenon, <2>4, <2>5 DEF LookupInv, Owners
  <2> QED BY Zenon, <2>5, <2>6
<1> QED BY <1>1, LookupInvariant, PTL

============================================================================
