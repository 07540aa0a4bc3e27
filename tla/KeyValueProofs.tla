--------------------------- MODULE KeyValueProofs ---------------------------
(***************************************************************************)
(* Under the graph layer.  The bbolt adapter keeps the contract of the     *)
(* storage interface, for any keys, values, prefixes and transactions:     *)
(* what an iterator gives is what its transaction held when it was opened, *)
(* key after key, though it merges a cursor with a buffer of writes.  And  *)
(* index keys are ordered, parsed and found by prefix as the values they   *)
(* encode, for any strings, integers and floats.                           *)
(***************************************************************************)
EXTENDS Bolt, IndexCodec, WellFoundedInduction, TLAPS

\* A nonempty set of naturals has a least element.
LEMMA LeastOf ==
    ASSUME NEW S, S \subseteq Nat, S # {}
    PROVE  \E least \in S : \A other \in S : least <= other
<1> DEFINE R == {ss \in Nat \X Nat : ss[1] < ss[2]}
<1>1. IsWellFoundedOn(R, Nat)
  BY Zenon, NatLessThanWellFounded DEF OpToRel
<1> HIDE DEF R
<1>2. PICK least \in S : \A other \in S : ~(<<other, least>> \in R)
  BY Zenon, <1>1, WFMin
<1>3. ASSUME NEW other \in S
      PROVE  least <= other
  <2>1. least \in Nat /\ other \in Nat
    BY Zenon
  <2>2. <<other, least>> \notin R
    BY Zenon, <1>2
  <2> QED BY <2>1, <2>2 DEF R
<1> QED BY Zenon, <1>3

----------------------------------------------------------------------------
(* Of an iterator the invariant says what it has ahead of it; c is the     *)
(* bucket its cursor walks over.                                           *)

Bucket == [Key -> Value \cup {None}]
Buffer == [Key -> Value \cup {Unset, Deleted}]
Entries == [key : Key \cup {None}, val : Value \cup {None}]
Iterators == [pc : {"settle", "settled"}, prefix : Prefix, ck : Key \cup {None}, pend : Buffer,
              at : Entries, on : Bucket]

\* What a key holds, from its entry in the buffer and in the bucket.
Over(p, v) == IF p = Unset THEN v ELSE IF p = Deleted THEN None ELSE p

\* Cursor and buffer have ahead of them what the transaction held when the
\* iterator was opened, and of that everything from some key on.
Merged(c, it) ==
    /\ it \in Iterators
    /\ it.ck # None => c[it.ck] # None /\ it.prefix.lo <= it.ck
    /\ \A k \in Key : it.pend[k] # Unset => HasPrefix(k, it.prefix)
    /\ \A k \in Ahead(c, it) : it.on[k] = Over(it.pend[k], c[k])
    /\ \A j \in Visible(c, it), k \in Key :
          HasPrefix(k, it.prefix) /\ j <= k /\ it.on[k] # None => k \in Visible(c, it)

\* Next takes from the source the entry came from, and the other one is past it.
Standing(it) ==
    it.at.key # None =>
        IF it.at.key = pendKey(it) THEN it.ck = None \/ it.at.key < it.ck
        ELSE it.ck = it.at.key /\ it.pend[it.ck] = Unset

IterOK(c, it) == Merged(c, it) /\ (it.pc = "settled" => it.at = Upcoming(c, it) /\ Standing(it))

\* Every iterator is of that kind; an idle transaction has none.  There is one
\* writer, and it reads the bucket as it is.
BoltInv ==
    /\ BoltTypes
    /\ base \in [Txn -> Bucket]
    /\ iter = [t \in Txn |-> iter[t]]
    /\ \A t \in Txn : iter[t] = NoIter \/ (mode[t] # "idle" /\ IterOK(base[t], iter[t]))
    /\ \A t, u \in Txn : mode[t] = "rw" /\ mode[u] = "rw" => t = u
    /\ \A t \in Txn : mode[t] = "rw" => base[t] = bucket

\* Keys and values are numbers, and none of them is one of the marks.
LEMMA Marks ==
    /\ Key \subseteq Nat /\ None \in Nat /\ None \notin Key /\ None \notin Value
    /\ Unset \notin Value /\ Deleted \notin Value /\ Unset # Deleted /\ Unset # None /\ Deleted # None
<1>1. Key \subseteq Nat \ {None} /\ Value \subseteq Nat \ {None}
  BY Zenon, KeysAssumption
<1> QED BY <1>1 DEF None, Unset, Deleted

\* An entry and its key.
LEMMA EntryAt ==
    ASSUME NEW k \in Key \cup {None}, NEW v \in Value \cup {None}
    PROVE  At(k, v) \in Entries /\ At(k, v).key = k
BY DEF At, Entries

\* An iterator whose parts change is still one.
Altered(it, s, ck, pend, at) == [it EXCEPT !.pc = s, !.ck = ck, !.pend = pend, !.at = at]
Alters(it, nx, s, ck, pend, at) ==
    /\ it \in Iterators /\ s \in {"settle", "settled"} /\ ck \in Key \cup {None} /\ pend \in Buffer /\ at \in Entries
    /\ nx = Altered(it, s, ck, pend, at)

\* Its parts are the new ones, and its prefix and what it was opened on are as before.
LEMMA Replaced ==
    ASSUME NEW it, NEW nx, NEW s, NEW ck, NEW pend, NEW at, Alters(it, nx, s, ck, pend, at)
    PROVE  /\ nx \in Iterators /\ nx.prefix = it.prefix /\ nx.on = it.on
           /\ nx.pc = s /\ nx.ck = ck /\ nx.pend = pend /\ nx.at = at
<1> USE DEF Alters
<1>1. it = [pc |-> it.pc, prefix |-> it.prefix, ck |-> it.ck,
            pend |-> it.pend, at |-> it.at, on |-> it.on]
  BY DEF Iterators
<1>2. it.prefix \in Prefix /\ it.on \in Bucket
  BY DEF Iterators
<1>3. nx = [pc |-> s, prefix |-> it.prefix, ck |-> ck,
            pend |-> pend, at |-> at, on |-> it.on]
  BY Zenon, <1>1 DEF Altered
<1> QED BY <1>2, <1>3 DEF Iterators

\* The least of a set of keys is one of them.
LEMMA LowestIs ==
    ASSUME NEW S, S \subseteq Key
    PROVE  /\ S = {} => Lowest(S) = None
           /\ S # {} => Lowest(S) \in S /\ Lowest(S) # None /\ \A j \in S : Lowest(S) <= j
<1>1. S = {} => Lowest(S) = None
  BY Zenon DEF Lowest
<1>2. CASE S # {}
  <2>1. S \subseteq Nat
    BY Marks
  <2>2. \E least \in S : \A other \in S : least <= other
    BY Zenon, <1>2, <2>1, LeastOf
  <2>3. Lowest(S) \in S /\ \A j \in S : Lowest(S) <= j
    BY Zenon, <1>2, <2>2 DEF Lowest
  <2> QED BY Zenon, <1>2, <2>3, Marks
<1> QED BY Zenon, <1>1, <1>2

\* A key is the least of a set when it is in it and no other is below it.
LEMMA LowestIf ==
    ASSUME NEW S, S \subseteq Key, NEW k \in S, \A j \in S : k <= j
    PROVE  Lowest(S) = k
<1>1. Lowest(S) \in S /\ \A j \in S : Lowest(S) <= j
  BY Zenon, LowestIs
<1>2. Lowest(S) <= k /\ k <= Lowest(S)
  BY Zenon, <1>1
<1>3. k \in Nat /\ Lowest(S) \in Nat
  BY Zenon, <1>1, Marks
<1> QED BY <1>2, <1>3

\* Where Seek puts the cursor: the keys of the bucket from there on are those from
\* the key it is asked for.
LEMMA Sought ==
    ASSUME NEW c \in Bucket, NEW from \in Nat, NEW s, s = SeekKey(c, from)
    PROVE  /\ s \in Key \cup {None}
           /\ s # None => c[s] # None /\ from <= s
           /\ \A k \in Key : c[k] # None => ((s # None /\ s <= k) <=> from <= k)
<1> DEFINE S == {k \in Key : k >= from /\ c[k] # None}
<1>1. S \subseteq Key /\ s = Lowest(S)
  BY Zenon DEF SeekKey
<1>2. /\ S = {} => s = None
      /\ S # {} => s \in S /\ s # None /\ \A j \in S : s <= j
  BY Zenon, <1>1, LowestIs
<1>3. s # None => s \in Key /\ c[s] # None /\ from <= s
  <2>1. s # None => s \in S
    BY Zenon, <1>2
  <2> QED BY <2>1, Marks
<1>4. ASSUME NEW k \in Key, c[k] # None
      PROVE  (s # None /\ s <= k) <=> from <= k
  <2>1. k \in Nat
    BY Marks
  <2>2. from <= k => s # None /\ s <= k
    BY <1>2, <1>4, <2>1
  <2>3. s # None => s \in Nat /\ from <= s
    BY Zenon, <1>3, Marks
  <2> QED BY <2>1, <2>2, <2>3
<1> QED BY Zenon, <1>3, <1>4

\* The first entry of the buffer's copy.
LEMMA FirstPending ==
    ASSUME NEW it \in Iterators, NEW pk, pk = pendKey(it)
    PROVE  /\ pk = None => \A k \in Key : it.pend[k] = Unset
           /\ pk # None => pk \in Key /\ it.pend[pk] # Unset /\ \A k \in Key : it.pend[k] # Unset => pk <= k
<1> DEFINE S == {k \in Key : it.pend[k] # Unset}
<1>1. S \subseteq Key /\ pk = Lowest(S)
  BY Zenon DEF pendKey
<1>2. /\ S = {} => pk = None
      /\ S # {} => pk \in S /\ pk # None /\ \A j \in S : pk <= j
  BY Zenon, <1>1, LowestIs
<1> QED BY Zenon, <1>2

\* What the parts of an iterator are.
LEMMA Parts ==
    ASSUME NEW it \in Iterators
    PROVE  /\ it.prefix.lo \in Nat /\ it.prefix.hi \in Nat
           /\ it.ck \in Key \cup {None} /\ it.pend \in Buffer /\ it.on \in Bucket
           /\ it.ck \in Nat
<1>1. /\ it.prefix \in Prefix /\ it.ck \in Key \cup {None} /\ it.pend \in Buffer /\ it.on \in Bucket
  BY DEF Iterators
<1>2. it.prefix \in [lo : Nat, hi : Nat]
  BY Zenon, <1>1, KeysAssumption
<1>3. it.ck \in Nat
  BY Zenon, <1>1, Marks
<1>4. it.prefix.lo \in Nat /\ it.prefix.hi \in Nat
  BY <1>2
<1> QED BY Zenon, <1>1, <1>3, <1>4

\* Where cursor and buffer stand: with neither in the prefix nothing is ahead;
\* otherwise the lesser of the two is ahead, and nothing before it is.
LEMMA Heads ==
    ASSUME NEW c \in Bucket, NEW it, Merged(c, it),
           NEW ck, ck = cursorKey(it), NEW pk, pk = pendKey(it)
    PROVE  /\ ck # None => ck = it.ck /\ ck \in Ahead(c, it)
           /\ pk # None => pk \in Ahead(c, it)
           /\ \A k \in Ahead(c, it) : \/ ck # None /\ ck <= k
                                      \/ pk # None /\ pk <= k
<1>1. it \in Iterators
  BY Zenon DEF Merged
<1>2. it.prefix.lo \in Nat /\ it.prefix.hi \in Nat /\ it.ck \in Key \cup {None} /\ it.ck \in Nat
  BY Zenon, <1>1, Parts
<1>3. /\ pk = None => \A k \in Key : it.pend[k] = Unset
      /\ pk # None => pk \in Key /\ it.pend[pk] # Unset /\ \A k \in Key : it.pend[k] # Unset => pk <= k
  BY Zenon, <1>1, FirstPending
<1>4. ck # None => ck = it.ck /\ ck \in Ahead(c, it)
  BY <1>2 DEF cursorKey, Ahead, Merged
<1>5. pk # None => pk \in Ahead(c, it)
  BY Zenon, <1>3 DEF Ahead, Merged
<1>6. ASSUME NEW k \in Ahead(c, it)
      PROVE  \/ ck # None /\ ck <= k
             \/ pk # None /\ pk <= k
  <2>1. k \in Key /\ k \in Nat /\ HasPrefix(k, it.prefix)
    BY Zenon, Marks DEF Ahead
  <2>2. CASE it.pend[k] # Unset
    BY Zenon, <1>3, <2>1, <2>2
  <2>3. CASE it.pend[k] = Unset
    <3>1. it.ck # None /\ it.ck <= k
      BY Zenon, <2>3 DEF Ahead
    <3>2. HasPrefix(it.ck, it.prefix)
      BY <1>2, <2>1, <3>1 DEF HasPrefix, Merged
    <3> QED BY Zenon, <3>1, <3>2 DEF cursorKey
  <2> QED BY Zenon, <2>2, <2>3
<1> QED BY Zenon, <1>4, <1>5, <1>6

\* An iterator nx that has ahead of it what it had, but for x.
Moved(c, it, nx, x) ==
    /\ nx \in Iterators /\ nx.prefix = it.prefix /\ nx.on = it.on
    /\ nx.ck # None => c[nx.ck] # None /\ it.prefix.lo <= nx.ck
    /\ \A k \in Key : nx.pend[k] \in {it.pend[k], Unset} /\ (k # x => nx.pend[k] = it.pend[k])
    /\ Ahead(c, nx) = Ahead(c, it) \ {x}
Foremost(c, it, x) == x \in Visible(c, it) => \A k \in Visible(c, it) : x <= k

\* Moving past a key keeps the iterator merged when the key is not visible or is
\* the first that is.
LEMMA Passed ==
    ASSUME NEW c \in Bucket, NEW it, Merged(c, it), NEW nx, NEW x, Moved(c, it, nx, x),
           Foremost(c, it, x)
    PROVE  Merged(c, nx) /\ Visible(c, nx) = Visible(c, it) \ {x}
<1> USE DEF Moved, Foremost
<1>1. Visible(c, nx) = Visible(c, it) \ {x}
  BY Zenon DEF Visible
<1>2. \A k \in Key : nx.pend[k] # Unset => HasPrefix(k, nx.prefix)
  BY Zenon DEF Merged
<1>3. \A k \in Ahead(c, nx) : nx.on[k] = Over(nx.pend[k], c[k])
  BY Zenon DEF Merged, Ahead
<1>4. ASSUME NEW j \in Visible(c, nx), NEW k \in Key,
             HasPrefix(k, nx.prefix), j <= k, nx.on[k] # None
      PROVE  k \in Visible(c, nx)
  <2>1. j \in Visible(c, it) /\ j # x
    BY Zenon, <1>1
  <2>2. k \in Visible(c, it)
    BY Zenon, <1>4, <2>1 DEF Merged
  <2>3. k # x
    <3>1. SUFFICES ASSUME k = x PROVE FALSE
      OBVIOUS
    <3>2. k <= j
      BY Zenon, <2>1, <2>2, <3>1
    <3>3. j \in Nat /\ k \in Nat
      BY Zenon, <2>1, Marks DEF Visible, Ahead
    <3> QED BY <1>4, <2>1, <3>1, <3>2, <3>3
  <2> QED BY Zenon, <1>1, <2>2, <2>3
<1> QED BY Zenon, <1>1, <1>2, <1>3, <1>4 DEF Merged

\* An iterator that stands at a key that is visible and has no other before it
\* stands where it should.
LEMMA Stands ==
    ASSUME NEW c \in Bucket, NEW it, Merged(c, it), NEW k \in Visible(c, it),
           \A j \in Ahead(c, it) : k <= j, it.at = At(k, it.on[k])
    PROVE  it.at = Upcoming(c, it)
<1>1. Visible(c, it) \subseteq Key /\ \A j \in Visible(c, it) : k <= j
  BY Zenon DEF Visible, Ahead
<1>2. Lowest(Visible(c, it)) = k
  BY Zenon, <1>1, LowestIf
<1> QED BY Zenon, <1>2 DEF Upcoming

\* The buffer's first entry comes before the cursor's, or at the same key.
BufferFirst(it, pk) == pk # None /\ ~(cursorKey(it) # None /\ cursorKey(it) < pk)

\* The cursor once the buffer's first entry is dealt with: what the bucket has ahead
\* is as before, without that entry.
LEMMA Shadows ==
    ASSUME NEW c \in Bucket, NEW it, Merged(c, it), NEW pk, pk = pendKey(it), BufferFirst(it, pk),
           NEW n, n = Shadowed(c, it)
    PROVE  /\ n \in Key \cup {None}
           /\ n # None => c[n] # None /\ it.prefix.lo <= n /\ pk < n
           /\ \A k \in Key : HasPrefix(k, it.prefix) /\ c[k] # None =>
                 ((n # None /\ n <= k) <=> (it.ck # None /\ it.ck <= k /\ k # pk))
<1> USE DEF BufferFirst
<1>1. it \in Iterators
  BY Zenon DEF Merged
<1>2. it.prefix.lo \in Nat /\ it.prefix.hi \in Nat /\ it.ck \in Key \cup {None} /\ it.ck \in Nat
  BY Zenon, <1>1, Parts
<1>3. pk \in Key /\ it.pend[pk] # Unset
  BY Zenon, <1>1, FirstPending
<1>4. pk \in Nat /\ HasPrefix(pk, it.prefix)
  BY <1>3, Marks DEF Merged
<1>5. CASE cursorKey(it) = pk
  <2>1. it.ck = pk /\ n = SeekKey(c, it.ck + 1) /\ it.ck + 1 \in Nat
    BY <1>2, <1>5 DEF cursorKey, Shadowed
  <2>2. /\ n \in Key \cup {None}
        /\ n # None => c[n] # None /\ it.ck + 1 <= n
        /\ \A k \in Key : c[k] # None => ((n # None /\ n <= k) <=> it.ck + 1 <= k)
    BY ZenonT(30), <2>1, Sought
  <2>3. n \in Nat
    BY <2>2, Marks
  <2>4. n # None => c[n] # None /\ it.prefix.lo <= n /\ pk < n
    BY <1>2, <1>4, <2>1, <2>2, <2>3 DEF HasPrefix
  <2>5. ASSUME NEW k \in Key, c[k] # None
        PROVE  (n # None /\ n <= k) <=> (it.ck # None /\ it.ck <= k /\ k # pk)
    <3>1. k \in Nat /\ it.ck # None
      BY <1>3, <2>1, Marks
    <3>2. (n # None /\ n <= k) <=> it.ck + 1 <= k
      BY Zenon, <2>2, <2>5
    <3> QED BY <1>2, <2>1, <3>1, <3>2
  <2> QED BY Zenon, <2>2, <2>4, <2>5
<1>6. CASE cursorKey(it) # pk
  <2>1. n = it.ck
    BY Zenon, <1>6 DEF Shadowed
  <2>2. it.ck # None => it.prefix.lo <= it.ck /\ c[it.ck] # None
    BY Zenon DEF Merged
  <2>3. it.ck # None => pk < it.ck
    BY <1>2, <1>4, <1>6, <2>2 DEF cursorKey, HasPrefix
  <2>4. ASSUME NEW k \in Key, it.ck # None, it.ck <= k
        PROVE  k # pk
    BY <1>2, <1>4, <2>3, <2>4
  <2> QED BY Zenon, <1>2, <2>1, <2>2, <2>3, <2>4
<1> QED BY Zenon, <1>5, <1>6

\* One round of settle keeps the iterator merged and what is visible ahead of it;
\* when it ends, it ends at the first of that.
LEMMA SettleRound ==
    ASSUME NEW c \in Bucket, NEW it, Merged(c, it), it.pc = "settle", NEW nx, nx = settle(c, it)
    PROVE  /\ IterOK(c, nx)
           /\ nx.prefix = it.prefix /\ nx.on = it.on /\ Visible(c, nx) = Visible(c, it)
<1>1. it \in Iterators
  BY Zenon DEF Merged
<1>2. PICK ck : ck = cursorKey(it)
  OBVIOUS
<1>3. PICK pk : pk = pendKey(it)
  OBVIOUS
<1>parts. PICK m, q : m = it.ck /\ q = it.pend
  OBVIOUS
<1>typed. m \in Key \cup {None} /\ q \in Buffer
  BY Zenon, <1>parts, <1>1, Parts
<1>4. /\ ck # None => ck = it.ck /\ ck \in Ahead(c, it)
      /\ pk # None => pk \in Ahead(c, it)
      /\ \A k \in Ahead(c, it) : (ck # None /\ ck <= k) \/ (pk # None /\ pk <= k)
  BY Zenon, <1>2, <1>3, Heads
<1>5. /\ pk = None => \A k \in Key : it.pend[k] = Unset
      /\ pk # None => pk \in Key /\ it.pend[pk] # Unset /\ \A k \in Key : it.pend[k] # Unset => pk <= k
  BY Zenon, <1>1, <1>3, FirstPending
<1>6. Ahead(c, it) \subseteq Key /\ Ahead(c, it) \subseteq Nat
  BY Zenon, Marks DEF Ahead
\* The source is at its end.
<1>7. CASE ck = None /\ pk = None
  <2>1. nx = [it EXCEPT !.at = At(None, None), !.pc = "settled"]
    BY Zenon, <1>2, <1>3, <1>7 DEF settle
  <2>2. /\ nx \in Iterators /\ nx.prefix = it.prefix /\ nx.on = it.on /\ nx.ck = it.ck /\ nx.pend = it.pend
        /\ nx.at = At(None, None) /\ nx.at.key = None
    <3>0. PICK at : at = At(None, None)
      OBVIOUS
    <3>1. nx = Altered(it, "settled", m, q, at)
      BY Zenon, <1>parts, <1>1, <2>1, <3>0 DEF Iterators, Altered
    <3>2. At(None, None) \in Entries /\ At(None, None).key = None
      BY Zenon, EntryAt
    <3>3. nx \in Iterators /\ nx.prefix = it.prefix /\ nx.on = it.on /\ nx.ck = m /\ nx.pend = q /\ nx.at = at
      <4>1. Alters(it, nx, "settled", m, q, at)
        BY Zenon, <1>typed, <1>parts, <1>1, <3>0, <3>1, <3>2 DEF Alters
      <4> QED BY <4>1, Replaced
    <3> QED BY Zenon, <1>parts, <3>0, <3>2, <3>3
  <2>3. Ahead(c, nx) = Ahead(c, it) /\ Visible(c, nx) = Visible(c, it)
    BY Zenon, <2>2 DEF Ahead, Visible
  <2>4. Merged(c, nx)
    BY Zenon, <2>2, <2>3 DEF Merged
  <2>5. Visible(c, nx) = {}
    BY Zenon, <1>4, <1>7, <2>3 DEF Visible
  <2> QED BY Zenon, <2>2, <2>3, <2>4, <2>5 DEF IterOK, Upcoming, Standing
\* The cursor's entry comes first.
<1>8. CASE ck # None /\ (pk = None \/ ck < pk)
  <2>1. nx = [it EXCEPT !.at = At(ck, c[ck]), !.pc = "settled"]
    BY Zenon, <1>2, <1>3, <1>8 DEF settle
  <2>2. ck \in Key /\ ck = it.ck /\ ck \in Ahead(c, it)
    BY Zenon, <1>4, <1>6, <1>8
  <2>3. c[ck] \in Value /\ c[ck] # None
    BY Zenon, <1>8, <2>2 DEF Merged, Bucket
  <2>4. /\ nx \in Iterators /\ nx.prefix = it.prefix /\ nx.on = it.on /\ nx.ck = it.ck /\ nx.pend = it.pend
        /\ nx.at = At(ck, c[ck]) /\ nx.at.key = ck
    <3>0. PICK at : at = At(ck, c[ck])
      OBVIOUS
    <3>1. nx = Altered(it, "settled", m, q, at)
      BY Zenon, <1>parts, <1>1, <2>1, <3>0 DEF Iterators, Altered
    <3>2. At(ck, c[ck]) \in Entries /\ At(ck, c[ck]).key = ck
      BY Zenon, <2>2, <2>3, EntryAt
    <3>3. nx \in Iterators /\ nx.prefix = it.prefix /\ nx.on = it.on /\ nx.ck = m /\ nx.pend = q /\ nx.at = at
      <4>1. Alters(it, nx, "settled", m, q, at)
        BY Zenon, <1>typed, <1>parts, <1>1, <3>0, <3>1, <3>2 DEF Alters
      <4> QED BY <4>1, Replaced
    <3> QED BY Zenon, <1>parts, <3>0, <3>2, <3>3
  <2>5. Ahead(c, nx) = Ahead(c, it) /\ Visible(c, nx) = Visible(c, it)
    BY Zenon, <2>4 DEF Ahead, Visible
  <2>6. Merged(c, nx)
    BY Zenon, <2>4, <2>5 DEF Merged
  <2>7. it.pend[ck] = Unset /\ ck # pk
    <3>1. ck \in Nat /\ (pk # None => pk \in Nat)
      BY Zenon, <1>4, <1>6, <2>2
    <3>2. pk # None => ~(pk <= ck)
      BY <1>8, <3>1
    <3> QED BY Zenon, <1>5, <1>8, <2>2, <3>2
  <2>8. it.on[ck] = c[ck]
    BY Zenon, <2>2, <2>7 DEF Merged, Over
  <2>9. ck \in Visible(c, nx) /\ nx.at = At(ck, nx.on[ck])
    BY Zenon, <2>2, <2>3, <2>4, <2>5, <2>8 DEF Visible
  <2>10. \A k \in Ahead(c, nx) : ck <= k
    <3>1. ASSUME NEW k \in Ahead(c, it) PROVE ck <= k
      <4>1. (ck # None /\ ck <= k) \/ (pk # None /\ pk <= k)
        BY Zenon, <1>4
      <4>2. k \in Nat /\ ck \in Nat /\ (pk # None => pk \in Nat)
        BY Zenon, <1>4, <1>6, <2>2
      <4> QED BY <1>8, <4>1, <4>2
    <3> QED BY Zenon, <2>5, <3>1
  <2>11. nx.at = Upcoming(c, nx)
    BY Zenon, <2>6, <2>9, <2>10, Stands
  <2>12. Standing(nx)
    <3>1. pendKey(nx) = pk
      BY Zenon, <1>3, <2>4 DEF pendKey
    <3> QED BY Zenon, <2>2, <2>4, <2>7, <3>1 DEF Standing
  <2> QED BY Zenon, <2>4, <2>5, <2>6, <2>11, <2>12 DEF IterOK
\* The buffer's entry comes first.
<1>9. CASE pk # None /\ ~(ck # None /\ ck < pk)
  <2>1. PICK n : n = Shadowed(c, it)
    OBVIOUS
  <2>2. /\ n \in Key \cup {None}
        /\ n # None => c[n] # None /\ it.prefix.lo <= n /\ pk < n
        /\ \A k \in Key : HasPrefix(k, it.prefix) /\ c[k] # None =>
              ((n # None /\ n <= k) <=> (it.ck # None /\ it.ck <= k /\ k # pk))
    <3>1. BufferFirst(it, pk)
      BY Zenon, <1>2, <1>9 DEF BufferFirst
    <3> QED BY <1>3, <2>1, <3>1, Shadows
  <2>3. pk \in Key /\ pk \in Ahead(c, it) /\ HasPrefix(pk, it.prefix)
    BY Zenon, <1>4, <1>6, <1>9 DEF Ahead
  <2>4. it.on[pk] = Over(it.pend[pk], c[pk]) /\ it.pend \in Buffer /\ it.pend[pk] # Unset
    BY Zenon, <1>1, <1>5, <1>9, <2>3, Parts DEF Merged
  <2>5. CASE it.pend[pk] = Deleted
    <3>1. nx = [it EXCEPT !.ck = n, !.pend[pk] = Unset]
      BY Zenon, <1>2, <1>3, <1>9, <2>1, <2>5 DEF settle
    <3>2. /\ nx \in Iterators /\ nx.prefix = it.prefix /\ nx.on = it.on /\ nx.ck = n /\ nx.pc = "settle"
          /\ nx.pend = [it.pend EXCEPT ![pk] = Unset]
      <4>1. PICK p, at : p = [it.pend EXCEPT ![pk] = Unset] /\ at = it.at
        BY Zenon
      <4>2. nx = Altered(it, "settle", n, p, at)
        BY Zenon, <1>1, <3>1, <4>1 DEF Iterators, Altered
      <4>3. p \in Buffer /\ at \in Entries
        BY <1>1, <2>3, <2>4, <4>1 DEF Buffer, Iterators
      <4>4. nx \in Iterators /\ nx.prefix = it.prefix /\ nx.on = it.on /\ nx.ck = n /\ nx.pc = "settle" /\ nx.pend = p
        <5>1. Alters(it, nx, "settle", n, p, at)
          BY Zenon, <1>1, <2>2, <4>2, <4>3 DEF Alters
        <5> QED BY <5>1, Replaced
      <4> QED BY Zenon, <4>1, <4>4
    <3>3. \A k \in Key : nx.pend[k] = IF k = pk THEN Unset ELSE it.pend[k]
      BY Zenon, <2>3, <2>4, <3>2 DEF Buffer
    <3>4. Ahead(c, nx) = Ahead(c, it) \ {pk}
      <4>1. ASSUME NEW k \in Key, HasPrefix(k, it.prefix)
            PROVE  (nx.pend[k] # Unset \/ (c[k] # None /\ nx.ck # None /\ nx.ck <= k))
                      <=> (it.pend[k] # Unset \/ (c[k] # None /\ it.ck # None /\ it.ck <= k)) /\ k # pk
        <5>1. c[k] # None => ((n # None /\ n <= k) <=> (it.ck # None /\ it.ck <= k /\ k # pk))
          BY Zenon, <2>2, <4>1
        <5>2. nx.pend[k] = IF k = pk THEN Unset ELSE it.pend[k]
          BY Zenon, <3>3
        <5> QED BY Zenon, <3>2, <5>1, <5>2
      <4> QED BY Zenon, <3>2, <4>1 DEF Ahead
    <3>5. it.on[pk] = None
      BY Zenon, <2>4, <2>5 DEF Over
    <3>6. pk \notin Visible(c, it)
      BY Zenon, <3>5 DEF Visible
    <3>7. nx.ck # None => c[nx.ck] # None /\ it.prefix.lo <= nx.ck
      BY Zenon, <2>2, <3>2
    <3>8. /\ \A k \in Key : nx.pend[k] \in {it.pend[k], Unset}
          /\ \A k \in Key : k # pk => nx.pend[k] = it.pend[k]
      BY Zenon, <3>3
    <3>9. Moved(c, it, nx, pk)
      BY Zenon, <3>2, <3>4, <3>7, <3>8 DEF Moved
    <3>10. Merged(c, nx) /\ Visible(c, nx) = Visible(c, it) \ {pk}
      <4>1. Foremost(c, it, pk)
        BY Zenon, <3>6 DEF Foremost
      <4> QED BY <3>9, <4>1, Passed
    <3> QED BY Zenon, <3>2, <3>6, <3>10 DEF IterOK
  <2>6. CASE it.pend[pk] # Deleted
    <3>1. nx = [it EXCEPT !.ck = n, !.at = At(pk, it.pend[pk]), !.pc = "settled"]
      BY Zenon, <1>2, <1>3, <1>9, <2>1, <2>6 DEF settle
    <3>2. it.pend[pk] \in Value /\ it.pend[pk] # None
      BY <2>3, <2>4, <2>6, Marks DEF Buffer
    <3>3. /\ nx \in Iterators /\ nx.prefix = it.prefix /\ nx.on = it.on /\ nx.ck = n
          /\ nx.pend = it.pend /\ nx.at = At(pk, it.pend[pk]) /\ nx.at.key = pk
      <4>1. PICK at : at = At(pk, it.pend[pk])
        OBVIOUS
      <4>2. nx = Altered(it, "settled", n, q, at)
        BY Zenon, <1>parts, <1>1, <3>1, <4>1 DEF Iterators, Altered
      <4>3. At(pk, it.pend[pk]) \in Entries /\ At(pk, it.pend[pk]).key = pk
        BY Zenon, <2>3, <3>2, EntryAt
      <4>4. nx \in Iterators /\ nx.prefix = it.prefix /\ nx.on = it.on /\ nx.ck = n /\ nx.pend = q /\ nx.at = at
        <5>1. Alters(it, nx, "settled", n, q, at)
          BY Zenon, <1>typed, <1>1, <2>2, <4>1, <4>2, <4>3 DEF Alters
        <5> QED BY <5>1, Replaced
      <4> QED BY Zenon, <1>parts, <4>1, <4>3, <4>4
    <3>4. Ahead(c, nx) = Ahead(c, it) \ {None}
      <4>1. ASSUME NEW k \in Key, HasPrefix(k, it.prefix)
            PROVE  (nx.pend[k] # Unset \/ (c[k] # None /\ nx.ck # None /\ nx.ck <= k))
                      <=> (it.pend[k] # Unset \/ (c[k] # None /\ it.ck # None /\ it.ck <= k))
        <5>1. c[k] # None => ((n # None /\ n <= k) <=> (it.ck # None /\ it.ck <= k /\ k # pk))
          BY Zenon, <2>2, <4>1
        <5> QED BY Zenon, <2>4, <3>3, <5>1
      <4>2. Ahead(c, nx) = Ahead(c, it)
        BY Zenon, <3>3, <4>1 DEF Ahead
      <4>3. None \notin Ahead(c, it)
        BY Zenon, Marks DEF Ahead
      <4> QED BY Zenon, <4>2, <4>3
    <3>5. None \notin Visible(c, it)
      BY Zenon, Marks DEF Visible, Ahead
    <3>6. nx.ck # None => c[nx.ck] # None /\ it.prefix.lo <= nx.ck
      BY Zenon, <2>2, <3>3
    <3>7. /\ \A k \in Key : nx.pend[k] \in {it.pend[k], Unset}
          /\ \A k \in Key : k # None => nx.pend[k] = it.pend[k]
      BY Zenon, <3>3
    <3>8. Merged(c, nx) /\ Visible(c, nx) = Visible(c, it) \ {None}
      <4>1. Moved(c, it, nx, None)
        BY Zenon, <3>3, <3>4, <3>6, <3>7 DEF Moved
      <4>2. Foremost(c, it, None)
        BY Zenon, <3>5 DEF Foremost
      <4> QED BY <4>1, <4>2, Passed
    <3>9. Visible(c, nx) = Visible(c, it)
      BY Zenon, <3>5, <3>8
    <3>10. it.on[pk] = it.pend[pk]
      BY Zenon, <2>4, <2>6 DEF Over
    <3>11. pk \in Visible(c, nx) /\ nx.at = At(pk, nx.on[pk])
      BY Zenon, <2>3, <3>2, <3>3, <3>9, <3>10 DEF Visible
    <3>12. \A k \in Ahead(c, nx) : pk <= k
      <4>1. ASSUME NEW k \in Ahead(c, it) PROVE pk <= k
        <5>1. (ck # None /\ ck <= k) \/ (pk # None /\ pk <= k)
          BY Zenon, <1>4
        <5>2. k \in Nat /\ pk \in Nat /\ (ck # None => ck \in Nat)
          BY Zenon, <1>4, <1>6, <2>3
        <5> QED BY <1>9, <5>1, <5>2
      <4> QED BY Zenon, <3>4, <4>1
    <3>13. nx.at = Upcoming(c, nx)
      BY Zenon, <3>8, <3>11, <3>12, Stands
    <3>14. Standing(nx)
      <4>1. pendKey(nx) = pk
        BY Zenon, <1>3, <3>3 DEF pendKey
      <4> QED BY Zenon, <2>2, <3>3, <4>1 DEF Standing
    <3> QED BY Zenon, <3>3, <3>8, <3>9, <3>13, <3>14 DEF IterOK
  <2> QED BY Zenon, <2>5, <2>6
<1> QED BY Zenon, <1>7, <1>8, <1>9

\* Next takes the first visible key away.
LEMMA NextRound ==
    ASSUME NEW c \in Bucket, NEW it, IterOK(c, it), it.pc = "settled", NEW k, k = it.at.key, k # None,
           NEW nx, nx = passed(c, it)
    PROVE  /\ Merged(c, nx) /\ nx.pc = "settle" /\ nx.prefix = it.prefix /\ nx.on = it.on
           /\ k \in Visible(c, it) /\ \A j \in Visible(c, it) : k <= j
           /\ Visible(c, nx) = Visible(c, it) \ {k}
<1>1. Merged(c, it) /\ it \in Iterators /\ it.at = Upcoming(c, it) /\ Standing(it)
  BY Zenon DEF IterOK, Merged
<1>2. it.prefix.lo \in Nat /\ it.prefix.hi \in Nat /\ it.ck \in Key \cup {None} /\ it.ck \in Nat /\ it.pend \in Buffer
  BY Zenon, <1>1, Parts
<1>3. k \in Visible(c, it) /\ \A j \in Visible(c, it) : k <= j
  <2>1. Visible(c, it) \subseteq Key
    BY Zenon DEF Visible, Ahead
  <2>2. Visible(c, it) # {}
    BY <1>1 DEF Upcoming, At
  <2>3. k = Lowest(Visible(c, it))
    BY <1>1, <2>2 DEF Upcoming, At
  <2> QED BY Zenon, <2>1, <2>2, <2>3, LowestIs
<1>4. k \in Key /\ k \in Nat /\ HasPrefix(k, it.prefix)
  BY Zenon, <1>3, Marks DEF Visible, Ahead
<1>5. PICK m, q, at : m = it.ck /\ q = it.pend /\ at = it.at
  OBVIOUS
<1>6. m \in Key \cup {None} /\ q \in Buffer /\ at \in Entries
  BY <1>1, <1>2, <1>5 DEF Iterators
<1>7. CASE k = pendKey(it)
  <2>1. PICK p : p = [it.pend EXCEPT ![k] = Unset]
    BY Zenon
  <2>2. p \in Buffer /\ \A j \in Key : p[j] = IF j = k THEN Unset ELSE it.pend[j]
    BY <1>2, <1>4, <2>1 DEF Buffer
  <2>3. nx = Altered(it, "settle", m, p, at)
    BY Zenon, <1>1, <1>5, <1>7, <2>1 DEF Iterators, Altered, passed
  <2>4. nx \in Iterators /\ nx.prefix = it.prefix /\ nx.on = it.on /\ nx.ck = m /\ nx.pc = "settle" /\ nx.pend = p
    <3>1. Alters(it, nx, "settle", m, p, at)
      BY Zenon, <1>1, <1>6, <2>2, <2>3 DEF Alters
    <3> QED BY <3>1, Replaced
  <2>5. it.ck = None \/ k < it.ck
    BY Zenon, <1>1, <1>7 DEF Standing
  <2>6. Ahead(c, nx) = Ahead(c, it) \ {k}
    <3>1. ASSUME NEW j \in Key
          PROVE  (p[j] # Unset \/ (c[j] # None /\ m # None /\ m <= j))
                    <=> (it.pend[j] # Unset \/ (c[j] # None /\ it.ck # None /\ it.ck <= j)) /\ j # k
      <4>1. p[j] = IF j = k THEN Unset ELSE it.pend[j]
        BY Zenon, <2>2
      <4>2. it.ck # None /\ it.ck <= j => j # k
        BY <1>2, <1>4, <2>5
      <4> QED BY Zenon, <1>5, <4>1, <4>2
    <3> QED BY Zenon, <2>4, <3>1 DEF Ahead
  <2>7. Moved(c, it, nx, k)
    BY Zenon, <1>1, <1>5, <2>2, <2>4, <2>6 DEF Moved, Merged
  <2>8. Foremost(c, it, k)
    BY Zenon, <1>3 DEF Foremost
  <2>9. Merged(c, nx) /\ Visible(c, nx) = Visible(c, it) \ {k}
    BY <1>1, <2>7, <2>8, Passed
  <2> QED BY Zenon, <1>3, <2>4, <2>9
<1>8. CASE k # pendKey(it)
  <2>1. it.ck = k /\ it.pend[k] = Unset
    BY Zenon, <1>1, <1>8 DEF Standing
  <2>2. PICK n : n = SeekKey(c, k + 1)
    OBVIOUS
  <2>3. k + 1 \in Nat
    BY <1>4
  <2>4. /\ n \in Key \cup {None}
        /\ n # None => c[n] # None /\ k + 1 <= n
        /\ \A j \in Key : c[j] # None => ((n # None /\ n <= j) <=> k + 1 <= j)
    <3>1. PICK from : from = k + 1
      OBVIOUS
    <3>2. from \in Nat /\ n = SeekKey(c, from)
      BY Zenon, <2>2, <2>3, <3>1
    <3>3. /\ n \in Key \cup {None}
          /\ n # None => c[n] # None /\ from <= n
          /\ \A j \in Key : c[j] # None => ((n # None /\ n <= j) <=> from <= j)
      BY Zenon, <3>2, Sought
    <3> QED BY Zenon, <3>1, <3>3
  <2>5. nx = Altered(it, "settle", n, q, at)
    BY Zenon, <1>1, <1>5, <1>8, <2>1, <2>2 DEF Iterators, Altered, passed
  <2>6. nx \in Iterators /\ nx.prefix = it.prefix /\ nx.on = it.on /\ nx.ck = n /\ nx.pc = "settle" /\ nx.pend = q
    <3>1. Alters(it, nx, "settle", n, q, at)
      BY Zenon, <1>1, <1>6, <2>4, <2>5 DEF Alters
    <3> QED BY <3>1, Replaced
  <2>7. Ahead(c, nx) = Ahead(c, it) \ {k}
    <3>1. ASSUME NEW j \in Key
          PROVE  (q[j] # Unset \/ (c[j] # None /\ n # None /\ n <= j))
                    <=> (it.pend[j] # Unset \/ (c[j] # None /\ it.ck # None /\ it.ck <= j)) /\ j # k
      <4>1. j \in Nat
        BY Marks
      <4>2. c[j] # None => ((n # None /\ n <= j) <=> k + 1 <= j)
        BY Zenon, <2>4
      <4>3. k + 1 <= j <=> k <= j /\ j # k
        BY <1>4, <4>1
      <4> QED BY Zenon, <1>5, <1>8, <2>1, <4>2, <4>3
    <3> QED BY Zenon, <1>5, <2>6, <3>1 DEF Ahead
  <2>8. n # None => c[n] # None /\ it.prefix.lo <= n
    <3>1. n \in Nat
      BY <2>4, Marks
    <3> QED BY <1>2, <1>4, <2>4, <3>1 DEF HasPrefix
  <2>9. Moved(c, it, nx, k)
    <3>1. \A j \in Key : nx.pend[j] = it.pend[j]
      BY Zenon, <1>5, <2>6
    <3> QED BY Zenon, <2>6, <2>7, <2>8, <3>1 DEF Moved
  <2>10. Foremost(c, it, k)
    BY Zenon, <1>3 DEF Foremost
  <2>11. Merged(c, nx) /\ Visible(c, nx) = Visible(c, it) \ {k}
    BY <1>1, <2>9, <2>10, Passed
  <2> QED BY Zenon, <1>3, <2>6, <2>11
<1> QED BY Zenon, <1>7, <1>8

\* The contract's position, by the keys there are.
Present(d, p, from) == {k \in Key : k >= from /\ k >= p.lo /\ k <= p.hi /\ d[k] # None}

\* The contract's iterator stands at the least of them.
LEMMA FirstFrom ==
    ASSUME NEW d, NEW p, NEW from, NEW S, S = Present(d, p, from)
    PROVE  Contract!From(d, p, from) = IF S = {} THEN At(None, None) ELSE At(Lowest(S), d[Lowest(S)])
<1>1. Contract!None = None
  BY Zenon DEF Contract!None, None
<1> QED BY Zenon, <1>1 DEF Contract!From, At, Lowest, Present

\* What is visible after Next is what the contract's iterator finds.
LEMMA NextFound ==
    ASSUME NEW c \in Bucket, NEW it, IterOK(c, it), it.pc = "settled", NEW k, k = it.at.key, k # None,
           NEW nx, nx = passed(c, it)
    PROVE  Upcoming(c, nx) = Contract!From(it.on, it.prefix, k + 1)
<1>1. /\ nx.prefix = it.prefix /\ nx.on = it.on
      /\ k \in Visible(c, it) /\ \A j \in Visible(c, it) : k <= j
      /\ Visible(c, nx) = Visible(c, it) \ {k}
  BY NextRound
<1>2. k \in Key /\ k \in Nat
  BY Zenon, <1>1, Marks DEF Visible, Ahead
<1> DEFINE S == {j \in Key : j >= k + 1 /\ j >= it.prefix.lo /\ j <= it.prefix.hi /\ it.on[j] # None}
<1>3. Visible(c, nx) = S
  <2>1. ASSUME NEW j \in Visible(c, it), j # k
        PROVE  j \in S
    <3>1. j \in Key /\ j \in Nat /\ HasPrefix(j, it.prefix) /\ it.on[j] # None
      BY Zenon, Marks DEF Visible, Ahead
    <3>2. k <= j
      BY Zenon, <1>1
    <3> QED BY <1>2, <2>1, <3>1, <3>2 DEF HasPrefix
  <2>2. ASSUME NEW j \in S
        PROVE  j \in Visible(c, it) /\ j # k
    <3>1. j \in Key /\ j \in Nat
      BY Marks
    <3>2. k <= j /\ j # k /\ HasPrefix(j, it.prefix) /\ it.on[j] # None
      BY <1>2, <3>1 DEF HasPrefix
    <3> QED BY Zenon, <1>1, <3>1, <3>2 DEF IterOK, Merged
  <2> QED BY Zenon, <1>1, <2>1, <2>2
<1>4. PICK d, p, T : d = it.on /\ p = it.prefix /\ T = S
  BY Zenon
<1>5. T = {j \in Key : j >= k + 1 /\ j >= p.lo /\ j <= p.hi /\ d[j] # None}
  BY Zenon, <1>4
<1>6. PICK from : from = k + 1
  OBVIOUS
<1>7. Contract!From(d, p, from) = IF T = {} THEN At(None, None) ELSE At(Lowest(T), d[Lowest(T)])
  <2>1. T = Present(d, p, from)
    BY Zenon, <1>5, <1>6 DEF Present
  <2> QED BY Zenon, <2>1, FirstFrom
<1> QED BY Zenon, <1>1, <1>3, <1>4, <1>6, <1>7 DEF Upcoming

\* What a transaction sees: its buffer over the bucket.
Seen(q, c) == [k \in Key |-> Over(q[k], c[k])]

\* It is a map like the bucket, key by key.
LEMMA SeenIn ==
    ASSUME NEW q \in Buffer, NEW c \in Bucket
    PROVE  Seen(q, c) \in Bucket /\ \A k \in Key : Seen(q, c)[k] = Over(q[k], c[k])
<1>1. ASSUME NEW k \in Key
      PROVE  Over(q[k], c[k]) \in Value \cup {None}
  <2>1. q[k] \in Value \cup {Unset, Deleted} /\ c[k] \in Value \cup {None}
    BY Zenon DEF Buffer, Bucket
  <2> QED BY Zenon, <2>1 DEF Over
<1> QED BY Zenon, <1>1 DEF Seen, Bucket

\* The iterator ScanFrom opens, before it settles.
Opened(c, q, d, p, s) ==
    [pc |-> "settle", prefix |-> p, ck |-> SeekKey(c, s),
     pend |-> [k \in Key |-> IF HasPrefix(k, p) /\ k >= s THEN q[k] ELSE Unset],
     at |-> At(None, None), on |-> d]

\* It has ahead of it what the transaction holds from the start on.
LEMMA ScanRound ==
    ASSUME NEW c \in Bucket, NEW q \in Buffer, NEW d, d = Seen(q, c), NEW p \in Prefix, NEW lower \in Key,
           NEW s, s = (IF lower < p.lo THEN p.lo ELSE lower), NEW it, it = Opened(c, q, d, p, s)
    PROVE  IterOK(c, it) /\ it.pc = "settle" /\ it.on = d /\ it.prefix = p
           /\ Upcoming(c, it) = Contract!From(d, p, lower)
<1>1. lower \in Nat /\ p.lo \in Nat /\ p.hi \in Nat /\ s \in Nat
  <2>1. p \in [lo : Nat, hi : Nat]
    BY Zenon, KeysAssumption
  <2> QED BY <2>1, Marks
<1>2. PICK n, pend : n = SeekKey(c, s) /\ pend = [k \in Key |-> IF HasPrefix(k, p) /\ k >= s THEN q[k] ELSE Unset]
  BY Zenon
<1>3. /\ n \in Key \cup {None}
      /\ n # None => c[n] # None /\ s <= n
      /\ \A k \in Key : c[k] # None => ((n # None /\ n <= k) <=> s <= k)
  BY Zenon, <1>1, <1>2, Sought
<1>4. pend \in Buffer /\ \A k \in Key : pend[k] = IF HasPrefix(k, p) /\ k >= s THEN q[k] ELSE Unset
  BY Zenon, <1>2 DEF Buffer
<1>5. d \in Bucket /\ \A k \in Key : d[k] = Over(q[k], c[k])
  BY Zenon, SeenIn
<1>6. PICK at : at = At(None, None)
  OBVIOUS
<1>7. at \in Entries
  BY Zenon, <1>6, EntryAt
<1>8. it = [pc |-> "settle", prefix |-> p, ck |-> n, pend |-> pend, at |-> at, on |-> d]
  BY Zenon, <1>2, <1>6 DEF Opened
<1>9. /\ it \in Iterators /\ it.pc = "settle" /\ it.prefix = p /\ it.ck = n /\ it.pend = pend /\ it.on = d
  BY <1>3, <1>4, <1>5, <1>7, <1>8 DEF Iterators
<1>10. \A k \in Key : HasPrefix(k, p) /\ k >= s <=> k >= lower /\ HasPrefix(k, p)
  BY <1>1, Marks DEF HasPrefix
<1>11. \A k \in Key : k >= s <=> s <= k
  BY <1>1, Marks
<1>12. Ahead(c, it) = {k \in Key : HasPrefix(k, p) /\ k >= s /\ (q[k] # Unset \/ c[k] # None)}
  <2>1. ASSUME NEW k \in Key, HasPrefix(k, p)
        PROVE  (pend[k] # Unset \/ (c[k] # None /\ n # None /\ n <= k)) <=> k >= s /\ (q[k] # Unset \/ c[k] # None)
    <3>1. pend[k] = IF k >= s THEN q[k] ELSE Unset
      BY Zenon, <1>4, <2>1
    <3>2. c[k] # None => ((n # None /\ n <= k) <=> k >= s)
      BY Zenon, <1>3, <1>11
    <3> QED BY Zenon, <3>1, <3>2
  <2> QED BY Zenon, <1>9, <2>1 DEF Ahead
<1>13. \A k \in Key : d[k] # None => q[k] # Unset \/ c[k] # None
  BY Zenon, <1>5 DEF Over
<1>14. Visible(c, it) = {k \in Key : HasPrefix(k, p) /\ k >= s /\ d[k] # None}
  BY Zenon, <1>9, <1>12, <1>13 DEF Visible
<1>15. IterOK(c, it)
  <2>1. it.ck # None => c[it.ck] # None /\ it.prefix.lo <= it.ck
    <3>1. n \in Nat
      BY <1>3, Marks
    <3> QED BY <1>1, <1>3, <1>9, <3>1
  <2>2. \A k \in Key : it.pend[k] # Unset => HasPrefix(k, it.prefix)
    BY Zenon, <1>4, <1>9
  <2>3. \A k \in Ahead(c, it) : it.on[k] = Over(it.pend[k], c[k])
    BY Zenon, <1>4, <1>5, <1>9, <1>12
  <2>4. ASSUME NEW j \in Visible(c, it), NEW k \in Key,
               HasPrefix(k, it.prefix), j <= k, it.on[k] # None
        PROVE  k \in Visible(c, it)
    <3>1. j \in Nat /\ k \in Nat /\ j >= s
      BY Zenon, <1>14, Marks
    <3>2. k >= s
      BY <1>1, <2>4, <3>1
    <3> QED BY Zenon, <1>9, <1>14, <2>4, <3>2
  <2> QED BY Zenon, <1>9, <2>1, <2>2, <2>3, <2>4 DEF IterOK, Merged
<1>16. Visible(c, it) = Present(d, p, lower)
  <2>1. \A k \in Key : HasPrefix(k, p) /\ k >= s <=> k >= lower /\ k >= p.lo /\ k <= p.hi
    BY Zenon, <1>10 DEF HasPrefix
  <2> QED BY Zenon, <1>14, <2>1 DEF Present
<1>17. PICK S : S = Visible(c, it)
  OBVIOUS
<1>18. Contract!From(d, p, lower) = IF S = {} THEN At(None, None) ELSE At(Lowest(S), d[Lowest(S)])
  BY ZenonT(30), <1>16, <1>17, FirstFrom
<1>19. Upcoming(c, it) = Contract!From(d, p, lower)
  BY Zenon, <1>9, <1>17, <1>18 DEF Upcoming
<1> QED BY Zenon, <1>9, <1>15, <1>19

\* What the contract sees of a transaction and of its iterator.
Shown(m, q, c) == IF m = "idle" THEN Nothing ELSE Seen(q, c)
Position(c, i) ==
    IF i.pc # "closed"
    THEN [open |-> TRUE, on |-> i.on, prefix |-> i.prefix, at |-> IF i.pc = "settled" THEN i.at ELSE Upcoming(c, i)]
    ELSE [open |-> FALSE]

\* The refinement mapping, transaction by transaction, in a state and in the next.
LEMMA Mapping ==
    /\ view = [t \in Txn |-> Shown(mode[t], pending[t], base[t])]
    /\ iterAbs = [t \in Txn |-> Position(base[t], iter[t])]
    /\ view' = [t \in Txn |-> Shown(mode'[t], pending'[t], base'[t])]
    /\ iterAbs' = [t \in Txn |-> Position(base'[t], iter'[t])]
BY Zenon DEF view, iterAbs, Shown, Position, Seen, Over, Get

\* An open iterator is seen at the first visible key, settled or not.
LEMMA PositionOf ==
    ASSUME NEW c, NEW i, IterOK(c, i)
    PROVE  Position(c, i) = [open |-> TRUE, on |-> i.on, prefix |-> i.prefix, at |-> Upcoming(c, i)]
<1>1. i.pc # "closed"
  BY DEF IterOK, Merged, Iterators
<1>2. (IF i.pc = "settled" THEN i.at ELSE Upcoming(c, i)) = Upcoming(c, i)
  BY Zenon DEF IterOK
<1> QED BY Zenon, <1>1, <1>2 DEF Position

\* A step of one transaction: what it has to keep for the invariant, and how the
\* contract sees it.
Moves(t, m, c, q, i) ==
    /\ mode' = [mode EXCEPT ![t] = m] /\ base' = [base EXCEPT ![t] = c]
    /\ pending' = [pending EXCEPT ![t] = q] /\ iter' = [iter EXCEPT ![t] = i]

\* Such a step keeps the invariant, and only that transaction is seen to change.
LEMMA OneMoves ==
    ASSUME BoltInv, NEW t \in Txn, NEW m \in {"idle", "ro", "rw"}, NEW c \in Bucket, NEW q \in Buffer, NEW i,
           Moves(t, m, c, q, i), bucket' \in Bucket,
           m # "rw" => q = NoPending,
           i = NoIter \/ (m # "idle" /\ IterOK(c, i)),
           m = "rw" => c = bucket',
           m = "rw" \/ bucket' # bucket => \A u \in Txn : u # t => mode[u] # "rw"
    PROVE  /\ BoltInv'
           /\ view' = [view EXCEPT ![t] = Shown(m, q, c)]
           /\ iterAbs' = [iterAbs EXCEPT ![t] = Position(c, i)]
<1>1. /\ mode \in [Txn -> {"idle", "ro", "rw"}] /\ base \in [Txn -> Bucket]
      /\ pending \in [Txn -> Buffer] /\ iter = [u \in Txn |-> iter[u]]
  BY Zenon DEF BoltInv, BoltTypes, Buffer
<1>2. /\ mode' \in [Txn -> {"idle", "ro", "rw"}] /\ base' \in [Txn -> Bucket] /\ pending' \in [Txn -> Buffer]
      /\ iter' = [u \in Txn |-> iter'[u]]
  BY Zenon, <1>1 DEF Moves
<1>3. /\ mode'[t] = m /\ base'[t] = c /\ pending'[t] = q /\ iter'[t] = i
      /\ \A u \in Txn : u # t => /\ mode'[u] = mode[u] /\ base'[u] = base[u]
                                 /\ pending'[u] = pending[u] /\ iter'[u] = iter[u]
  BY Zenon, <1>1 DEF Moves
<1>4. BoltTypes'
  BY Zenon, <1>2, <1>3 DEF BoltInv, BoltTypes, Bucket, Buffer
<1>5. \A u \in Txn : iter'[u] = NoIter \/ (mode'[u] # "idle" /\ IterOK(base'[u], iter'[u]))
  BY Zenon, <1>3 DEF BoltInv
<1>6. \A u, w \in Txn : mode'[u] = "rw" /\ mode'[w] = "rw" => u = w
  BY Zenon, <1>3 DEF BoltInv
<1>7. \A u \in Txn : mode'[u] = "rw" => base'[u] = bucket'
  BY Zenon, <1>3 DEF BoltInv
<1>8. BoltInv'
  BY Zenon, <1>2, <1>4, <1>5, <1>6, <1>7 DEF BoltInv
<1>9. view' = [view EXCEPT ![t] = Shown(m, q, c)]
  BY Zenon, <1>3, Mapping
<1>10. iterAbs' = [iterAbs EXCEPT ![t] = Position(c, i)]
  BY Zenon, <1>3, Mapping
<1> QED BY Zenon, <1>8, <1>9, <1>10

\* What the invariant says of one transaction.
LEMMA OfTxn ==
    ASSUME BoltInv, NEW t \in Txn
    PROVE  /\ mode = [mode EXCEPT ![t] = mode[t]] /\ base = [base EXCEPT ![t] = base[t]]
           /\ pending = [pending EXCEPT ![t] = pending[t]] /\ iter = [iter EXCEPT ![t] = iter[t]]
           /\ mode[t] \in {"idle", "ro", "rw"} /\ base[t] \in Bucket /\ pending[t] \in Buffer /\ bucket \in Bucket
           /\ mode[t] # "rw" => pending[t] = NoPending
           /\ iter[t] = NoIter \/ (mode[t] # "idle" /\ IterOK(base[t], iter[t]))
           /\ mode[t] = "rw" => base[t] = bucket /\ \A u \in Txn : u # t => mode[u] # "rw"
           /\ view[t] = Shown(mode[t], pending[t], base[t]) /\ iterAbs[t] = Position(base[t], iter[t])
           /\ view = [view EXCEPT ![t] = view[t]] /\ iterAbs = [iterAbs EXCEPT ![t] = iterAbs[t]]
<1>1. /\ mode \in [Txn -> {"idle", "ro", "rw"}] /\ base \in [Txn -> Bucket] /\ bucket \in Bucket
      /\ pending \in [Txn -> Buffer] /\ iter = [u \in Txn |-> iter[u]]
  BY Zenon DEF BoltInv, BoltTypes, Buffer, Bucket
<1>2. /\ mode = [mode EXCEPT ![t] = mode[t]] /\ base = [base EXCEPT ![t] = base[t]]
      /\ pending = [pending EXCEPT ![t] = pending[t]] /\ iter = [iter EXCEPT ![t] = iter[t]]
  BY Zenon, <1>1
<1>3. view[t] = Shown(mode[t], pending[t], base[t]) /\ iterAbs[t] = Position(base[t], iter[t])
  BY Zenon, Mapping
<1>4. view = [view EXCEPT ![t] = view[t]] /\ iterAbs = [iterAbs EXCEPT ![t] = iterAbs[t]]
  BY Zenon, Mapping
<1> QED BY Zenon, <1>1, <1>2, <1>3, <1>4 DEF BoltInv, BoltTypes

\* Nothing buffered, nothing changed.
LEMMA SeenPlain ==
    ASSUME NEW c \in Bucket
    PROVE  Seen(NoPending, c) = c /\ NoPending \in Buffer /\ Nothing \in Bucket
<1>1. \A k \in Key : Over(NoPending[k], c[k]) = c[k]
  BY Zenon DEF Over, NoPending
<1>2. c = [k \in Key |-> c[k]]
  BY Zenon DEF Bucket
<1> QED BY Zenon, <1>1, <1>2 DEF Seen, NoPending, Nothing, Buffer, Bucket

\* View and Update begin as the contract's transactions do.
LEMMA BeginStep ==
    ASSUME BoltInv, NEW t \in Txn, NEW m \in {"ro", "rw"}, Begin(t, m)
    PROVE  BoltInv' /\ Contract!Begin(t, m)
<1>1. PICK c, q, i : c = bucket /\ q = pending[t] /\ i = iter[t]
  OBVIOUS
<1>2. /\ mode[t] = "idle"
      /\ m = "rw" => \A u \in Txn : mode[u] # "rw"
      /\ mode' = [mode EXCEPT ![t] = m] /\ base' = [base EXCEPT ![t] = c]
      /\ bucket' = bucket /\ pending' = pending /\ iter' = iter
  BY Zenon, <1>1 DEF Begin
<1>3. c \in Bucket /\ q \in Buffer /\ q = NoPending /\ i = NoIter
  BY Zenon, <1>1, <1>2, OfTxn
<1>4. Moves(t, m, c, q, i)
  BY Zenon, <1>1, <1>2, OfTxn DEF Moves
<1>5. /\ BoltInv'
      /\ view' = [view EXCEPT ![t] = Shown(m, q, c)]
      /\ iterAbs' = [iterAbs EXCEPT ![t] = Position(c, i)]
  <2>1. m \in {"idle", "ro", "rw"} /\ bucket' \in Bucket /\ m # "idle"
    BY Zenon, <1>1, <1>2, <1>3
  <2>2. m = "rw" \/ bucket' # bucket => \A u \in Txn : u # t => mode[u] # "rw"
    BY Zenon, <1>2
  <2> QED BY <1>1, <1>2, <1>3, <1>4, <2>1, <2>2, OneMoves
<1>6. Shown(m, q, c) = bucket
  BY Zenon, <1>1, <1>3, SeenPlain DEF Shown
<1>7. Position(c, i) = iterAbs[t]
  <2>1. iterAbs[t] = Position(base[t], iter[t])
    BY Zenon, OfTxn
  <2>2. i.pc = "closed"
    BY <1>3 DEF NoIter
  <2> QED BY Zenon, <1>1, <2>1, <2>2 DEF Position
<1>8. view' = [view EXCEPT ![t] = bucket] /\ iterAbs' = iterAbs
  BY Zenon, <1>5, <1>6, <1>7, OfTxn
<1> QED BY Zenon, <1>2, <1>5, <1>8 DEF Contract!Begin

\* Set with a value, Delete with the mark.
LEMMA WriteStep ==
    ASSUME BoltInv, NEW t \in Txn, NEW k \in Key, NEW v \in Value \cup {Deleted},
           Ready(t, {"rw"}), pending' = [pending EXCEPT ![t][k] = v], UNCHANGED <<bucket, mode, base, iter>>
    PROVE  BoltInv' /\ Contract!Write(t, k, Over(v, None))
<1>1. PICK c, q, i : c = base[t] /\ q = pending[t] /\ i = iter[t]
  OBVIOUS
<1>2. PICK w : w = [q EXCEPT ![k] = v]
  BY Zenon
<1>3. /\ mode[t] = "rw" /\ bucket' = bucket /\ mode' = mode /\ base' = base /\ iter' = iter
      /\ pending' = [pending EXCEPT ![t] = w]
  BY Zenon, <1>1, <1>2 DEF Ready
<1>4. c \in Bucket /\ q \in Buffer /\ bucket \in Bucket /\ c = bucket /\ (i = NoIter \/ IterOK(c, i))
      /\ \A u \in Txn : u # t => mode[u] # "rw"
  BY Zenon, <1>1, <1>3, OfTxn
<1>5. w \in Buffer /\ \A j \in Key : w[j] = IF j = k THEN v ELSE q[j]
  BY Zenon, <1>2, <1>4 DEF Buffer
<1>6. Moves(t, "rw", c, w, i)
  BY Zenon, <1>1, <1>3, OfTxn DEF Moves
<1>7. /\ BoltInv'
      /\ view' = [view EXCEPT ![t] = Shown("rw", w, c)]
      /\ iterAbs' = [iterAbs EXCEPT ![t] = Position(c, i)]
  BY <1>3, <1>4, <1>5, <1>6, OneMoves
<1>8. Shown("rw", w, c) = [view[t] EXCEPT ![k] = Over(v, None)]
  <2>1. view[t] = [j \in Key |-> Over(q[j], c[j])]
    <3>1. view[t] = Shown(mode[t], pending[t], base[t])
      BY Zenon, OfTxn
    <3> QED BY Zenon, <1>1, <1>3, <3>1 DEF Shown, Seen
  <2>2. Over(v, c[k]) = Over(v, None)
    <3>1. v # Unset
      BY Zenon, Marks
    <3> QED BY Zenon, <3>1 DEF Over
  <2>3. \A j \in Key : Over(w[j], c[j]) = IF j = k THEN Over(v, None) ELSE Over(q[j], c[j])
    BY Zenon, <1>5, <2>2
  <2>4. Shown("rw", w, c) = [j \in Key |-> Over(w[j], c[j])]
    BY Zenon DEF Shown, Seen
  <2> QED BY ZenonT(30), <2>1, <2>3, <2>4
<1>9. view' = [view EXCEPT ![t][k] = Over(v, None)] /\ iterAbs' = iterAbs
  BY Zenon, <1>1, <1>7, <1>8, OfTxn
<1> QED BY Zenon, <1>3, <1>7, <1>9 DEF Contract!Write

\* A step of the iterator alone.
LEMMA IterStep ==
    ASSUME BoltInv, NEW t \in Txn, NEW i, mode[t] # "idle", IterOK(base[t], i),
           iter' = [iter EXCEPT ![t] = i], UNCHANGED <<bucket, mode, base, pending>>
    PROVE  BoltInv' /\ view' = view /\ iterAbs' = [iterAbs EXCEPT ![t] = Position(base[t], i)]
<1>1. PICK m, c, q : m = mode[t] /\ c = base[t] /\ q = pending[t]
  OBVIOUS
<1>2. bucket' = bucket /\ mode' = mode /\ base' = base /\ pending' = pending
  BY Zenon
<1>3. /\ c \in Bucket /\ q \in Buffer /\ bucket \in Bucket /\ m \in {"idle", "ro", "rw"} /\ m # "idle" /\ IterOK(c, i)
      /\ m # "rw" => q = NoPending
      /\ m = "rw" => c = bucket /\ \A u \in Txn : u # t => mode[u] # "rw"
  BY Zenon, <1>1, OfTxn
<1>4. Moves(t, m, c, q, i)
  BY Zenon, <1>1, <1>2, OfTxn DEF Moves
<1>5. /\ BoltInv'
      /\ view' = [view EXCEPT ![t] = Shown(m, q, c)]
      /\ iterAbs' = [iterAbs EXCEPT ![t] = Position(c, i)]
  BY <1>2, <1>3, <1>4, OneMoves
<1>6. view' = view
  BY Zenon, <1>1, <1>5, OfTxn
<1> QED BY Zenon, <1>1, <1>5, <1>6

\* ScanFrom is the contract's, from the moment the iterator is open.
LEMMA ScanStep ==
    ASSUME BoltInv, NEW t \in Txn, NEW p \in Prefix, NEW lower \in Key, ScanFrom(t, p, lower)
    PROVE  BoltInv' /\ Contract!ScanFrom(t, p, lower)
<1>1. PICK c, q, d, s, i : /\ c = base[t] /\ q = pending[t] /\ d = Seen(q, c)
                           /\ s = (IF lower < p.lo THEN p.lo ELSE lower) /\ i = Opened(c, q, d, p, s)
  OBVIOUS
<1>2. c \in Bucket /\ q \in Buffer
  BY Zenon, <1>1, OfTxn
<1>3. [k \in Key |-> Get(t, k)] = d
  BY Zenon, <1>1 DEF Get, Seen, Over
<1>4. /\ mode[t] # "idle" /\ iter' = [iter EXCEPT ![t] = i]
      /\ UNCHANGED <<bucket, mode, base, pending>>
  BY Zenon, <1>1, <1>3 DEF ScanFrom, Ready, Buffered, Opened
<1>5. /\ IterOK(c, i) /\ i.on = d /\ i.prefix = p
      /\ Upcoming(c, i) = Contract!From(d, p, lower)
  BY <1>1, <1>2, ScanRound
<1>6. IterOK(base[t], i)
  BY Zenon, <1>1, <1>5
<1>7. BoltInv' /\ view' = view /\ iterAbs' = [iterAbs EXCEPT ![t] = Position(base[t], i)]
  BY Zenon, <1>4, <1>6, IterStep
<1>8. Position(c, i) = [open |-> TRUE, on |-> i.on, prefix |-> i.prefix, at |-> Upcoming(c, i)]
  BY Zenon, <1>5, PositionOf
<1>9. view[t] = d
  <2>1. view[t] = Shown(mode[t], pending[t], base[t])
    BY Zenon, OfTxn
  <2> QED BY Zenon, <1>1, <1>4, <2>1 DEF Shown
<1>10. iterAbs' = [iterAbs EXCEPT ![t] =
                      [open |-> TRUE, on |-> view[t], prefix |-> p, at |-> Contract!From(view[t], p, lower)]]
  BY Zenon, <1>1, <1>5, <1>7, <1>8, <1>9
<1> QED BY Zenon, <1>4, <1>7, <1>10 DEF Contract!ScanFrom

\* An entry changed in the record of an iterator.
LEMMA AtChanged ==
    ASSUME NEW o, NEW on, NEW p, NEW at, NEW from, NEW a, a = [open |-> o, on |-> on, prefix |-> p, at |-> at]
    PROVE  [a EXCEPT !.at = from] = [open |-> o, on |-> on, prefix |-> p, at |-> from]
OBVIOUS

\* Next of the iterator is the contract's.
LEMMA AdvanceStep ==
    ASSUME BoltInv, NEW t \in Txn, Advance(t)
    PROVE  BoltInv' /\ Contract!Next(t)
<1>1. PICK c, it, k, i : c = base[t] /\ it = iter[t] /\ k = it.at.key /\ i = passed(c, it)
  OBVIOUS
<1>2. it.pc = "settled" /\ k # None
  BY Zenon, <1>1 DEF Advance
<1>3. iter' = [iter EXCEPT ![t] = i] /\ UNCHANGED <<bucket, mode, base, pending>>
  BY Zenon, <1>1 DEF Advance
<1>4. c \in Bucket /\ mode[t] # "idle" /\ IterOK(c, it)
  <2>1. it # NoIter
    BY <1>2 DEF NoIter
  <2> QED BY Zenon, <1>1, <2>1, OfTxn
<1>5. Merged(c, i) /\ i.pc = "settle" /\ i.prefix = it.prefix /\ i.on = it.on
  BY <1>1, <1>2, <1>4, NextRound
<1>6. Upcoming(c, i) = Contract!From(it.on, it.prefix, k + 1)
  BY <1>1, <1>2, <1>4, NextFound
<1>7. IterOK(c, i)
  BY <1>5 DEF IterOK
<1>8. IterOK(base[t], i)
  BY Zenon, <1>1, <1>7
<1>9. BoltInv' /\ view' = view /\ iterAbs' = [iterAbs EXCEPT ![t] = Position(base[t], i)]
  BY Zenon, <1>3, <1>4, <1>8, IterStep
<1>10. Position(c, i) = [open |-> TRUE, on |-> i.on, prefix |-> i.prefix, at |-> Upcoming(c, i)]
  BY Zenon, <1>7, PositionOf
<1>11. iterAbs[t] = [open |-> TRUE, on |-> it.on, prefix |-> it.prefix, at |-> it.at]
  <2>1. iterAbs[t] = Position(base[t], iter[t])
    BY Zenon, OfTxn
  <2>2. it.pc # "closed"
    BY Zenon, <1>2
  <2> QED BY Zenon, <1>1, <1>2, <2>1, <2>2 DEF Position
<1>12. iterAbs[t].open /\ iterAbs[t].at.key = k /\ iterAbs[t].on = it.on /\ iterAbs[t].prefix = it.prefix
  BY <1>1, <1>11
<1>13. Position(c, i) = [iterAbs[t] EXCEPT !.at = Contract!From(it.on, it.prefix, k + 1)]
  <2>1. PICK from : from = Contract!From(it.on, it.prefix, k + 1)
    OBVIOUS
  <2>2. Position(c, i) = [open |-> TRUE, on |-> it.on, prefix |-> it.prefix, at |-> from]
    BY Zenon, <1>5, <1>6, <1>10, <2>1
  <2>3. [iterAbs[t] EXCEPT !.at = from] = [open |-> TRUE, on |-> it.on, prefix |-> it.prefix, at |-> from]
    <3>1. PICK a, o, on, p, at : a = iterAbs[t] /\ o = TRUE /\ on = it.on /\ p = it.prefix /\ at = it.at
      OBVIOUS
    <3>2. a = [open |-> o, on |-> on, prefix |-> p, at |-> at]
      BY Zenon, <1>11, <3>1
    <3>3. [a EXCEPT !.at = from] = [open |-> o, on |-> on, prefix |-> p, at |-> from]
      BY <3>2, AtChanged
    <3> QED BY Zenon, <3>1, <3>3
  <2> QED BY Zenon, <2>1, <2>2, <2>3
<1>14. iterAbs' = [iterAbs EXCEPT ![t].at = Contract!From(iterAbs[t].on, iterAbs[t].prefix, iterAbs[t].at.key + 1)]
  BY Zenon, <1>1, <1>9, <1>12, <1>13
<1>15. iterAbs[t].open /\ iterAbs[t].at.key # Contract!None
  BY Zenon, <1>2, <1>12 DEF Contract!None, None
<1>16. UNCHANGED <<bucket, mode, view>>
  BY Zenon, <1>3, <1>9
<1> QED BY Zenon, <1>9, <1>14, <1>15, <1>16 DEF Contract!Next

\* A round of settle is not seen.
LEMMA SettleStep ==
    ASSUME BoltInv, NEW t \in Txn, Settle(t)
    PROVE  BoltInv' /\ UNCHANGED <<bucket, mode, view, iterAbs>>
<1>1. PICK c, it, i : c = base[t] /\ it = iter[t] /\ i = settle(c, it)
  OBVIOUS
<1>2. it.pc = "settle" /\ iter' = [iter EXCEPT ![t] = i] /\ UNCHANGED <<bucket, mode, base, pending>>
  BY Zenon, <1>1 DEF Settle
<1>3. c \in Bucket /\ mode[t] # "idle" /\ IterOK(c, it)
  <2>1. it # NoIter
    BY <1>2 DEF NoIter
  <2> QED BY Zenon, <1>1, <2>1, OfTxn
<1>4. Merged(c, it)
  BY Zenon, <1>3 DEF IterOK
<1>5. IterOK(c, i) /\ i.prefix = it.prefix /\ i.on = it.on /\ Visible(c, i) = Visible(c, it)
  BY <1>1, <1>2, <1>3, <1>4, SettleRound
<1>6. IterOK(base[t], i)
  BY Zenon, <1>1, <1>5
<1>7. BoltInv' /\ view' = view /\ iterAbs' = [iterAbs EXCEPT ![t] = Position(base[t], i)]
  BY Zenon, <1>2, <1>3, <1>6, IterStep
<1>8. Upcoming(c, i) = Upcoming(c, it)
  BY Zenon, <1>5 DEF Upcoming
<1>9. /\ Position(c, i) = [open |-> TRUE, on |-> i.on, prefix |-> i.prefix, at |-> Upcoming(c, i)]
      /\ Position(c, it) = [open |-> TRUE, on |-> it.on, prefix |-> it.prefix, at |-> Upcoming(c, it)]
  BY Zenon, <1>3, <1>5, PositionOf
<1>10. iterAbs[t] = Position(base[t], i)
  <2>1. iterAbs[t] = Position(base[t], iter[t])
    BY Zenon, OfTxn
  <2> QED BY Zenon, <1>1, <1>5, <1>8, <1>9, <2>1
<1>11. iterAbs' = iterAbs
  BY Zenon, <1>7, <1>10, OfTxn
<1> QED BY Zenon, <1>2, <1>7, <1>11

\* A transaction ends: nothing is left of it.
LEMMA EndStep ==
    ASSUME BoltInv, NEW t \in Txn, End(t), bucket' \in Bucket,
           bucket' # bucket => mode[t] = "rw"
    PROVE  BoltInv' /\ Contract!End(t)
<1>1. PICK c, q, i : c = Nothing /\ q = NoPending /\ i = NoIter
  OBVIOUS
<1>2. c \in Bucket /\ q \in Buffer
  BY Zenon, <1>1 DEF Nothing, NoPending, Bucket, Buffer
<1>3. Moves(t, "idle", c, q, i)
  BY Zenon, <1>1 DEF End, Moves
<1>4. bucket' # bucket => \A u \in Txn : u # t => mode[u] # "rw"
  BY Zenon, OfTxn
<1>5. /\ BoltInv'
      /\ view' = [view EXCEPT ![t] = Shown("idle", q, c)]
      /\ iterAbs' = [iterAbs EXCEPT ![t] = Position(c, i)]
  BY <1>1, <1>2, <1>3, <1>4, OneMoves
<1>6. Shown("idle", q, c) = Contract!Nothing
  BY Zenon DEF Shown, Nothing, Contract!Nothing, None, Contract!None
<1>7. Position(c, i) = Contract!NoIter
  <2>1. i.pc = "closed"
    BY <1>1 DEF NoIter
  <2> QED BY Zenon, <2>1 DEF Position, Contract!NoIter
<1> QED BY Zenon, <1>5, <1>6, <1>7 DEF Contract!End, End

\* The end of Update puts into the bucket what the transaction saw.
LEMMA CommitStep ==
    ASSUME BoltInv, NEW t \in Txn, Commit(t)
    PROVE  BoltInv' /\ Contract!Commit(t)
<1>1. PICK c, q : c = base[t] /\ q = pending[t]
  OBVIOUS
<1>2. mode[t] = "rw" /\ End(t)
  BY Zenon DEF Commit, Ready
<1>3. c \in Bucket /\ q \in Buffer /\ c = bucket
  BY Zenon, <1>1, <1>2, OfTxn
<1>4. bucket' = Seen(q, c)
  <2>1. bucket' = [k \in Key |-> CASE pending[t][k] = Unset -> bucket[k]
                                   [] pending[t][k] = Deleted -> None
                                   [] OTHER -> pending[t][k]]
    BY Zenon DEF Commit
  <2>2. ASSUME NEW k \in Key
        PROVE  (CASE pending[t][k] = Unset -> bucket[k]
                  [] pending[t][k] = Deleted -> None
                  [] OTHER -> pending[t][k]) = Over(q[k], c[k])
    <3>1. PICK x, y : x = pending[t][k] /\ y = bucket[k]
      OBVIOUS
    <3>2. (CASE x = Unset -> y [] x = Deleted -> None [] OTHER -> x) = Over(x, y)
      BY Marks DEF Over
    <3> QED BY Zenon, <1>1, <1>3, <3>1, <3>2
  <2> QED BY Zenon, <2>1, <2>2 DEF Seen
<1>5. bucket' \in Bucket
  BY Zenon, <1>3, <1>4, SeenIn
<1>6. view[t] = bucket'
  <2>1. view[t] = Shown(mode[t], pending[t], base[t])
    BY Zenon, OfTxn
  <2> QED BY Zenon, <1>1, <1>2, <1>4, <2>1 DEF Shown
<1>7. BoltInv' /\ Contract!End(t)
  BY Zenon, <1>2, <1>5, EndStep
<1> QED BY Zenon, <1>2, <1>6, <1>7 DEF Contract!Commit

\* A transaction that does not commit leaves nothing behind.
LEMMA DiscardStep ==
    ASSUME BoltInv, NEW t \in Txn, Discard(t)
    PROVE  BoltInv' /\ Contract!Discard(t)
<1>1. mode[t] # "idle" /\ bucket' = bucket /\ End(t)
  BY Zenon DEF Discard, Ready
<1>2. bucket' \in Bucket
  BY Zenon, <1>1, OfTxn
<1>3. BoltInv' /\ Contract!End(t)
  BY Zenon, <1>1, <1>2, EndStep
<1> QED BY Zenon, <1>1, <1>3 DEF Contract!Discard

\* Every step keeps the invariant, and the contract sees one of its own steps, or
\* none.
LEMMA BoltStep ==
    ASSUME BoltInv, [BoltNext]_boltVars
    PROVE  BoltInv' /\ [Contract!Step]_<<bucket, mode, view, iterAbs>>
<1>1. ASSUME NEW t \in Txn, NEW m \in {"ro", "rw"}, Begin(t, m)
      PROVE  BoltInv' /\ Contract!Step
  BY Zenon, <1>1, BeginStep DEF Contract!Step
<1>2. ASSUME NEW t \in Txn, NEW k \in Key, Delete(t, k)
      PROVE  BoltInv' /\ Contract!Step
  <2>1. Over(Deleted, None) = Contract!None
    BY Zenon, Marks DEF Over, None, Contract!None
  <2>2. BoltInv' /\ Contract!Write(t, k, Over(Deleted, None))
    <3>1. Deleted \in Value \cup {Deleted}
      OBVIOUS
    <3> QED BY Zenon, <1>2, <3>1, WriteStep DEF Delete
  <2> QED BY Zenon, <2>1, <2>2 DEF Contract!Step
<1>3. ASSUME NEW t \in Txn, NEW k \in Key, NEW v \in Value, Set(t, k, v)
      PROVE  BoltInv' /\ Contract!Step
  <2>1. Over(v, None) = v
    BY Zenon, Marks DEF Over
  <2>2. BoltInv' /\ Contract!Write(t, k, Over(v, None))
    BY Zenon, <1>3, WriteStep DEF Set
  <2> QED BY Zenon, <2>1, <2>2 DEF Contract!Step
<1>4. ASSUME NEW t \in Txn, NEW p \in Prefix, NEW lower \in Key, ScanFrom(t, p, lower)
      PROVE  BoltInv' /\ Contract!Step
  BY Zenon, <1>4, ScanStep DEF Contract!Step
<1>5. ASSUME NEW t \in Txn, Advance(t)
      PROVE  BoltInv' /\ Contract!Step
  BY Zenon, <1>5, AdvanceStep DEF Contract!Step
<1>6. ASSUME NEW t \in Txn, Settle(t)
      PROVE  BoltInv' /\ UNCHANGED <<bucket, mode, view, iterAbs>>
  BY Zenon, <1>6, SettleStep
<1>7. ASSUME NEW t \in Txn, Commit(t)
      PROVE  BoltInv' /\ Contract!Step
  BY Zenon, <1>7, CommitStep DEF Contract!Step
<1>8. ASSUME NEW t \in Txn, Discard(t)
      PROVE  BoltInv' /\ Contract!Step
  BY Zenon, <1>8, DiscardStep DEF Contract!Step
<1>9. CASE UNCHANGED boltVars
  <2>1. bucket' = bucket /\ mode' = mode /\ base' = base /\ pending' = pending /\ iter' = iter
    BY Zenon, <1>9 DEF boltVars
  <2>2. view' = view /\ iterAbs' = iterAbs
    BY Zenon, <2>1, Mapping
  <2>3. BoltInv'
    BY Zenon, <2>1 DEF BoltInv, BoltTypes
  <2> QED BY Zenon, <2>1, <2>2, <2>3
<1> QED BY Zenon, <1>1, <1>2, <1>3, <1>4, <1>5, <1>6, <1>7, <1>8, <1>9 DEF BoltNext

\* The adapter starts as the contract does.
LEMMA BoltStart ==
    ASSUME BoltInit
    PROVE  BoltInv /\ Contract!Init
<1>1. NoPending \in Buffer /\ Nothing \in Bucket
  BY Zenon DEF NoPending, Nothing, Buffer, Bucket
<1>2. BoltInv
  BY Zenon, <1>1 DEF BoltInit, BoltInv, BoltTypes, Bucket, Buffer
<1>3. view = [t \in Txn |-> Contract!Nothing]
  <2>1. \A t \in Txn : Shown(mode[t], pending[t], base[t]) = Contract!Nothing
    BY Zenon DEF BoltInit, Shown, Nothing, Contract!Nothing, None, Contract!None
  <2> QED BY Zenon, <2>1, Mapping
<1>4. iterAbs = [t \in Txn |-> Contract!NoIter]
  <2>1. NoIter.pc = "closed"
    BY DEF NoIter
  <2>2. \A t \in Txn : Position(base[t], iter[t]) = Contract!NoIter
    BY Zenon, <2>1 DEF BoltInit, Position, Contract!NoIter
  <2> QED BY Zenon, <2>2, Mapping
<1> QED BY Zenon, <1>2, <1>3, <1>4 DEF BoltInit, Contract!Init, Contract!Data, None, Contract!None

\* The bbolt adapter implements the contract of internal/storage, whatever the keys,
\* the values, the prefixes and the number of transactions: every Get and every
\* position of an iterator is that of one map.
THEOREM BoltImplements == BoltSpec => ImplementsStorage
<1>1. BoltInit => BoltInv /\ Contract!Init
  BY Zenon, BoltStart
<1>2. BoltInv /\ [BoltNext]_boltVars => BoltInv' /\ [Contract!Step]_<<bucket, mode, view, iterAbs>>
  BY Zenon, BoltStep
<1>3. BoltInv => BoltTypes
  BY Zenon DEF BoltInv
<1> QED BY <1>1, <1>2, <1>3, PTL DEF BoltSpec, ImplementsStorage, Contract!Spec, Contract!vars

----------------------------------------------------------------------------
(* Index keys.                                                             *)

\* Sequences joined, compared, and given as functions.
LEMMA Joined ==
    ASSUME NEW a \in Seq(Nat), NEW b \in Seq(Nat)
    PROVE  a \o b \in Seq(Nat)
OBVIOUS

LEMMA SameSequence ==
    ASSUME NEW a \in Seq(Nat), NEW b \in Seq(Nat), Len(a) = Len(b), \A i \in 1..Len(a) : a[i] = b[i]
    PROVE  a = b
OBVIOUS

LEMMA SequenceOf ==
    ASSUME NEW l \in Nat, NEW S, NEW s \in [1..l -> S]
    PROVE  s \in Seq(S)
OBVIOUS

LEMMA Widened ==
    ASSUME NEW S, NEW T, S \subseteq T, NEW s \in Seq(S)
    PROVE  s \in Seq(T)
OBVIOUS

\* A sequence of values in which each follows from the one before.
Chain(g, n, x, step) == g[0] = x /\ \A i \in 1..n : g[i] = step[<<i, g[i - 1]>>]

\* There is one of any length.
LEMMA Iterated ==
    ASSUME NEW n \in Nat, NEW X, NEW x \in X, NEW step \in [Nat \X X -> X]
    PROVE  \E g \in [0..n -> X] : Chain(g, n, x, step)
<1> DEFINE Has(m) == \E g \in [0..m -> X] : Chain(g, m, x, step)
           Without == {m \in Nat : ~Has(m)}
<1>1. SUFFICES ASSUME n \in Without PROVE FALSE
  BY Zenon
<1>2. PICK k \in Without : \A other \in Without : k <= other
  BY Zenon, <1>1, LeastOf
<1>3. k \in Nat
  OBVIOUS
<1>4. CASE k = 0
  <2> DEFINE g == [i \in 0..0 |-> x]
  <2>1. g \in [0..0 -> X] /\ Chain(g, 0, x, step)
    BY DEF Chain
  <2>2. Has(0)
    BY Zenon, <2>1
  <2> QED BY Zenon, <2>2, <1>4
<1>5. CASE k # 0
  <2>1. k - 1 \in Nat /\ ~(k <= k - 1)
    BY <1>3, <1>5
  <2>2. Has(k - 1)
    BY Zenon, <2>1, <1>2
  <2>3. PICK f \in [0..(k - 1) -> X] : Chain(f, k - 1, x, step)
    BY Zenon, <2>2
  <2> DEFINE y == step[<<k, f[k - 1]>>]
             g == [i \in 0..k |-> IF i = k THEN y ELSE f[i]]
  <2>4. y \in X
    <3>1. k - 1 \in 0..(k - 1)
      BY <1>3, <1>5
    <3>2. f[k - 1] \in X
      BY Zenon, <3>1
    <3>3. <<k, f[k - 1]>> \in Nat \X X
      BY Zenon, <3>2, <1>3
    <3> QED BY Zenon, <3>3
  <2>5. \A i \in 0..k : i = k \/ i \in 0..(k - 1)
    BY <1>3
  <2>6. k \in 0..k /\ \A i \in 0..(k - 1) : i \in 0..k /\ i # k
    BY <1>3
  <2> HIDE DEF y
  <2>7. g \in [0..k -> X] /\ g[k] = y /\ \A i \in 0..(k - 1) : g[i] = f[i]
    BY Zenon, <2>4, <2>5, <2>6
  <2> HIDE DEF g
  <2>8. g[0] = x
    <3>1. 0 \in 0..(k - 1)
      BY <1>3, <1>5
    <3> QED BY Zenon, <3>1, <2>3, <2>7 DEF Chain
  <2>9. ASSUME NEW i \in 1..k
        PROVE  g[i] = step[<<i, g[i - 1]>>]
    <3>1. CASE i = k
      <4>1. k - 1 \in 0..(k - 1)
        BY <1>3, <1>5
      <4> QED BY Zenon, <4>1, <3>1, <2>7 DEF y
    <3>2. CASE i # k
      <4>1. i \in 1..(k - 1) /\ i \in 0..(k - 1) /\ i - 1 \in 0..(k - 1)
        BY <1>3, <3>2
      <4> QED BY Zenon, <4>1, <2>3, <2>7 DEF Chain
    <3> QED BY Zenon, <3>1, <3>2
  <2>10. Has(k)
    BY Zenon, <2>7, <2>8, <2>9 DEF Chain
  <2> QED BY Zenon, <2>10
<1> QED BY Zenon, <1>4, <1>5

\* The bytes that a byte of a string becomes.
LEMMA EscapedIs ==
    ASSUME NEW b \in 0..255
    PROVE  /\ Escaped(b) \in Seq(Nat) /\ Len(Escaped(b)) \in 1..2 /\ Escaped(b)[1] = b
           /\ b = 0 => Len(Escaped(b)) = 2 /\ Escaped(b)[2] = 255
           /\ b # 0 => Len(Escaped(b)) = 1
BY DEF Escaped, strEsc, strFF

\* A string is a sequence of bytes.
LEMMA StringIs ==
    ASSUME NEW s \in Strings
    PROVE  /\ s \in Seq(Nat) /\ Len(s) \in Nat
           /\ \A i \in 1..Len(s) : s[i] \in 0..255 /\ Escaped(s[i]) \in Seq(Nat)
<1>1. PICK l \in 0..MaxLen : s \in [1..l -> Byte]
  BY Zenon DEF Strings
<1>2. l \in Nat /\ Byte \subseteq 0..255
  BY CodecAssumption
<1>3. s \in Seq(Byte)
  BY Zenon, <1>1, <1>2, SequenceOf
<1>4. s \in Seq(Nat)
  <2>1. Byte \subseteq Nat
    BY <1>2
  <2> QED BY Zenon, <2>1, <1>3, Widened
<1>5. \A i \in 1..Len(s) : s[i] \in Byte
  BY <1>3
<1>6. Len(s) \in Nat
  BY <1>4
<1> QED BY Zenon, <1>2, <1>4, <1>5, <1>6, EscapedIs

\* What is appended for a string grows by what each byte becomes.
Grows(f, s) ==
    /\ f[0] = <<>>
    /\ \A i \in 0..Len(s) : f[i] \in Seq(Nat)
    /\ \A i \in 1..Len(s) : f[i] = f[i - 1] \o Escaped(s[i])

LEMMA AppendedIs ==
    ASSUME NEW s \in Strings
    PROVE  Grows(Appended(s), s)
<1> DEFINE X == Seq(Nat)
           body(f) == [i \in 0..Len(s) |-> IF i = 0 THEN <<>> ELSE f[i - 1] \o Escaped(s[i])]
           by(i) == IF i \in 1..Len(s) THEN Escaped(s[i]) ELSE <<>>
           step == [ix \in Nat \X X |-> ix[2] \o by(ix[1])]
<1>1. Len(s) \in Nat /\ \A i \in 1..Len(s) : Escaped(s[i]) \in X
  BY Zenon, StringIs
<1>2. \A i \in Nat : by(i) \in X
  <2>1. <<>> \in X
    OBVIOUS
  <2> QED BY Zenon, <2>1, <1>1
<1> HIDE DEF by
<1>3. step \in [Nat \X X -> X]
  <2>1. ASSUME NEW ix \in Nat \X X PROVE ix[2] \o by(ix[1]) \in X
    <3>1. ix[1] \in Nat /\ ix[2] \in X
      OBVIOUS
    <3>2. by(ix[1]) \in X
      BY Zenon, <3>1, <1>2
    <3> HIDE DEF X
    <3> QED BY Zenon, <3>1, <3>2, Joined DEF X
  <2> HIDE DEF X
  <2> QED BY Zenon, <2>1
<1>4. \A i \in 1..Len(s), y \in X : step[<<i, y>>] = y \o Escaped(s[i])
  <2>1. ASSUME NEW i \in 1..Len(s), NEW y \in X PROVE step[<<i, y>>] = y \o Escaped(s[i])
    <3>1. <<i, y>> \in Nat \X X /\ <<i, y>>[1] = i /\ <<i, y>>[2] = y
      BY <1>1
    <3>2. step[<<i, y>>] = <<i, y>>[2] \o by(<<i, y>>[1])
      BY Zenon, <3>1
    <3> QED BY Zenon, <3>1, <3>2 DEF by
  <2> QED BY Zenon, <2>1
<1> HIDE DEF step
<1>5. <<>> \in X
  OBVIOUS
<1> HIDE DEF X
<1>a. PICK g \in [0..Len(s) -> X] : Chain(g, Len(s), <<>>, step)
  BY Zenon, <1>1, <1>3, <1>5, Iterated
<1>6. g[0] = <<>> /\ \A i \in 1..Len(s) : g[i] = step[<<i, g[i - 1]>>]
  BY Zenon, <1>a DEF Chain
<1>7. \A i \in 1..Len(s) : i - 1 \in 0..Len(s) /\ i \in 0..Len(s) /\ i # 0
  BY <1>1
<1>8. \A i \in 1..Len(s) : g[i] = g[i - 1] \o Escaped(s[i])
  BY Zenon, <1>4, <1>6, <1>7
<1>9. \A i \in 0..Len(s) : i = 0 \/ i \in 1..Len(s)
  BY <1>1
<1>10. g = body(g)
  <2>1. g = [i \in 0..Len(s) |-> g[i]]
    BY Zenon
  <2>2. \A i \in 0..Len(s) : g[i] = IF i = 0 THEN <<>> ELSE g[i - 1] \o Escaped(s[i])
    BY Zenon, <1>6, <1>7, <1>8, <1>9
  <2> QED BY Zenon, <2>1, <2>2
<1> DEFINE f == Appended(s)
<1>11. f = CHOOSE h : h = body(h)
  BY Zenon DEF Appended
<1>12. f = body(f)
  BY Zenon, <1>10, <1>11
<1> HIDE DEF f
<1>13. 0 \in 0..Len(s)
  BY <1>1
<1>14. /\ f[0] = <<>>
       /\ \A i \in 1..Len(s) : f[i] = f[i - 1] \o Escaped(s[i])
  <2>1. \A i \in 0..Len(s) : f[i] = IF i = 0 THEN <<>> ELSE f[i - 1] \o Escaped(s[i])
    BY Zenon, <1>12
  <2> HIDE <1>12
  <2> QED BY Zenon, <2>1, <1>7, <1>13
<1>15. \A i \in 0..Len(s) : f[i] \in X
  <2> DEFINE Off == {i \in 0..Len(s) : f[i] \notin X}
  <2>1. SUFFICES ASSUME Off # {} PROVE FALSE
    BY Zenon
  <2>2. Off \subseteq Nat
    BY <1>1
  <2>3. PICK k \in Off : \A other \in Off : k <= other
    BY Zenon, <2>1, <2>2, LeastOf
  <2>4. k \in 1..Len(s)
    BY Zenon, <1>5, <1>9, <1>14
  <2>5. k - 1 \in 0..Len(s) /\ ~(k <= k - 1)
    BY <2>4, <1>1
  <2>6. f[k - 1] \in X
    BY Zenon, <2>3, <2>5
  <2>7. f[k - 1] \o Escaped(s[k]) \in X
    BY Zenon, <2>4, <2>6, <1>1, Joined DEF X
  <2> QED BY Zenon, <2>4, <2>7, <1>14
<1> QED BY Zenon, <1>14, <1>15 DEF Grows, X, f

\* Sequences that start with one another.
LEMMA StartsTrans ==
    ASSUME NEW a \in Seq(Nat), NEW b \in Seq(Nat), NEW c \in Seq(Nat), Starts(a, b), Starts(b, c)
    PROVE  Starts(a, c)
<1>1. Len(a) <= Len(b) /\ Len(b) <= Len(c) /\ Len(a) \in Nat /\ Len(b) \in Nat /\ Len(c) \in Nat
  BY DEF Starts
<1>2. Len(a) <= Len(c) /\ \A i \in 1..Len(a) : i \in 1..Len(b)
  BY <1>1
<1> QED BY Zenon, <1>2 DEF Starts

LEMMA StartsConcat ==
    ASSUME NEW a \in Seq(Nat), NEW b \in Seq(Nat)
    PROVE  Starts(a, a \o b)
BY DEF Starts

\* What was appended stays.
LEMMA Stays ==
    ASSUME NEW s \in Strings, NEW i \in 0..Len(s), NEW j \in 0..Len(s), i <= j
    PROVE  Starts(Appended(s)[i], Appended(s)[j])
<1> DEFINE f == Appended(s)
           Off == {k \in 0..Len(s) : i <= k /\ ~Starts(f[i], f[k])}
<1>1. /\ \A k \in 0..Len(s) : f[k] \in Seq(Nat)
      /\ \A k \in 1..Len(s) : f[k] = f[k - 1] \o Escaped(s[k])
      /\ Len(s) \in Nat /\ \A k \in 1..Len(s) : Escaped(s[k]) \in Seq(Nat)
  BY Zenon, AppendedIs, StringIs DEF Grows
<1> HIDE DEF f
<1>2. SUFFICES ASSUME Off # {} PROVE FALSE
  BY Zenon DEF f
<1>3. Off \subseteq Nat
  BY <1>1
<1>4. PICK k \in Off : \A other \in Off : k <= other
  BY Zenon, <1>2, <1>3, LeastOf
<1>5. k # i
  <2>1. Starts(f[i], f[i])
    BY <1>1 DEF Starts
  <2> QED BY Zenon, <2>1
<1>6. k \in 1..Len(s) /\ k - 1 \in 0..Len(s) /\ i <= k - 1 /\ ~(k <= k - 1)
  BY <1>1, <1>5
<1>7. Starts(f[i], f[k - 1])
  BY Zenon, <1>4, <1>6
<1>8. Starts(f[k - 1], f[k])
  <2>1. f[k - 1] \in Seq(Nat) /\ Escaped(s[k]) \in Seq(Nat)
    BY Zenon, <1>1, <1>6
  <2>2. Starts(f[k - 1], f[k - 1] \o Escaped(s[k]))
    BY Zenon, <2>1, StartsConcat
  <2> QED BY Zenon, <2>2, <1>1, <1>6
<1>9. f[i] \in Seq(Nat) /\ f[k - 1] \in Seq(Nat) /\ f[k] \in Seq(Nat)
  BY Zenon, <1>1, <1>6
<1>10. Starts(f[i], f[k])
  BY Zenon, <1>7, <1>8, <1>9, StartsTrans
<1> QED BY Zenon, <1>10

\* It is the same for strings that begin in the same way.
LEMMA Common ==
    ASSUME NEW s \in Strings, NEW t \in Strings, NEW p \in 0..Len(s), p <= Len(t),
           \A i \in 1..p : s[i] = t[i]
    PROVE  Appended(s)[p] = Appended(t)[p]
<1> DEFINE f == Appended(s)
           g == Appended(t)
           Off == {k \in 0..p : f[k] # g[k]}
<1>1. /\ f[0] = <<>> /\ \A k \in 1..Len(s) : f[k] = f[k - 1] \o Escaped(s[k])
      /\ g[0] = <<>> /\ \A k \in 1..Len(t) : g[k] = g[k - 1] \o Escaped(t[k])
      /\ Len(s) \in Nat /\ Len(t) \in Nat
  BY Zenon, AppendedIs, StringIs DEF Grows
<1> HIDE DEF f, g
<1>2. SUFFICES ASSUME Off # {} PROVE FALSE
  <2>1. p \in 0..p
    BY <1>1
  <2> QED BY Zenon, <2>1 DEF f, g
<1>3. Off \subseteq Nat
  BY <1>1
<1>4. PICK k \in Off : \A other \in Off : k <= other
  BY Zenon, <1>2, <1>3, LeastOf
<1>5. k # 0
  BY Zenon, <1>1
<1>6. k \in 1..p /\ k \in 1..Len(s) /\ k \in 1..Len(t) /\ k - 1 \in 0..p /\ ~(k <= k - 1)
  BY <1>1, <1>5
<1>7. f[k - 1] = g[k - 1] /\ s[k] = t[k]
  BY Zenon, <1>4, <1>6
<1> QED BY Zenon, <1>1, <1>6, <1>7

\* What follows the first p bytes of a string in its encoding.
NextOf(s, p) == IF p < Len(s) THEN Escaped(s[p + 1]) ELSE <<strTerm, strTerm>>

LEMMA NextIs ==
    ASSUME NEW s \in Strings, NEW p \in 0..Len(s)
    PROVE  /\ Appended(s)[p] \in Seq(Nat) /\ NextOf(s, p) \in Seq(Nat)
           /\ appendOrderedString(s) \in Seq(Nat)
           /\ Starts(Appended(s)[p] \o NextOf(s, p), appendOrderedString(s))
           /\ p < Len(s) => Starts(Appended(s)[p] \o NextOf(s, p), Appended(s)[Len(s)])
<1> DEFINE f == Appended(s)
           n == Len(s)
           zz == <<strTerm, strTerm>>
<1>1. /\ \A k \in 0..n : f[k] \in Seq(Nat)
      /\ \A k \in 1..n : f[k] = f[k - 1] \o Escaped(s[k])
      /\ n \in Nat /\ \A k \in 1..n : s[k] \in 0..255 /\ Escaped(s[k]) \in Seq(Nat)
  BY Zenon, AppendedIs, StringIs DEF Grows
<1>2. zz \in Seq(Nat)
  BY DEF strTerm
<1>3. n \in 0..n
  BY <1>1
<1>4. appendOrderedString(s) = f[n] \o zz
  BY Zenon DEF appendOrderedString
<1> HIDE DEF f, zz, n
<1>5. f[n] \o zz \in Seq(Nat) /\ Starts(f[n], f[n] \o zz)
  BY Zenon, <1>1, <1>2, <1>3, Joined, StartsConcat
<1>6. CASE p < n
  <2>1. p + 1 \in 1..n /\ p + 1 \in 0..n /\ p + 1 - 1 = p /\ p + 1 <= n
    BY <1>1, <1>6 DEF n
  <2>2. NextOf(s, p) = Escaped(s[p + 1]) /\ NextOf(s, p) \in Seq(Nat)
    BY Zenon, <2>1, <1>1, <1>6 DEF NextOf, n
  <2>3. f[p] \o NextOf(s, p) = f[p + 1]
    <3> DEFINE q == p + 1
    <3>1. q \in 1..n /\ q - 1 = p
      BY <2>1
    <3>2. NextOf(s, p) = Escaped(s[q])
      BY Zenon, <2>2
    <3> HIDE DEF q
    <3>3. f[q] = f[q - 1] \o Escaped(s[q])
      BY Zenon, <3>1, <1>1
    <3>4. f[q] = f[p] \o NextOf(s, p)
      BY Zenon, <3>1, <3>2, <3>3
    <3> QED BY Zenon, <3>4 DEF q
  <2>4. Starts(f[p + 1], f[n])
    BY Zenon, <2>1, <1>3, Stays DEF f, n
  <2>5. Starts(f[p + 1], f[n] \o zz)
    BY Zenon, <2>1, <2>4, <1>1, <1>3, <1>5, StartsTrans
  <2> QED BY Zenon, <2>2, <2>3, <2>4, <2>5, <1>1, <1>4, <1>5 DEF f, n
<1>7. CASE ~(p < n)
  <2>1. p = n
    BY <1>1, <1>7 DEF n
  <2>2. NextOf(s, p) = zz
    BY Zenon, <1>7 DEF NextOf, n, zz
  <2>3. Starts(f[n] \o zz, f[n] \o zz)
    BY <1>5 DEF Starts
  <2> QED BY Zenon, <2>1, <2>2, <2>3, <1>1, <1>2, <1>3, <1>4, <1>5, <1>7 DEF f, n
<1> QED BY Zenon, <1>6, <1>7

\* The first of two sequences has the smaller digit where they first differ.
Under(a, b) == \E i \in 1..Len(a) : i <= Len(b) /\ a[i] < b[i] /\ \A j \in 1..(i - 1) : a[j] = b[j]

\* That settles how they, and all that start with them, compare.
LEMMA UnderIs ==
    ASSUME NEW a \in Seq(Nat), NEW b \in Seq(Nat), Under(a, b)
    PROVE  Before(a, b) /\ ~Before(b, a) /\ ~Starts(a, b) /\ ~Starts(b, a)
<1>1. PICK i \in 1..Len(a) : i <= Len(b) /\ a[i] < b[i] /\ \A j \in 1..(i - 1) : a[j] = b[j]
  BY Zenon DEF Under
<1>2. i \in 1..Len(b) /\ a[i] \in Nat /\ b[i] \in Nat /\ a[i] # b[i] /\ Len(a) \in Nat /\ Len(b) \in Nat
  BY <1>1
<1>3. ~Starts(a, b) /\ ~Starts(b, a)
  BY Zenon, <1>2 DEF Starts
<1>4. Before(a, b)
  BY Zenon, <1>1 DEF Before
<1>5. ASSUME NEW k \in 1..Len(b), k <= Len(a), b[k] < a[k], \A j \in 1..(k - 1) : b[j] = a[j]
      PROVE  FALSE
  <2>1. k = i \/ k \in 1..(i - 1) \/ i \in 1..(k - 1)
    BY <1>2, <1>5
  <2>2. b[k] \in Nat /\ a[k] \in Nat
    BY <1>5
  <2> QED BY <2>1, <2>2, <1>1, <1>2, <1>5
<1> QED BY Zenon, <1>3, <1>4, <1>5 DEF Before

LEMMA UnderStarts ==
    ASSUME NEW a \in Seq(Nat), NEW b \in Seq(Nat), Under(a, b),
           NEW c \in Seq(Nat), NEW d \in Seq(Nat), Starts(a, c), Starts(b, d)
    PROVE  Under(c, d)
<1>1. PICK i \in 1..Len(a) : i <= Len(b) /\ a[i] < b[i] /\ \A j \in 1..(i - 1) : a[j] = b[j]
  BY Zenon DEF Under
<1>2. /\ Len(a) <= Len(c) /\ \A j \in 1..Len(a) : a[j] = c[j]
      /\ Len(b) <= Len(d) /\ \A j \in 1..Len(b) : b[j] = d[j]
  BY Zenon DEF Starts
<1>3. /\ i \in 1..Len(b) /\ i \in 1..Len(c) /\ i <= Len(d)
      /\ \A j \in 1..(i - 1) : j \in 1..Len(a) /\ j \in 1..Len(b)
  <2>1. Len(a) \in Nat /\ Len(b) \in Nat /\ Len(c) \in Nat /\ Len(d) \in Nat /\ Len(a) <= Len(c) /\ Len(b) <= Len(d)
    BY <1>2
  <2> DEFINE la == Len(a)
             lb == Len(b)
             lc == Len(c)
             ld == Len(d)
  <2>2. i \in 1..la /\ i <= lb
    BY Zenon, <1>1
  <2> HIDE DEF la, lb, lc, ld
  <2>3. la \in Nat /\ lb \in Nat /\ lc \in Nat /\ ld \in Nat /\ la <= lc /\ lb <= ld
    BY Zenon, <2>1 DEF la, lb, lc, ld
  <2>4. i \in 1..lb /\ i \in 1..lc /\ i <= ld /\ \A j \in 1..(i - 1) : j \in 1..la /\ j \in 1..lb
    BY <2>2, <2>3
  <2> QED BY Zenon, <2>4 DEF la, lb, lc, ld
<1> QED BY Zenon, <1>1, <1>2, <1>3 DEF Under

LEMMA UnderAfter ==
    ASSUME NEW a \in Seq(Nat), NEW b \in Seq(Nat), Under(a, b), NEW p \in Seq(Nat)
    PROVE  Under(p \o a, p \o b)
<1>1. PICK i \in 1..Len(a) : i <= Len(b) /\ a[i] < b[i] /\ \A j \in 1..(i - 1) : a[j] = b[j]
  BY Zenon DEF Under
<1> DEFINE k == Len(p) + i
<1>2. k \in 1..Len(p \o a) /\ k <= Len(p \o b) /\ (p \o a)[k] = a[i] /\ (p \o b)[k] = b[i]
  BY <1>1
<1>3. ASSUME NEW j \in 1..(k - 1) PROVE (p \o a)[j] = (p \o b)[j]
  <2>1. CASE j <= Len(p)
    BY <2>1, <1>1
  <2>2. CASE ~(j <= Len(p))
    <3>1. (p \o a)[j] = a[j - Len(p)] /\ (p \o b)[j] = b[j - Len(p)] /\ j - Len(p) \in 1..(i - 1)
      BY <2>2, <1>1
    <3> QED BY Zenon, <3>1, <1>1
  <2> QED BY Zenon, <2>1, <2>2
<1> QED BY Zenon, <1>1, <1>2, <1>3 DEF Under

\* Two strings that begin in the same way and then differ.
LEMMA NextApart ==
    ASSUME NEW s \in Strings, NEW t \in Strings, NEW p \in 0..Len(s), p < Len(t),
           p < Len(s) => s[p + 1] < t[p + 1]
    PROVE  Under(NextOf(s, p), NextOf(t, p))
<1>1. Len(s) \in Nat /\ Len(t) \in Nat /\ p + 1 \in 1..Len(t) /\ (p < Len(s) => p + 1 \in 1..Len(s))
  BY StringIs
<1>2. NextOf(t, p) = Escaped(t[p + 1]) /\ t[p + 1] \in 0..255
  BY Zenon, <1>1, StringIs DEF NextOf
<1>3. CASE p < Len(s)
  <2>1. NextOf(s, p) = Escaped(s[p + 1]) /\ s[p + 1] \in 0..255
    BY Zenon, <1>1, <1>3, StringIs DEF NextOf
  <2>2. s[p + 1] < t[p + 1]
    BY Zenon, <1>3
  <2> DEFINE c == s[p + 1]
             d == t[p + 1]
  <2>3. c \in 0..255 /\ d \in 0..255 /\ c < d
    BY Zenon, <2>1, <2>2, <1>2
  <2> HIDE DEF c, d
  <2>4. /\ Len(Escaped(c)) \in 1..2 /\ Escaped(c)[1] = c
        /\ Len(Escaped(d)) \in 1..2 /\ Escaped(d)[1] = d
    BY Zenon, <2>3, EscapedIs
  <2>5. 1 \in 1..Len(Escaped(c)) /\ 1 <= Len(Escaped(d)) /\ Escaped(c)[1] < Escaped(d)[1]
        /\ \A j \in 1..(1 - 1) : Escaped(c)[j] = Escaped(d)[j]
    BY <2>3, <2>4
  <2>6. Under(Escaped(c), Escaped(d))
    BY Zenon, <2>5 DEF Under
  <2> QED BY Zenon, <2>1, <2>6, <1>2 DEF c, d
<1>4. CASE ~(p < Len(s))
  <2>1. NextOf(s, p) = <<0, 0>>
    BY Zenon, <1>4 DEF NextOf, strTerm
  <2> DEFINE d == t[p + 1]
  <2>2. d \in 0..255
    BY Zenon, <1>2
  <2> HIDE DEF d
  <2>3. Under(<<0, 0>>, Escaped(d))
    <3>1. CASE d = 0
      <4>1. Len(<<0, 0>>) = 2 /\ 2 \in 1..Len(<<0, 0>>) /\ 2 <= Len(Escaped(d)) /\ <<0, 0>>[2] < Escaped(d)[2]
            /\ \A j \in 1..(2 - 1) : <<0, 0>>[j] = Escaped(d)[j]
        <5>1. Len(Escaped(d)) = 2 /\ Escaped(d)[1] = 0 /\ Escaped(d)[2] = 255
          BY Zenon, <3>1, <2>2, EscapedIs
        <5> QED BY <5>1
      <4> QED BY Zenon, <4>1 DEF Under
    <3>2. CASE d # 0
      <4>1. 1 \in 1..Len(<<0, 0>>) /\ 1 <= Len(Escaped(d)) /\ <<0, 0>>[1] < Escaped(d)[1]
            /\ \A j \in 1..(1 - 1) : <<0, 0>>[j] = Escaped(d)[j]
        <5>1. Len(Escaped(d)) = 1 /\ Escaped(d)[1] = d
          BY Zenon, <3>2, <2>2, EscapedIs
        <5> QED BY <5>1, <3>2, <2>2
      <4> QED BY Zenon, <4>1 DEF Under
    <3> QED BY Zenon, <3>1, <3>2
  <2> QED BY Zenon, <2>1, <2>3, <1>2 DEF d
<1> QED BY Zenon, <1>3, <1>4

\* s and t begin with the same p bytes, and then s ends or has the smaller byte.
Less(s, t, p) ==
    /\ p \in 0..Len(s) /\ p < Len(t)
    /\ \A i \in 1..p : s[i] = t[i]
    /\ p < Len(s) => s[p + 1] < t[p + 1]

\* Strings compare by the byte where they part.
LEMMA BeforeIsLess ==
    ASSUME NEW s \in Strings, NEW t \in Strings
    PROVE  Before(s, t) <=> \E p \in 0..Len(s) : Less(s, t, p)
<1>1. s \in Seq(Nat) /\ t \in Seq(Nat) /\ Len(s) \in Nat /\ Len(t) \in Nat
  BY Zenon, StringIs
<1>2. ASSUME NEW p \in 0..Len(s), Less(s, t, p) PROVE Before(s, t)
  <2>1. /\ p < Len(t) /\ \A i \in 1..p : s[i] = t[i]
        /\ p < Len(s) => s[p + 1] < t[p + 1]
    BY Zenon, <1>2 DEF Less
  <2>2. CASE p < Len(s)
    <3> DEFINE k == p + 1
    <3>1. k \in 1..Len(s) /\ k <= Len(t) /\ k - 1 = p
      BY <2>1, <2>2, <1>1
    <3>2. s[k] < t[k]
      BY Zenon, <2>1, <2>2
    <3> HIDE DEF k
    <3>3. \A i \in 1..(k - 1) : s[i] = t[i]
      BY Zenon, <3>1, <2>1
    <3> QED BY Zenon, <3>1, <3>2, <3>3 DEF Before
  <2>3. CASE ~(p < Len(s))
    <3>1. p = Len(s) /\ Len(s) <= Len(t) /\ Len(s) < Len(t)
      BY <2>1, <2>3, <1>1
    <3> QED BY Zenon, <3>1, <2>1 DEF Before, Starts
  <2> QED BY Zenon, <2>2, <2>3
<1>3. ASSUME Before(s, t) PROVE \E p \in 0..Len(s) : Less(s, t, p)
  <2>1. CASE Starts(s, t) /\ Len(s) < Len(t)
    <3>1. Len(s) \in 0..Len(s) /\ ~(Len(s) < Len(s))
      BY <1>1
    <3> QED BY Zenon, <3>1, <2>1 DEF Less, Starts
  <2>2. CASE \E i \in 1..Len(s) : i <= Len(t) /\ s[i] < t[i] /\ \A j \in 1..(i - 1) : s[j] = t[j]
    <3>1. PICK i \in 1..Len(s) : i <= Len(t) /\ s[i] < t[i] /\ \A j \in 1..(i - 1) : s[j] = t[j]
      BY Zenon, <2>2
    <3> DEFINE p == i - 1
    <3>2. p \in 0..Len(s) /\ p < Len(t) /\ p + 1 = i
      BY <3>1, <1>1
    <3>3. \A j \in 1..p : s[j] = t[j]
      BY Zenon, <3>1
    <3> HIDE DEF p
    <3>4. s[p + 1] < t[p + 1]
      BY Zenon, <3>1, <3>2
    <3> QED BY Zenon, <3>2, <3>3, <3>4 DEF Less
  <2> QED BY Zenon, <2>1, <2>2, <1>3 DEF Before
<1> QED BY Zenon, <1>2, <1>3

\* A string that another does not start with parts from it before its end.
LEMMA Parting ==
    ASSUME NEW s \in Strings, NEW t \in Strings, ~Starts(s, t)
    PROVE  \E p \in 0..Len(s) : p < Len(s) /\ p <= Len(t) /\ (Less(s, t, p) \/ Less(t, s, p))
<1>1. s \in Seq(Nat) /\ t \in Seq(Nat) /\ Len(s) \in Nat /\ Len(t) \in Nat
  BY Zenon, StringIs
<1> DEFINE Off == {i \in 1..Len(s) : i <= Len(t) /\ s[i] # t[i]}
<1>2. CASE Off = {}
  <2>1. \A i \in 1..Len(s) : i <= Len(t) => s[i] = t[i]
    BY Zenon, <1>2
  <2>2. Len(t) < Len(s)
    <3>1. SUFFICES ASSUME Len(s) <= Len(t) PROVE FALSE
      BY <1>1
    <3>2. \A i \in 1..Len(s) : i <= Len(t)
      BY <3>1, <1>1
    <3> QED BY Zenon, <3>1, <3>2, <2>1 DEF Starts
  <2>3. /\ Len(t) \in 0..Len(s) /\ Len(t) \in 0..Len(t) /\ Len(t) <= Len(t) /\ ~(Len(t) < Len(t))
        /\ \A i \in 1..Len(t) : i \in 1..Len(s) /\ i <= Len(t)
    BY <2>2, <1>1
  <2>4. Less(t, s, Len(t))
    BY Zenon, <2>1, <2>2, <2>3 DEF Less
  <2> QED BY Zenon, <2>2, <2>3, <2>4
<1>3. CASE Off # {}
  <2>1. Off \subseteq Nat
    BY <1>1
  <2>2. PICK k \in Off : \A other \in Off : k <= other
    BY Zenon, <1>3, <2>1, LeastOf
  <2>3. k \in 1..Len(s) /\ k <= Len(t) /\ s[k] # t[k]
    BY Zenon
  <2>4. s[k] \in Nat /\ t[k] \in Nat
    <3>1. k \in 1..Len(t)
      BY <2>3, <1>1
    <3> QED BY <3>1, <2>3, <1>1
  <2>5. \A i \in 1..(k - 1) : i \in 1..Len(s) /\ i <= Len(t) /\ ~(k <= i)
    BY <2>3, <1>1
  <2>6. \A i \in 1..(k - 1) : s[i] = t[i]
    BY Zenon, <2>2, <2>5
  <2>7. s[k] < t[k] \/ t[k] < s[k]
    BY <2>3, <2>4
  <2> DEFINE p == k - 1
  <2>8. p \in 0..Len(s) /\ p \in 0..Len(t) /\ p < Len(s) /\ p < Len(t) /\ p <= Len(t) /\ p + 1 = k
    BY <2>3, <1>1
  <2>9. \A i \in 1..p : s[i] = t[i] /\ t[i] = s[i]
    BY Zenon, <2>6
  <2> HIDE DEF p, Off
  <2> QED BY Zenon, <2>7, <2>8, <2>9 DEF Less
<1> QED BY Zenon, <1>2, <1>3

\* Two strings are the same or one comes before the other.
LEMMA StringsTotal ==
    ASSUME NEW s \in Strings, NEW t \in Strings, s # t
    PROVE  Before(s, t) \/ Before(t, s)
<1>1. s \in Seq(Nat) /\ t \in Seq(Nat) /\ Len(s) \in Nat /\ Len(t) \in Nat
  BY Zenon, StringIs
<1>2. CASE Starts(s, t)
  <2>1. Len(s) <= Len(t) /\ \A i \in 1..Len(s) : s[i] = t[i]
    BY Zenon, <1>2 DEF Starts
  <2>2. Len(s) # Len(t)
    BY <2>1, <1>1, SameSequence
  <2>3. Len(s) < Len(t)
    BY <2>1, <2>2, <1>1
  <2> QED BY Zenon, <2>3, <1>2 DEF Before
<1>3. CASE ~Starts(s, t)
  <2>1. PICK p \in 0..Len(s) : p <= Len(t) /\ (Less(s, t, p) \/ Less(t, s, p))
    BY Zenon, <1>3, Parting
  <2>2. p \in 0..Len(t)
    BY <2>1, <1>1
  <2> QED BY Zenon, <2>1, <2>2, BeforeIsLess
<1> QED BY Zenon, <1>2, <1>3

\* The encoding of strings keeps their order: the digits appended up to where
\* they part and the next ones already tell, in the whole encoding and, for
\* a string that goes on, before its end is marked.
LEMMA LessEncoded ==
    ASSUME NEW s \in Strings, NEW t \in Strings, NEW p \in 0..Len(s), Less(s, t, p)
    PROVE  /\ Under(appendOrderedString(s), appendOrderedString(t))
           /\ p < Len(s) => Under(Appended(s)[Len(s)], appendOrderedString(t))
           /\ Under(appendOrderedString(s), Appended(t)[Len(t)])
<1> DEFINE f == Appended(s)[p]
           g == Appended(t)[p]
           c == NextOf(s, p)
           d == NextOf(t, p)
           fs == Appended(s)[Len(s)]
           ft == Appended(t)[Len(t)]
           es == appendOrderedString(s)
           et == appendOrderedString(t)
<1>1. /\ p < Len(t) /\ \A i \in 1..p : s[i] = t[i]
      /\ p < Len(s) => s[p + 1] < t[p + 1]
  BY Zenon DEF Less
<1>2. /\ p \in 0..Len(t) /\ p <= Len(t)
      /\ Len(s) \in 0..Len(s) /\ Len(t) \in 0..Len(t)
  BY <1>1, StringIs
<1>3. f = g
  BY Zenon, <1>1, <1>2, Common
<1>4. Under(c, d)
  BY Zenon, <1>1, NextApart
<1>5. /\ f \in Seq(Nat) /\ c \in Seq(Nat) /\ es \in Seq(Nat) /\ Starts(f \o c, es)
      /\ p < Len(s) => Starts(f \o c, fs)
  BY Zenon, NextIs
<1>6. /\ g \in Seq(Nat) /\ d \in Seq(Nat) /\ et \in Seq(Nat) /\ Starts(g \o d, et)
      /\ Starts(g \o d, ft)
  BY Zenon, <1>1, <1>2, NextIs
<1>7. fs \in Seq(Nat) /\ ft \in Seq(Nat)
  BY Zenon, <1>2, NextIs
<1> HIDE DEF f, g, c, d, fs, ft, es, et
<1>8. Under(f \o c, g \o d)
  BY Zenon, <1>3, <1>4, <1>5, <1>6, UnderAfter
<1>9. f \o c \in Seq(Nat) /\ g \o d \in Seq(Nat)
  BY <1>5, <1>6
<1>10. Under(es, et) /\ Under(es, ft) /\ (p < Len(s) => Under(fs, et))
  BY Zenon, <1>5, <1>6, <1>7, <1>8, <1>9, UnderStarts
<1> QED BY Zenon, <1>10 DEF es, et, fs, ft

\* The digits of a value after its tag.
Content(x) ==
    CASE x.kind = "null" -> <<>>
      [] x.kind = "bool" -> <<x.v[1]>>
      [] x.kind = "int" -> <<intDigit(x.v[1])>>
      [] x.kind = "float" -> <<floatDigit(x.v[1])>>
      [] x.kind = "string" -> appendOrderedString(x.v)

\* The values there are.
LEMMA ValueIs ==
    ASSUME NEW x \in Encodable
    PROVE  /\ x = [kind |-> x.kind, v |-> x.v]
           /\ \/ x.kind = "null" /\ x.v = <<>>
              \/ x.kind = "bool" /\ x.v[1] \in {0, 1} /\ x.v = <<x.v[1]>>
              \/ x.kind = "int" /\ x.v[1] \in (-SignBit)..(SignBit - 1) /\ x.v = <<x.v[1]>>
              \/ x.kind = "float" /\ x.v[1] \in 0..(2 * SignBit - 1) /\ x.v = <<x.v[1]>>
              \/ x.kind = "string" /\ x.v \in Strings
<1>1. CASE x \in [kind : {"null"}, v : {<<>>}]
  BY <1>1
<1>2. CASE x \in [kind : {"bool"}, v : Digit({0, 1})]
  BY <1>2 DEF Digit
<1>3. CASE x \in [kind : {"int"}, v : Digit((-SignBit)..(SignBit - 1))]
  BY <1>3 DEF Digit
<1>4. CASE x \in [kind : {"float"}, v : Digit(0..(2 * SignBit - 1))]
  BY <1>4 DEF Digit
<1>5. CASE x \in [kind : {"string"}, v : Strings]
  BY <1>5
<1> QED BY Zenon, <1>1, <1>2, <1>3, <1>4, <1>5 DEF Encodable

\* An encoded value is its tag, the rank of its kind, and its content.
LEMMA EncodedIs ==
    ASSUME NEW x \in Encodable
    PROVE  /\ KindRank(x) \in Nat /\ Content(x) \in Seq(Nat)
           /\ AppendIndexValue(x) = <<KindRank(x)>> \o Content(x)
           /\ AppendIndexValue(x) \in Seq(Nat)
<1>0. SignBit \in Nat
  BY CodecAssumption
<1>1. CASE x.kind = "null"
  <2>1. KindRank(x) = 0 /\ Content(x) = <<>> /\ AppendIndexValue(x) = <<0>>
    BY <1>1 DEF KindRank, Content, AppendIndexValue, tagNull
  <2> QED BY <2>1
<1>2. CASE x.kind = "bool"
  <2>1. KindRank(x) = 1 /\ Content(x) = <<x.v[1]>> /\ AppendIndexValue(x) = <<1, x.v[1]>>
    BY <1>2 DEF KindRank, Content, AppendIndexValue, tagBool
  <2>2. x.v[1] \in Nat
    BY <1>2, ValueIs
  <2> QED BY <2>1, <2>2
<1>3. CASE x.kind = "int"
  <2>1. KindRank(x) = 2 /\ Content(x) = <<intDigit(x.v[1])>> /\ AppendIndexValue(x) = <<2, intDigit(x.v[1])>>
    BY <1>3 DEF KindRank, Content, AppendIndexValue, tagInt
  <2>2. intDigit(x.v[1]) \in Nat
    BY <1>0, <1>3, ValueIs DEF intDigit
  <2> QED BY <2>1, <2>2
<1>4. CASE x.kind = "float"
  <2>1. KindRank(x) = 3 /\ Content(x) = <<floatDigit(x.v[1])>> /\ AppendIndexValue(x) = <<3, floatDigit(x.v[1])>>
    BY <1>4 DEF KindRank, Content, AppendIndexValue, tagFloat
  <2>2. floatDigit(x.v[1]) \in Nat
    BY <1>0, <1>4, ValueIs DEF floatDigit
  <2> QED BY <2>1, <2>2
<1>5. CASE x.kind = "string"
  <2>1. /\ KindRank(x) = 4 /\ Content(x) = appendOrderedString(x.v)
        /\ AppendIndexValue(x) = <<4>> \o appendOrderedString(x.v)
    BY <1>5 DEF KindRank, Content, AppendIndexValue, tagStr
  <2>2. x.v \in Strings /\ 0 \in 0..Len(x.v)
    BY <1>5, ValueIs, StringIs
  <2>3. appendOrderedString(x.v) \in Seq(Nat)
    BY Zenon, <2>2, NextIs
  <2> QED BY <2>1, <2>3
<1> QED BY Zenon, <1>1, <1>2, <1>3, <1>4, <1>5, ValueIs

\* Values that follow one another are encoded by keys that do.
LEMMA OrderKept ==
    ASSUME NEW x \in Encodable, NEW y \in Encodable, Precedes(x, y)
    PROVE  Under(AppendIndexValue(x), AppendIndexValue(y))
<1>0. SignBit \in Nat
  BY CodecAssumption
<1>1. /\ KindRank(x) \in Nat /\ Content(x) \in Seq(Nat) /\ AppendIndexValue(x) = <<KindRank(x)>> \o Content(x)
      /\ KindRank(y) \in Nat /\ Content(y) \in Seq(Nat) /\ AppendIndexValue(y) = <<KindRank(y)>> \o Content(y)
  BY Zenon, EncodedIs
<1>2. ASSUME NEW d \in Nat, NEW e \in Nat, d < e PROVE Under(<<d>>, <<e>>)
  <2>1. 1 \in 1..Len(<<d>>) /\ 1 <= Len(<<e>>) /\ <<d>>[1] < <<e>>[1] /\ \A j \in 1..(1 - 1) : <<d>>[j] = <<e>>[j]
    BY <1>2
  <2> QED BY Zenon, <2>1 DEF Under
<1>3. CASE KindRank(x) < KindRank(y)
  <2> DEFINE d == <<KindRank(x)>>
             e == <<KindRank(y)>>
  <2>1. Under(d, e)
    BY Zenon, <1>1, <1>2, <1>3
  <2>2. d \in Seq(Nat) /\ e \in Seq(Nat)
    BY <1>1
  <2> HIDE DEF d, e
  <2>3. /\ d \o Content(x) \in Seq(Nat) /\ Starts(d, d \o Content(x))
        /\ e \o Content(y) \in Seq(Nat) /\ Starts(e, e \o Content(y))
    BY Zenon, <2>2, <1>1, StartsConcat, Joined
  <2>4. Under(d \o Content(x), e \o Content(y))
    BY Zenon, <2>1, <2>2, <2>3, UnderStarts
  <2> QED BY Zenon, <2>4, <1>1 DEF d, e
<1>4. CASE x.kind = y.kind /\ ~(KindRank(x) < KindRank(y))
  <2>1. KindRank(x) = KindRank(y) /\ <<KindRank(x)>> \in Seq(Nat)
    <3>1. KindRank(x) = KindRank(y)
      BY Zenon, <1>4 DEF KindRank
    <3> QED BY <3>1, <1>1
  <2>2. SUFFICES Under(Content(x), Content(y))
    BY Zenon, <2>1, <1>1, UnderAfter
  <2>3. CASE x.kind = "null"
    BY <2>3, <1>4 DEF Precedes
  <2>4. CASE x.kind = "bool"
    <3>1. x.v[1] < y.v[1] /\ x.v[1] \in Nat /\ y.v[1] \in Nat
      BY <2>4, <1>4, ValueIs DEF Precedes
    <3>2. Content(x) = <<x.v[1]>> /\ Content(y) = <<y.v[1]>>
      BY <2>4, <1>4 DEF Content
    <3> QED BY Zenon, <3>1, <3>2, <1>2
  <2>5. CASE x.kind = "int"
    <3>1. x.v[1] < y.v[1]
      BY <2>5, <1>4 DEF Precedes
    <3>2. intDigit(x.v[1]) < intDigit(y.v[1]) /\ intDigit(x.v[1]) \in Nat /\ intDigit(y.v[1]) \in Nat
      BY <3>1, <2>5, <1>0, <1>4, ValueIs DEF intDigit
    <3>3. Content(x) = <<intDigit(x.v[1])>> /\ Content(y) = <<intDigit(y.v[1])>>
      BY <2>5, <1>4 DEF Content
    <3> QED BY Zenon, <3>2, <3>3, <1>2
  <2>6. CASE x.kind = "float"
    <3>1. Magnitude(x.v[1]) < Magnitude(y.v[1])
      BY <2>6, <1>4 DEF Precedes
    <3>2. floatDigit(x.v[1]) < floatDigit(y.v[1]) /\ floatDigit(x.v[1]) \in Nat /\ floatDigit(y.v[1]) \in Nat
      <4>1. x.v[1] \in 0..(2 * SignBit - 1) /\ y.v[1] \in 0..(2 * SignBit - 1)
        BY <2>6, <1>4, ValueIs
      <4> QED BY <3>1, <4>1, <1>0 DEF floatDigit, Magnitude
    <3>3. Content(x) = <<floatDigit(x.v[1])>> /\ Content(y) = <<floatDigit(y.v[1])>>
      BY <2>6, <1>4 DEF Content
    <3> QED BY Zenon, <3>2, <3>3, <1>2
  <2>7. CASE x.kind = "string"
    <3>1. Before(x.v, y.v)
      BY <2>7, <1>4 DEF Precedes
    <3>2. x.v \in Strings /\ y.v \in Strings
      BY <2>7, <1>4, ValueIs
    <3>3. Content(x) = appendOrderedString(x.v) /\ Content(y) = appendOrderedString(y.v)
      BY <2>7, <1>4 DEF Content
    <3> QED BY Zenon, <3>1, <3>2, <3>3, BeforeIsLess, LessEncoded
  <2> QED BY Zenon, <2>3, <2>4, <2>5, <2>6, <2>7, ValueIs
<1> QED BY Zenon, <1>3, <1>4 DEF Precedes

\* Two values are the same or one precedes the other.
LEMMA ValuesTotal ==
    ASSUME NEW x \in Encodable, NEW y \in Encodable, x # y
    PROVE  Precedes(x, y) \/ Precedes(y, x)
<1>0. SignBit \in Nat
  BY CodecAssumption
<1>1. CASE x.kind # y.kind
  <2>1. KindRank(x) # KindRank(y) /\ KindRank(x) \in Nat /\ KindRank(y) \in Nat
    BY <1>1, ValueIs DEF KindRank
  <2>2. KindRank(x) < KindRank(y) \/ KindRank(y) < KindRank(x)
    BY <2>1
  <2> QED BY Zenon, <2>2 DEF Precedes
<1>2. CASE x.kind = y.kind
  <2>1. x.v # y.v
    BY <1>2, ValueIs
  <2>2. CASE x.kind = "null"
    BY <2>1, <2>2, <1>2, ValueIs
  <2>3. CASE x.kind = "bool"
    <3>1. /\ x.v[1] \in {0, 1} /\ x.v = <<x.v[1]>>
          /\ y.v[1] \in {0, 1} /\ y.v = <<y.v[1]>>
      BY <2>3, <1>2, ValueIs
    <3>2. x.v[1] # y.v[1]
      BY Zenon, <3>1, <2>1
    <3>3. x.v[1] < y.v[1] \/ y.v[1] < x.v[1]
      BY <3>1, <3>2
    <3> QED BY Zenon, <3>3, <2>3, <1>2 DEF Precedes
  <2>4. CASE x.kind = "int"
    <3>1. /\ x.v[1] \in (-SignBit)..(SignBit - 1) /\ x.v = <<x.v[1]>>
          /\ y.v[1] \in (-SignBit)..(SignBit - 1) /\ y.v = <<y.v[1]>>
      BY <2>4, <1>2, ValueIs
    <3>2. x.v[1] # y.v[1]
      BY Zenon, <3>1, <2>1
    <3>3. x.v[1] < y.v[1] \/ y.v[1] < x.v[1]
      BY <3>1, <3>2, <1>0
    <3> QED BY Zenon, <3>3, <2>4, <1>2 DEF Precedes
  <2>5. CASE x.kind = "float"
    <3>1. /\ x.v[1] \in 0..(2 * SignBit - 1) /\ x.v = <<x.v[1]>>
          /\ y.v[1] \in 0..(2 * SignBit - 1) /\ y.v = <<y.v[1]>>
      BY <2>5, <1>2, ValueIs
    <3>2. x.v[1] # y.v[1]
      BY Zenon, <3>1, <2>1
    <3>3. Magnitude(x.v[1]) < Magnitude(y.v[1]) \/ Magnitude(y.v[1]) < Magnitude(x.v[1])
      BY <3>1, <3>2, <1>0 DEF Magnitude
    <3> QED BY Zenon, <3>3, <2>5, <1>2 DEF Precedes
  <2>6. CASE x.kind = "string"
    <3>1. x.v \in Strings /\ y.v \in Strings
      BY <2>6, <1>2, ValueIs
    <3>2. Before(x.v, y.v) \/ Before(y.v, x.v)
      BY Zenon, <3>1, <2>1, StringsTotal
    <3> QED BY Zenon, <3>2, <2>6, <1>2 DEF Precedes
  <2> QED BY Zenon, <2>2, <2>3, <2>4, <2>5, <2>6, ValueIs
<1> QED BY Zenon, <1>1, <1>2

\* The key of an entry is the value and the node.
LEMMA KeyIs ==
    ASSUME NEW x \in Encodable, NEW n \in Nat
    PROVE  /\ IndexKeyOf(x, n) \in Seq(Nat)
           /\ IndexKeyOf(x, n) = AppendIndexValue(x) \o <<n>>
           /\ Len(IndexKeyOf(x, n)) = Len(AppendIndexValue(x)) + 1
           /\ IndexKeyOf(x, n)[Len(IndexKeyOf(x, n))] = n
           /\ Starts(AppendIndexValue(x), IndexKeyOf(x, n))
<1> DEFINE a == AppendIndexValue(x)
<1>1. a \in Seq(Nat) /\ IndexKeyOf(x, n) = Append(a, n)
  BY Zenon, EncodedIs DEF IndexKeyOf
<1> HIDE DEF a
<1>2. <<n>> \in Seq(Nat) /\ Append(a, n) = a \o <<n>> /\ Len(Append(a, n)) = Len(a) + 1
  BY <1>1
<1>3. Append(a, n)[Len(a) + 1] = n /\ Append(a, n) \in Seq(Nat)
  BY <1>1
<1>4. Starts(a, a \o <<n>>)
  BY Zenon, <1>1, <1>2, StartsConcat
<1> QED BY Zenon, <1>1, <1>2, <1>3, <1>4 DEF a

\* Keys are ordered by value, and by node for one value.
LEMMA KeyOrder ==
    ASSUME NEW x \in Encodable, NEW y \in Encodable, NEW n \in Nat, NEW m \in Nat
    PROVE  Before(IndexKeyOf(x, n), IndexKeyOf(y, m)) <=> Precedes(x, y) \/ (x = y /\ n < m)
<1> DEFINE a == AppendIndexValue(x)
           b == AppendIndexValue(y)
           j == IndexKeyOf(x, n)
           k == IndexKeyOf(y, m)
<1>1. /\ a \in Seq(Nat) /\ j \in Seq(Nat) /\ Starts(a, j)
      /\ b \in Seq(Nat) /\ k \in Seq(Nat) /\ Starts(b, k)
  BY Zenon, EncodedIs, KeyIs
<1>2. Precedes(x, y) => Under(a, b)
  BY Zenon, OrderKept
<1>3. Precedes(y, x) => Under(b, a)
  BY Zenon, OrderKept
<1>4. x = y => a = b
  BY Zenon
<1>5. x = y => j = a \o <<n>> /\ k = a \o <<m>>
  BY Zenon, KeyIs
<1> HIDE DEF a, b, j, k
<1>6. CASE Precedes(x, y)
  <2>1. Under(j, k)
    BY Zenon, <1>1, <1>2, <1>6, UnderStarts
  <2> QED BY Zenon, <2>1, <1>1, <1>6, UnderIs DEF j, k
<1>7. CASE Precedes(y, x)
  <2>1. Under(k, j) /\ Under(b, a)
    BY Zenon, <1>1, <1>3, <1>7, UnderStarts
  <2>2. ~Before(j, k) /\ ~Before(a, b) /\ Before(b, a)
    BY Zenon, <2>1, <1>1, UnderIs
  <2>3. ~Precedes(x, y)
    <3>1. SUFFICES ASSUME Precedes(x, y) PROVE FALSE
      OBVIOUS
    <3>2. Before(a, b)
      BY Zenon, <3>1, <1>1, <1>2, UnderIs
    <3> QED BY Zenon, <3>2, <2>2
  <2>4. x # y
    BY Zenon, <2>2, <1>4
  <2> QED BY Zenon, <2>2, <2>3, <2>4 DEF j, k
<1>8. CASE x = y /\ ~Precedes(x, y)
  <2>1. j = a \o <<n>> /\ k = a \o <<m>>
    BY Zenon, <1>5, <1>8
  <2>2. ASSUME NEW c \in Nat, NEW d \in Nat, c < d PROVE Under(a \o <<c>>, a \o <<d>>)
    <3>1. <<c>> \in Seq(Nat) /\ <<d>> \in Seq(Nat)
      OBVIOUS
    <3>2. 1 \in 1..Len(<<c>>) /\ 1 <= Len(<<d>>) /\ <<c>>[1] < <<d>>[1] /\ \A i \in 1..(1 - 1) : <<c>>[i] = <<d>>[i]
      BY <2>2
    <3>3. Under(<<c>>, <<d>>)
      BY Zenon, <3>2 DEF Under
    <3> QED BY Zenon, <3>1, <3>3, <1>1, UnderAfter
  <2>3. CASE n < m
    <3>1. Under(j, k)
      BY Zenon, <2>1, <2>2, <2>3
    <3> QED BY Zenon, <3>1, <2>3, <1>1, <1>8, UnderIs DEF j, k
  <2>4. CASE m < n
    <3>1. Under(k, j)
      BY Zenon, <2>1, <2>2, <2>4
    <3>2. ~Before(j, k)
      BY Zenon, <3>1, <1>1, UnderIs
    <3>3. ~(n < m)
      BY <2>4
    <3> QED BY Zenon, <3>2, <3>3, <1>8 DEF j, k
  <2>5. CASE n = m
    <3>1. ~Before(j, j)
      <4>1. \A i \in 1..Len(j) : j[i] \in Nat
        BY <1>1
      <4>2. Len(j) \in Nat
        BY <1>1
      <4> QED BY <4>1, <4>2 DEF Before
    <3>2. j = k
      BY Zenon, <2>1, <2>5
    <3>3. ~(n < m)
      BY <2>5
    <3> QED BY Zenon, <3>1, <3>2, <3>3, <1>8 DEF j, k
  <2>6. n < m \/ m < n \/ n = m
    OBVIOUS
  <2> QED BY Zenon, <2>3, <2>4, <2>5, <2>6
<1> QED BY Zenon, <1>6, <1>7, <1>8, ValuesTotal

\* A key starts with the encoding of its value and of no other.
LEMMA ValuePrefix ==
    ASSUME NEW x \in Encodable, NEW y \in Encodable, NEW m \in Nat
    PROVE  Starts(AppendIndexValue(x), IndexKeyOf(y, m)) <=> y = x
<1> DEFINE a == AppendIndexValue(x)
           b == AppendIndexValue(y)
           k == IndexKeyOf(y, m)
<1>1. a \in Seq(Nat) /\ b \in Seq(Nat) /\ k \in Seq(Nat) /\ Starts(b, k)
  BY Zenon, EncodedIs, KeyIs
<1>2. Precedes(x, y) => Under(a, b)
  BY Zenon, OrderKept
<1>3. Precedes(y, x) => Under(b, a)
  BY Zenon, OrderKept
<1>4. x = y => a = b
  BY Zenon
<1> HIDE DEF a, b, k
<1>5. Starts(a, a)
  BY <1>1 DEF Starts
<1>6. CASE x = y
  BY Zenon, <1>1, <1>4, <1>6 DEF a, k
<1>7. CASE x # y
  <2>1. Under(a, k) \/ Under(k, a)
    BY Zenon, <1>1, <1>2, <1>3, <1>5, <1>7, ValuesTotal, UnderStarts
  <2>2. ~Starts(a, k)
    BY Zenon, <2>1, <1>1, UnderIs
  <2> QED BY Zenon, <2>2, <1>7 DEF a, k
<1> QED BY Zenon, <1>6, <1>7

\* What is searched for the strings that start with s.
LEMMA PrefixIs ==
    ASSUME NEW s \in Strings
    PROVE  AppendStringPrefix(s) = <<4>> \o Appended(s)[Len(s)]
<1> DEFINE f == Appended(s)[Len(s)]
           p == <<4>> \o f
           enc == <<4>> \o (f \o <<0, 0>>)
<1>1. Len(s) \in 0..Len(s)
  BY StringIs
<1>2. f \in Seq(Nat)
  BY Zenon, <1>1, NextIs
<1>3. AppendStringPrefix(s) = SubSeq(enc, 1, Len(enc) - 2)
  BY Zenon DEF AppendStringPrefix, appendOrderedString, tagStr, strTerm
<1> HIDE DEF f
<1>4. p \in Seq(Nat) /\ enc \in Seq(Nat) /\ Len(enc) = Len(p) + 2 /\ Len(p) \in Nat
  BY <1>2
<1>5. \A i \in 1..Len(p) : enc[i] = p[i]
  BY <1>2
<1> DEFINE q == SubSeq(enc, 1, Len(p))
<1>6. Len(enc) - 2 = Len(p)
  BY <1>4
<1> HIDE DEF p, enc
<1>7. \A i \in 1..Len(p) : enc[i] \in Nat
  BY <1>4, <1>5
<1>8. q \in Seq(Nat) /\ Len(q) = Len(p) /\ \A i \in 1..Len(p) : q[i] = enc[i]
  BY <1>4, <1>7
<1> HIDE DEF q
<1>9. q = p
  BY <1>4, <1>5, <1>8, SameSequence
<1> QED BY Zenon, <1>3, <1>6, <1>9 DEF p, q, f

\* A key starts with it exactly if its value is such a string.
LEMMA StringPrefix ==
    ASSUME NEW s \in Strings, NEW y \in Encodable, NEW m \in Nat
    PROVE  Starts(AppendStringPrefix(s), IndexKeyOf(y, m)) <=> y.kind = "string" /\ Starts(s, y.v)
<1> DEFINE fs == Appended(s)[Len(s)]
           a == <<4>> \o fs
           b == AppendIndexValue(y)
           k == IndexKeyOf(y, m)
<1>1. AppendStringPrefix(s) = a
  BY Zenon, PrefixIs
<1>2. Len(s) \in 0..Len(s) /\ <<4>> \in Seq(Nat)
  BY StringIs
<1>3. fs \in Seq(Nat)
  BY Zenon, <1>2, NextIs
<1>4. b \in Seq(Nat) /\ k \in Seq(Nat) /\ Starts(b, k)
  BY Zenon, EncodedIs, KeyIs
<1>5. KindRank(y) \in Nat /\ Content(y) \in Seq(Nat) /\ b = <<KindRank(y)>> \o Content(y)
  BY Zenon, EncodedIs
<1> HIDE DEF fs, b, k
<1>6. a \in Seq(Nat) /\ Len(a) \in Nat \ {0} /\ a[1] = 4
  BY <1>3
<1>7. Len(b) \in Nat \ {0} /\ b[1] = KindRank(y)
  BY <1>5
<1> HIDE DEF a
<1>8. CASE y.kind # "string"
  <2>1. KindRank(y) # 4
    BY <1>8, ValueIs DEF KindRank
  <2>2. k[1] = b[1]
    BY SMTT(30), <1>4, <1>7 DEF Starts
  <2>3. 1 \in 1..Len(a)
    BY <1>6
  <2>4. ~Starts(a, k)
    BY Zenon, <2>1, <2>2, <2>3, <1>6, <1>7 DEF Starts
  <2> QED BY Zenon, <2>4, <1>1, <1>8 DEF k
<1>9. CASE y.kind = "string"
  <2> DEFINE t == y.v
             et == appendOrderedString(t)
             ft == Appended(t)[Len(t)]
  <2>1. t \in Strings
    BY <1>9, ValueIs
  <2>2. b = <<4>> \o et
    BY <1>9 DEF AppendIndexValue, tagStr, b
  <2>3. Len(t) \in 0..Len(t)
    BY <2>1, StringIs
  <2>4. et \in Seq(Nat) /\ ft \in Seq(Nat)
    BY Zenon, <2>1, <2>3, NextIs
  <2>5. CASE Starts(s, t)
    <3>1. Len(s) <= Len(t) /\ \A i \in 1..Len(s) : s[i] = t[i]
      BY Zenon, <2>5 DEF Starts
    <3>2. Len(s) \in 0..Len(t)
      BY <3>1, <1>2, <2>3
    <3>3. fs = Appended(t)[Len(s)]
      BY Zenon, <3>1, <1>2, <2>1, Common DEF fs
    <3>4. Starts(fs, ft)
      BY Zenon, <3>1, <3>2, <3>3, <2>1, <2>3, Stays
    <3>5. Starts(ft, et)
      <4>1. et = ft \o <<0, 0>>
        BY Zenon DEF appendOrderedString, strTerm
      <4>2. <<0, 0>> \in Seq(Nat)
        OBVIOUS
      <4> HIDE DEF et, ft
      <4>3. Starts(ft, ft \o <<0, 0>>)
        BY Zenon, <4>2, <2>4, StartsConcat
      <4> QED BY Zenon, <4>1, <4>3
    <3> HIDE DEF et, ft
    <3>6. Starts(fs, et)
      BY Zenon, <3>4, <3>5, <1>3, <2>4, StartsTrans
    <3>7. Starts(a, b)
      BY <3>6, <2>2, <1>3, <2>4 DEF Starts, a
    <3>8. Starts(a, k)
      BY Zenon, <3>7, <1>4, <1>6, StartsTrans
    <3> QED BY Zenon, <3>8, <2>5, <1>1, <1>9 DEF k
  <2>6. CASE ~Starts(s, t)
    <3>1. PICK p \in 0..Len(s) : p < Len(s) /\ p <= Len(t) /\ (Less(s, t, p) \/ Less(t, s, p))
      BY Zenon, <2>1, <2>6, Parting
    <3>2. p \in 0..Len(t)
      BY <3>1, <2>3
    <3>3. Under(fs, et) \/ Under(et, fs)
      BY Zenon, <3>1, <3>2, <2>1, LessEncoded DEF fs
    <3> HIDE DEF et, ft
    <3>4. Under(a, b) \/ Under(b, a)
      BY Zenon, <3>3, <2>2, <2>4, <1>2, <1>3, UnderAfter DEF a
    <3>5. Starts(a, a)
      BY <1>6 DEF Starts
    <3>6. Under(a, k) \/ Under(k, a)
      BY Zenon, <3>4, <3>5, <1>4, <1>6, UnderStarts
    <3>7. ~Starts(a, k)
      BY Zenon, <3>6, <1>4, <1>6, UnderIs
    <3> QED BY Zenon, <3>7, <2>6, <1>1 DEF k
  <2> QED BY Zenon, <2>5, <2>6
<1> QED BY Zenon, <1>8, <1>9

\* The rounds of decodeOrderedString follow one another.
Follow(round, src) ==
    /\ round[0] = Reading("open", 1, <<>>)
    /\ \A k \in 1..(Len(src) + 1) : round[k] = decodeRound(src, round[k - 1])

LEMMA RoundsIs ==
    ASSUME NEW src \in Seq(Nat)
    PROVE  Follow(Rounds(src), src)
<1> DEFINE E == {"open", "ok", "malformed"}
           I == Nat \ {0}
           X == [end : E, i : I, b : Seq(Nat)]
           n == Len(src) + 1
           first == Reading("open", 1, <<>>)
           body(f) == [k \in 0..n |-> IF k = 0 THEN first ELSE decodeRound(src, f[k - 1])]
           step == [ix \in Nat \X X |-> decodeRound(src, ix[2])]
<1>1. n \in Nat
  OBVIOUS
<1>2. first \in X
  BY DEF Reading
<1>3. ASSUME NEW r \in X PROVE decodeRound(src, r) \in X
  <2>1. r.i \in I /\ r.b \in Seq(Nat)
    OBVIOUS
  <2>2. \A e \in E, i \in I, b \in Seq(Nat) : Reading(e, i, b) \in X
    BY Zenon DEF Reading
  <2>3. r.i + 1 \in I /\ r.i + 2 \in I
    BY <2>1
  <2>4. Append(r.b, strEsc) \in Seq(Nat)
    BY <2>1 DEF strEsc
  <2>5. ~(r.i > Len(src)) => Append(r.b, src[r.i]) \in Seq(Nat)
    BY <2>1
  <2>6. "open" \in E /\ "ok" \in E /\ "malformed" \in E
    OBVIOUS
  <2> HIDE DEF X, I, E
  <2> QED BY Zenon, <2>1, <2>2, <2>3, <2>4, <2>5, <2>6 DEF decodeRound
<1> HIDE DEF X
<1>4. step \in [Nat \X X -> X]
  <2>1. ASSUME NEW ix \in Nat \X X PROVE decodeRound(src, ix[2]) \in X
    <3>1. ix[2] \in X
      OBVIOUS
    <3> QED BY Zenon, <3>1, <1>3
  <2> QED BY Zenon, <2>1
<1>5. \A k \in 1..n, r \in X : step[<<k, r>>] = decodeRound(src, r)
  <2>1. ASSUME NEW k \in 1..n, NEW r \in X PROVE step[<<k, r>>] = decodeRound(src, r)
    <3>1. <<k, r>> \in Nat \X X /\ <<k, r>>[2] = r
      BY <1>1
    <3>2. step[<<k, r>>] = decodeRound(src, <<k, r>>[2])
      BY Zenon, <3>1
    <3> QED BY Zenon, <3>1, <3>2
  <2> QED BY Zenon, <2>1
<1> HIDE DEF step, first
<1>6. PICK g \in [0..n -> X] : Chain(g, n, first, step)
  BY Zenon, <1>1, <1>2, <1>4, Iterated
<1>7. \A k \in 1..n : k - 1 \in 0..n /\ k \in 0..n /\ k # 0
  BY <1>1
<1>8. \A k \in 0..n : k = 0 \/ k \in 1..n
  BY <1>1
<1>9. 0 \in 0..n
  BY <1>1
<1> HIDE DEF n
<1>10. g[0] = first /\ \A k \in 1..n : g[k] = decodeRound(src, g[k - 1])
  <2>1. g[0] = first /\ \A k \in 1..n : g[k] = step[<<k, g[k - 1]>>]
    BY Zenon, <1>6 DEF Chain
  <2> QED BY Zenon, <2>1, <1>5, <1>7
<1>11. g = body(g)
  <2>1. g = [k \in 0..n |-> g[k]]
    BY Zenon
  <2>2. \A k \in 0..n : g[k] = IF k = 0 THEN first ELSE decodeRound(src, g[k - 1])
    BY Zenon, <1>7, <1>8, <1>10
  <2> QED BY Zenon, <2>1, <2>2
<1> DEFINE f == Rounds(src)
<1>12. f = CHOOSE h : h = body(h)
  BY Zenon DEF Rounds, n, first
<1>13. f = body(f)
  BY Zenon, <1>11, <1>12
<1> HIDE DEF f
<1>14. \A k \in 0..n : f[k] = IF k = 0 THEN first ELSE decodeRound(src, f[k - 1])
  BY Zenon, <1>13
<1>15. f[0] = first /\ \A k \in 1..n : f[k] = decodeRound(src, f[k - 1])
  BY Zenon, <1>7, <1>9, <1>14
<1> QED BY Zenon, <1>15 DEF Follow, f, n, first

\* After k rounds the k first bytes are read, and the next one is at hand.
ReadSoFar(r, s, k) ==
    /\ r.end = "open" /\ r.i = Len(Appended(s)[k]) + 1 /\ r.i > k
    /\ r.b \in Seq(Nat) /\ Len(r.b) = k /\ \A j \in 1..k : r.b[j] = s[j]

LEMMA ReadingOn ==
    ASSUME NEW s \in Strings, NEW n \in Nat, NEW k \in 1..Len(s), NEW r,
           ReadSoFar(r, s, k - 1)
    PROVE  ReadSoFar(decodeRound(appendOrderedString(s) \o <<n>>, r), s, k)
<1> DEFINE src == appendOrderedString(s) \o <<n>>
           p == k - 1
           f == Appended(s)[p]
           c == s[k]
           e == Escaped(c)
<1>1. Len(s) \in Nat /\ k \in 1..Len(s) /\ p \in 0..Len(s) /\ p < Len(s) /\ p + 1 = k /\ p \in Nat
  BY StringIs
<1>2. c \in 0..255 /\ e \in Seq(Nat)
  BY Zenon, <1>1, StringIs
<1>3. NextOf(s, p) = e
  <2> HIDE DEF p
  <2> QED BY Zenon, <1>1 DEF NextOf
<1>4. f \in Seq(Nat) /\ appendOrderedString(s) \in Seq(Nat) /\ Starts(f \o e, appendOrderedString(s))
  BY Zenon, <1>1, <1>3, NextIs
<1>5. Appended(s)[k] = f \o e
  BY Zenon, <1>1, AppendedIs DEF Grows
<1>6. src \in Seq(Nat) /\ Starts(f \o e, src)
  <2> DEFINE es == appendOrderedString(s)
  <2>1. es \in Seq(Nat) /\ Starts(f \o e, es)
    BY Zenon, <1>4
  <2> HIDE DEF es, f, e
  <2>2. f \o e \in Seq(Nat) /\ <<n>> \in Seq(Nat) /\ es \o <<n>> \in Seq(Nat)
    BY <2>1, <1>2, <1>4
  <2>3. Starts(es, es \o <<n>>)
    BY Zenon, <2>1, <2>2, StartsConcat
  <2>4. Starts(f \o e, es \o <<n>>)
    BY Zenon, <2>1, <2>2, <2>3, StartsTrans
  <2> QED BY Zenon, <2>2, <2>4 DEF es
<1>7. /\ Len(e) \in 1..2 /\ e[1] = c
      /\ c = 0 => Len(e) = 2 /\ e[2] = 255
      /\ c # 0 => Len(e) = 1
  BY Zenon, <1>2, EscapedIs
<1>8. /\ r.end = "open" /\ r.i = Len(f) + 1 /\ r.i > p
      /\ r.b \in Seq(Nat) /\ Len(r.b) = p /\ \A j \in 1..p : r.b[j] = s[j]
  BY Zenon DEF ReadSoFar
<1> DEFINE q == decodeRound(src, r)
           b == r.b
           i == r.i
<1>9. b \in Seq(Nat) /\ Len(b) = p /\ i = Len(f) + 1 /\ i > p /\ \A j \in 1..p : b[j] = s[j]
  BY Zenon, <1>8
<1> HIDE DEF src, e, f, c, p
<1>10. /\ i \in Nat /\ ~(i > Len(src)) /\ src[i] = c
       /\ c = 0 => ~(i + 1 > Len(src)) /\ src[i + 1] = 255
       /\ Len(f \o e) + 1 = i + Len(e)
  <2>1. /\ Len(f \o e) = Len(f) + Len(e) /\ Len(f) \in Nat /\ (f \o e)[Len(f) + 1] = e[1]
        /\ Len(e) = 2 => (f \o e)[Len(f) + 2] = e[2]
    BY <1>2, <1>4, <1>7
  <2>2. Len(f \o e) <= Len(src) /\ \A j \in 1..Len(f \o e) : (f \o e)[j] = src[j]
    BY Zenon, <1>6 DEF Starts
  <2>3. /\ Len(src) \in Nat /\ Len(f) + 1 \in 1..Len(f \o e)
        /\ Len(e) = 2 => Len(f) + 2 \in 1..Len(f \o e)
    BY <2>1, <1>6, <1>7
  <2>4. src[Len(f) + 1] = c /\ (Len(e) = 2 => src[Len(f) + 2] = e[2])
    BY Zenon, <2>1, <2>2, <2>3, <1>7
  <2>5. i + 1 = Len(f) + 2
    BY <2>1, <1>9
  <2> HIDE DEF i
  <2>6. src[i] = c
    BY Zenon, <2>4, <1>9
  <2>7. c = 0 => src[i + 1] = 255
    BY Zenon, <2>4, <2>5, <1>7
  <2> QED BY <2>1, <2>2, <2>3, <2>6, <2>7, <1>7, <1>9
<1>11. q.end = "open" /\ q.i = i + Len(e) /\ q.b = Append(b, c)
  <2>1. CASE c = 0
    <3>1. /\ r.end = "open" /\ ~(r.i > Len(src)) /\ src[r.i] = 0
          /\ ~(r.i + 1 > Len(src)) /\ src[r.i + 1] = 255 /\ 255 # 0
      BY <2>1, <1>8, <1>10
    <3>2. q = Reading("open", r.i + 2, Append(r.b, 0))
      BY Zenon, <3>1 DEF decodeRound, strEsc, strTerm, strFF
    <3>3. Len(e) = 2
      BY Zenon, <2>1, <1>7
    <3>4. q.end = "open" /\ q.i = r.i + 2 /\ q.b = Append(r.b, 0)
      <4> HIDE DEF q
      <4> QED BY <3>2 DEF Reading
    <3> HIDE DEF q
    <3> QED BY Zenon, <3>3, <3>4, <2>1
  <2>2. CASE c # 0
    BY Zenon, <2>2, <1>7, <1>8, <1>10 DEF decodeRound, Reading, strEsc, strTerm, strFF
  <2> QED BY Zenon, <2>1, <2>2
<1> HIDE DEF q, b, i
<1>12. q.i = Len(Appended(s)[k]) + 1
  BY Zenon, <1>5, <1>10, <1>11
<1>13. q.i > k
  BY <1>1, <1>7, <1>9, <1>10, <1>11
<1>14. Append(b, c) \in Seq(Nat) /\ Len(Append(b, c)) = k /\ Append(b, c)[k] = c /\ \A j \in 1..p : Append(b, c)[j] = b[j]
  <2>1. c \in Nat
    BY <1>2
  <2> QED BY <2>1, <1>1, <1>9
<1>15. \A j \in 1..k : j \in 1..p \/ j = k
  BY <1>1
<1>16. \A j \in 1..k : Append(b, c)[j] = s[j]
  BY Zenon, <1>9, <1>14, <1>15 DEF c
<1> QED BY Zenon, <1>11, <1>12, <1>13, <1>14, <1>16 DEF ReadSoFar, q, src

\* decodeOrderedString finds the string, and where it ends, in a key.
LEMMA StringDecoded ==
    ASSUME NEW s \in Strings, NEW n \in Nat
    PROVE  decodeOrderedString(appendOrderedString(s) \o <<n>>) = Reading("ok", Len(appendOrderedString(s)) + 1, s)
<1> DEFINE es == appendOrderedString(s)
           src == es \o <<n>>
           R == Rounds(src)
           l == Len(s)
           f == Appended(s)[l]
           done == Reading("ok", Len(es) + 1, s)
<1>1. l \in Nat /\ l \in 0..l /\ 0 \in 0..l /\ s \in Seq(Nat)
  BY StringIs
<1>2. es \in Seq(Nat) /\ f \in Seq(Nat)
  BY Zenon, <1>1, NextIs
<1>3. es = f \o <<0, 0>>
  BY Zenon DEF appendOrderedString, strTerm
<1>4. Appended(s)[0] = <<>>
  BY Zenon, AppendedIs DEF Grows
<1> HIDE DEF es, f
<1>5. src \in Seq(Nat) /\ Len(src) = Len(f) + 3 /\ Len(es) = Len(f) + 2 /\ Len(f) \in Nat
  BY <1>2, <1>3
<1>6. src[Len(f) + 1] = 0 /\ src[Len(f) + 2] = 0
  BY <1>2, <1>3
<1>7. R[0] = Reading("open", 1, <<>>) /\ \A k \in 1..(Len(src) + 1) : R[k] = decodeRound(src, R[k - 1])
  BY Zenon, <1>5, RoundsIs DEF Follow
<1> HIDE DEF R, src
<1>8. ASSUME NEW k \in 1..l, ReadSoFar(R[k - 1], s, k - 1), k \in 1..(Len(src) + 1) PROVE ReadSoFar(R[k], s, k)
  BY Zenon, <1>7, <1>8, ReadingOn DEF src, es
<1>9. ReadSoFar(R[0], s, 0)
  <2>1. <<>> \in Seq(Nat) /\ Len(<<>>) = 0 /\ 1 = 0 + 1 /\ 1 > 0 /\ \A j \in 1..0 : <<>>[j] = s[j]
    OBVIOUS
  <2>2. R[0].end = "open" /\ R[0].i = 1 /\ R[0].b = <<>>
    BY <1>7 DEF Reading
  <2> QED BY Zenon, <2>1, <2>2, <1>4 DEF ReadSoFar
<1>10. l <= Len(f)
  <2> DEFINE g(k) == Appended(s)[k]
             Off == {k \in 0..l : ~(k <= Len(g(k)))}
  <2>1. /\ \A k \in 0..l : g(k) \in Seq(Nat)
        /\ \A k \in 1..l : g(k) = g(k - 1) \o Escaped(s[k])
    BY Zenon, AppendedIs DEF Grows
  <2>2. ASSUME NEW k \in 1..l PROVE Escaped(s[k]) \in Seq(Nat) /\ Len(Escaped(s[k])) \in 1..2
    <3>1. s[k] \in 0..255
      BY Zenon, StringIs
    <3> QED BY Zenon, <3>1, EscapedIs
  <2>3. Len(g(0)) = 0
    BY <1>4
  <2> HIDE DEF g, l
  <2>4. SUFFICES ASSUME Off # {} PROVE FALSE
    BY Zenon, <1>1 DEF f, g
  <2>5. Off \subseteq Nat
    BY <1>1
  <2>6. PICK k \in Off : \A other \in Off : k <= other
    BY Zenon, <2>4, <2>5, LeastOf
  <2>7. k \in 1..l /\ k - 1 \in 0..l /\ ~(k <= k - 1)
    BY <2>3, <1>1
  <2>8. k - 1 <= Len(g(k - 1))
    BY Zenon, <2>6, <2>7
  <2>9. g(k - 1) \in Seq(Nat) /\ Escaped(s[k]) \in Seq(Nat) /\ Len(Escaped(s[k])) \in 1..2 /\ g(k) = g(k - 1) \o Escaped(s[k])
    BY Zenon, <2>1, <2>2, <2>7
  <2>10. Len(g(k)) = Len(g(k - 1)) + Len(Escaped(s[k])) /\ Len(g(k - 1)) \in Nat
    BY <2>9
  <2>11. k <= Len(g(k))
    <3> DEFINE x == Len(g(k - 1))
               y == Len(Escaped(s[k]))
    <3>1. Len(g(k)) = x + y /\ x \in Nat /\ y \in 1..2 /\ k - 1 <= x
      BY Zenon, <2>8, <2>9, <2>10
    <3> HIDE DEF x, y
    <3>2. k \in Nat
      BY <2>5
    <3> QED BY <3>1, <3>2
  <2> QED BY Zenon, <2>11
<1> HIDE DEF l
<1>11. ReadSoFar(R[l], s, l)
  <2> DEFINE Off == {k \in 0..l : ~ReadSoFar(R[k], s, k)}
  <2>1. SUFFICES ASSUME Off # {} PROVE FALSE
    BY Zenon, <1>1
  <2>2. Off \subseteq Nat
    BY <1>1
  <2>3. PICK k \in Off : \A other \in Off : k <= other
    BY Zenon, <2>1, <2>2, LeastOf
  <2>4. k # 0
    BY Zenon, <1>9
  <2>5. k \in 1..l /\ k - 1 \in 0..l /\ ~(k <= k - 1) /\ k \in 1..(Len(src) + 1)
    BY <2>4, <1>1, <1>5, <1>10
  <2>6. ReadSoFar(R[k - 1], s, k - 1)
    BY Zenon, <2>3, <2>5
  <2>7. ReadSoFar(R[k], s, k)
    BY Zenon, <2>5, <2>6, <1>8
  <2> QED BY Zenon, <2>7
<1>12. R[l].end = "open" /\ R[l].i = Len(f) + 1 /\ R[l].b = s
  <2>1. /\ R[l].end = "open" /\ R[l].i = Len(f) + 1
        /\ R[l].b \in Seq(Nat) /\ Len(R[l].b) = l /\ \A j \in 1..l : R[l].b[j] = s[j]
    BY Zenon, <1>11 DEF ReadSoFar, f
  <2> DEFINE b == R[l].b
  <2>2. b \in Seq(Nat) /\ Len(b) = Len(s) /\ \A j \in 1..Len(b) : b[j] = s[j]
    BY Zenon, <2>1 DEF l
  <2> HIDE DEF b
  <2>3. b = s
    BY <2>2, <1>1, SameSequence
  <2> QED BY Zenon, <2>1, <2>3 DEF b
<1>13. R[l + 1] = done
  <2> DEFINE r == R[l]
             k == l + 1
  <2>1. k \in 1..(Len(src) + 1) /\ k - 1 = l
    BY <1>1, <1>5, <1>10
  <2> HIDE DEF k
  <2>2. R[k] = decodeRound(src, R[k - 1])
    BY Zenon, <2>1, <1>7
  <2>3. R[l + 1] = decodeRound(src, r)
    BY Zenon, <2>1, <2>2 DEF k
  <2>4. r.end = "open" /\ r.i = Len(f) + 1 /\ r.b = s
    BY Zenon, <1>12
  <2> HIDE DEF r
  <2>5. /\ ~(r.i > Len(src)) /\ ~(r.i + 1 > Len(src))
        /\ src[r.i] = 0 /\ src[r.i + 1] = 0 /\ r.i + 2 = Len(es) + 1
    <3>1. r.i = Len(f) + 1 /\ r.i + 1 = Len(f) + 2
      BY <2>4, <1>5
    <3>2. src[r.i] = 0 /\ src[r.i + 1] = 0
      BY Zenon, <3>1, <1>6
    <3> QED BY <3>1, <3>2, <1>5
  <2>6. decodeRound(src, r) = Reading("ok", r.i + 2, r.b)
    BY Zenon, <2>4, <2>5 DEF decodeRound, strEsc, strTerm
  <2> QED BY Zenon, <2>3, <2>4, <2>5, <2>6
<1>14. decodeRound(src, done) = done
  <2>1. done.end = "ok"
    BY DEF Reading
  <2>2. done.end # "open"
    BY <2>1
  <2> HIDE DEF done
  <2> QED BY Zenon, <2>2 DEF decodeRound
<1> DEFINE last == Len(src) + 1
<1>15. l + 1 \in 1..last /\ last \in 1..last /\ l + 1 <= last /\ last \in Nat
  BY <1>1, <1>5, <1>10
<1> HIDE DEF done
<1>16. R[last] = done
  <2> DEFINE Off == {k \in 1..last : l + 1 <= k /\ R[k] # done}
  <2>1. SUFFICES ASSUME Off # {} PROVE FALSE
    BY Zenon, <1>15
  <2>2. Off \subseteq Nat
    OBVIOUS
  <2>3. PICK k \in Off : \A other \in Off : k <= other
    BY Zenon, <2>1, <2>2, LeastOf
  <2>4. k # l + 1
    BY Zenon, <1>13
  <2>5. k \in 1..last /\ k - 1 \in 1..last /\ l + 1 <= k - 1 /\ ~(k <= k - 1)
    BY <2>4, <1>1, <1>15
  <2>6. R[k - 1] = done
    BY Zenon, <2>3, <2>5
  <2> QED BY Zenon, <2>5, <2>6, <1>7, <1>14
<1> QED BY Zenon, <1>16 DEF decodeOrderedString, R, last, src, es, done

\* ParsePropKey finds in a key the value and the node it was made of.
LEMMA KeyParses ==
    ASSUME NEW x \in Encodable, NEW n \in Nat
    PROVE  ParsePropKey(IndexKeyOf(x, n)) = [end |-> "ok", value |-> x, node |-> n]
<1> DEFINE key == IndexKeyOf(x, n)
           size == Len(AppendIndexValue(x))
<1>0. SignBit \in Nat
  BY CodecAssumption
<1>1. /\ key \in Seq(Nat) /\ key = AppendIndexValue(x) \o <<n>>
      /\ Len(key) = size + 1 /\ key[Len(key)] = n
  BY Zenon, KeyIs
<1>2. x = [kind |-> x.kind, v |-> x.v]
  BY Zenon, ValueIs
<1>3. SUFFICES DecodeIndexValue(key) = Decoded(x.kind, x.v, size)
  <2> DEFINE d == DecodeIndexValue(key)
  <2>1. d.end = "ok" /\ d.size = size /\ d.kind = x.kind /\ d.v = x.v
    <3>1. d = Decoded(x.kind, x.v, size)
      BY Zenon, <1>3
    <3> HIDE DEF d
    <3> QED BY <3>1 DEF Decoded
  <2>2. ParsePropKey(key) = IF d.end = "ok" /\ Len(key) = d.size + 1
                            THEN [end |-> "ok", value |-> [kind |-> d.kind, v |-> d.v], node |-> key[Len(key)]]
                            ELSE Malformed
    BY Zenon DEF ParsePropKey
  <2> HIDE DEF d, key
  <2>3. ParsePropKey(key) = [end |-> "ok", value |-> x, node |-> n]
    BY Zenon, <2>1, <2>2, <1>1, <1>2
  <2> QED BY Zenon, <2>3 DEF key
<1> HIDE DEF key
<1>4. CASE x.kind = "null"
  <2>1. AppendIndexValue(x) = <<0>> /\ x.v = <<>>
    BY <1>4, ValueIs DEF AppendIndexValue, tagNull
  <2>2. key[1] = 0 /\ size = 1
    BY <2>1, <1>1
  <2> HIDE DEF size
  <2>3. DecodeIndexValue(key) = Decoded("null", <<>>, 1)
    BY <2>2 DEF DecodeIndexValue, tagNull, tagBool, tagInt, tagFloat, tagStr
  <2> QED BY Zenon, <2>1, <2>2, <2>3, <1>4
<1>5. CASE x.kind = "bool"
  <2> DEFINE c == x.v[1]
  <2>1. AppendIndexValue(x) = <<1, c>>
    BY <1>5 DEF AppendIndexValue, tagBool
  <2>2. c \in {0, 1} /\ x.v = <<c>>
    BY <1>5, ValueIs
  <2> HIDE DEF c
  <2>3. key[1] = 1 /\ key[2] = c /\ size = 2
    BY <2>1, <2>2, <1>1
  <2> HIDE DEF size
  <2>4. (IF key[2] # 0 THEN 1 ELSE 0) = c
    BY <2>2, <2>3
  <2>5. DecodeIndexValue(key) = Decoded("bool", <<IF key[2] # 0 THEN 1 ELSE 0>>, 2)
    BY <2>3 DEF DecodeIndexValue, tagNull, tagBool, tagInt, tagFloat, tagStr
  <2> QED BY Zenon, <2>2, <2>3, <2>4, <2>5, <1>5
<1>6. CASE x.kind = "int"
  <2> DEFINE c == x.v[1]
  <2>1. AppendIndexValue(x) = <<2, intDigit(c)>>
    BY <1>6 DEF AppendIndexValue, tagInt
  <2>2. c \in (-SignBit)..(SignBit - 1) /\ x.v = <<c>>
    BY <1>6, ValueIs
  <2> HIDE DEF c
  <2>3. intDigit(c) \in Nat /\ intDigit(c) - SignBit = c
    BY <2>2, <1>0 DEF intDigit
  <2>4. key[1] = 2 /\ key[2] = intDigit(c) /\ size = 2
    BY <2>1, <2>3, <1>1
  <2> HIDE DEF size
  <2>5. DecodeIndexValue(key) = Decoded("int", <<key[2] - SignBit>>, 2)
    BY <2>4 DEF DecodeIndexValue, tagNull, tagBool, tagInt, tagFloat, tagStr
  <2> QED BY Zenon, <2>2, <2>3, <2>4, <2>5, <1>6
<1>7. CASE x.kind = "float"
  <2> DEFINE c == x.v[1]
  <2>1. AppendIndexValue(x) = <<3, floatDigit(c)>>
    BY <1>7 DEF AppendIndexValue, tagFloat
  <2>2. c \in 0..(2 * SignBit - 1) /\ x.v = <<c>>
    BY <1>7, ValueIs
  <2> HIDE DEF c
  <2>3. floatDigit(c) \in Nat /\ floatBitsOf(floatDigit(c)) = c
    BY <2>2, <1>0 DEF floatDigit, floatBitsOf
  <2>4. key[1] = 3 /\ key[2] = floatDigit(c) /\ size = 2
    BY <2>1, <2>3, <1>1
  <2> HIDE DEF size
  <2>5. DecodeIndexValue(key) = Decoded("float", <<floatBitsOf(key[2])>>, 2)
    BY <2>4 DEF DecodeIndexValue, tagNull, tagBool, tagInt, tagFloat, tagStr
  <2> QED BY Zenon, <2>2, <2>3, <2>4, <2>5, <1>7
<1>8. CASE x.kind = "string"
  <2> DEFINE s == x.v
             es == appendOrderedString(s)
             src == es \o <<n>>
  <2>1. s \in Strings /\ 0 \in 0..Len(s)
    BY <1>8, ValueIs, StringIs
  <2>2. es \in Seq(Nat) /\ AppendIndexValue(x) = <<4>> \o es
    <3>1. AppendIndexValue(x) = <<4>> \o es
      BY <1>8 DEF AppendIndexValue, tagStr
    <3> QED BY Zenon, <3>1, <2>1, NextIs
  <2>3. decodeOrderedString(src) = Reading("ok", Len(es) + 1, s)
    BY Zenon, <2>1, StringDecoded
  <2> HIDE DEF es
  <2>4. key[1] = 4 /\ size = Len(es) + 1
    BY <2>2, <1>1
  <2>5. Tail(key) = src
    <3>1. key \in Seq(Nat) /\ Len(key) = Len(es) + 2 /\ \A i \in 1..(Len(es) + 1) : key[i + 1] = src[i]
      BY <2>2, <1>1
    <3>2. Tail(key) \in Seq(Nat) /\ Len(Tail(key)) = Len(es) + 1 /\ \A i \in 1..(Len(es) + 1) : Tail(key)[i] = key[i + 1]
      BY <3>1, <2>2
    <3>3. src \in Seq(Nat) /\ Len(src) = Len(es) + 1
      BY <2>2
    <3> HIDE DEF src
    <3> QED BY <3>1, <3>2, <3>3, SameSequence
  <2> HIDE DEF src, size
  <2> DEFINE r == decodeOrderedString(Tail(key))
  <2>6. r.end = "ok" /\ r.b = s /\ r.i = Len(es) + 1
    <3>1. r = Reading("ok", Len(es) + 1, s)
      BY Zenon, <2>3, <2>5
    <3> HIDE DEF r
    <3> QED BY <3>1 DEF Reading
  <2>7. DecodeIndexValue(key) = IF r.end = "ok" THEN Decoded("string", r.b, r.i) ELSE Malformed
    BY <2>4 DEF DecodeIndexValue, tagNull, tagBool, tagInt, tagFloat, tagStr
  <2> HIDE DEF r
  <2> QED BY Zenon, <2>4, <2>6, <2>7, <1>8
<1> QED BY Zenon, <1>4, <1>5, <1>6, <1>7, <1>8, ValueIs

\* The keys are those of the entries.
CodecInv == entries \subseteq Encodable \X Id /\ keys = {IndexKeyOf(e[1], e[2]) : e \in entries}

\* They say what they should.
LEMMA KeysFollow == CodecInv => KeysExact
<1> SUFFICES ASSUME CodecInv PROVE KeysExact
  OBVIOUS
<1>1. ASSUME NEW e \in entries PROVE e[1] \in Encodable /\ e[2] \in Nat
  BY Zenon, CodecAssumption DEF CodecInv
<1>2. keys = {IndexKeyOf(e[1], e[2]) : e \in entries}
  BY Zenon DEF CodecInv
<1>3. KeyTypes
  <2>1. \A e \in entries : IndexKeyOf(e[1], e[2]) \in Seq(Nat)
    BY Zenon, <1>1, KeyIs
  <2>2. \A k \in keys : k \in Seq(Nat)
    BY Zenon, <2>1, <1>2
  <2> QED BY <2>2 DEF KeyTypes
<1>4. OrderPreserved
  BY Zenon, <1>1, KeyOrder DEF OrderPreserved
<1>5. KeysParse
  <2>1. \A e \in entries : ParsePropKey(IndexKeyOf(e[1], e[2])) = [end |-> "ok", value |-> e[1], node |-> e[2]]
    BY Zenon, <1>1, KeyParses
  <2> QED BY Zenon, <2>1, <1>2 DEF KeysParse
<1>6. PrefixesExact
  <2>1. ASSUME NEW x \in Encodable, NEW e \in entries
        PROVE  Starts(AppendIndexValue(x), IndexKeyOf(e[1], e[2])) <=> e[1] = x
    BY Zenon, <1>1, ValuePrefix
  <2>2. ASSUME NEW x \in Encodable, x.kind = "string", NEW e \in entries
        PROVE  Starts(AppendStringPrefix(x.v), IndexKeyOf(e[1], e[2])) <=> e[1].kind = "string" /\ Starts(x.v, e[1].v)
    <3>1. x.v \in Strings
      BY <2>2, ValueIs
    <3> QED BY Zenon, <3>1, <1>1, StringPrefix
  <2> QED BY Zenon, <2>1, <2>2 DEF PrefixesExact
<1> QED BY Zenon, <1>3, <1>4, <1>5, <1>6 DEF KeysExact

\* Index keys for every width of numbers, length of strings and set of bytes:
\* their byte order is that of the values (AppendIndexValue), ParsePropKey
\* reads from a key what it was made of, wherever a string in it ends, and a
\* prefix scan finds exactly the entries it is meant to.
THEOREM IndexKeysExact == CodecSpec => []KeysExact
<1>1. CodecInit => CodecInv
  BY Zenon DEF CodecInit, CodecInv
<1>2. CodecInv /\ [CodecNext]_codecVars => CodecInv'
  <2> SUFFICES ASSUME CodecInv, [CodecNext]_codecVars PROVE CodecInv'
    OBVIOUS
  <2>1. ASSUME NEW x \in Encodable, NEW n \in Id, PutKey(x, n) PROVE CodecInv'
    <3>1. entries' = entries \cup {<<x, n>>} /\ keys' = keys \cup {IndexKeyOf(x, n)}
      BY Zenon, <2>1 DEF PutKey
    <3>2. <<x, n>>[1] = x /\ <<x, n>>[2] = n /\ <<x, n>> \in Encodable \X Id
      OBVIOUS
    <3> QED BY <3>1, <3>2 DEF CodecInv
  <2>2. CASE UNCHANGED codecVars
    BY Zenon, <2>2 DEF CodecInv, codecVars
  <2> QED BY Zenon, <2>1, <2>2 DEF CodecNext
<1> QED BY <1>1, <1>2, KeysFollow, PTL DEF CodecSpec

=============================================================================
