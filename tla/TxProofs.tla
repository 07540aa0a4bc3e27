------------------------------ MODULE TxProofs ------------------------------
(***************************************************************************)
(* A committed function of several queries is serializable, and keeps the   *)
(* index exact, for any number of clients, values, nodes, queries and       *)
(* retries.                                                                *)
(***************************************************************************)
EXTENDS Tx, WellFoundedInduction, TLAPS

\* A store whose keys have values of their kind.
Typed(S) ==
    /\ S = [k \in DataKey |-> S[k]]
    /\ S[NodeCounter] \in 0..MaxNode
    /\ \A n \in NodeId : S[NodeKey(n)] \in Value \cup {Absent}
    /\ \A v \in Value : S[UniqueKey(v)] \in NodeId \cup {Absent}

\* A store whose entries and owners are those of its records.
Exact(S) ==
    /\ \A n \in NodeId : n > S[NodeCounter] => S[NodeKey(n)] = Absent
    /\ \A n \in NodeId, v \in Value :
           /\ S[PropKey(v, n)] # Absent <=> S[NodeKey(n)] = v
           /\ S[UniqueKey(v)] = n <=> S[NodeKey(n)] = v

\* A store in which the transaction would have read what it has read.
Agrees(S, t) == \A k \in t.reads : S[k] = t.snap[k]

\* What a transaction has done is what its script does to every such store;
\* and unless an error was ignored, it leaves the index exact.
Serial(t) ==
    \A S : Typed(S) /\ Agrees(S, t) =>
        /\ Typed(Over(t.writes, S))
        /\ SameReads(Replay(S, t.script), t.script)
        /\ Replay(S, t.script)[Len(t.script)] = Over(t.writes, S)
        /\ ~Swallows /\ t.phase = "open" /\ Exact(S) => Exact(Over(t.writes, S))

Shape(t) ==
    /\ t \in [phase : {"open", "failed"}, kind : {"update", "view"}, snap : {t.snap}, writes : {t.writes},
              reads : SUBSET DataKey, stale : SUBSET DataKey, script : Seq(Write \cup Read), tries : Nat]
    /\ Typed(t.snap) /\ DOMAIN t.writes \subseteq DataKey

\* What was not written since the transaction began is as it was.
Tracked(t, S) == \A k \in DataKey : k \notin t.stale => t.snap[k] = S[k]

Running(t, S) == Shape(t) /\ Tracked(t, S) /\ Serial(t)

TxInv ==
    /\ Typed(data) /\ (~Swallows => Exact(data))
    /\ tx = [c \in Client |-> tx[c]]
    /\ \A c \in Client : tx[c] = NoTx \/ Running(tx[c], data)

----------------------------------------------------------------------------
(* Functions and keys.                                                     *)

\* A set of naturals that is not empty has a least element.
LEMMA LeastOf ==
    ASSUME NEW S, S \subseteq Nat, S # {}
    PROVE  \E least \in S : \A other \in S : least <= other
<1> DEFINE R == {ss \in Nat \X Nat : ss[1] < ss[2]}
<1>1. IsWellFoundedOn(R, Nat)
  BY Zenon, NatLessThanWellFounded DEF OpToRel
<1> HIDE DEF R
<1>2. PICK least \in S : \A other \in S : ~(<<other, least>> \in R)
  BY Zenon, <1>1, WFMin
<1>3. ASSUME NEW other \in S
      PROVE  least <= other
  <2>1. least \in Nat /\ other \in Nat
    BY Zenon
  <2>2. <<other, least>> \notin R
    BY Zenon, <1>2
  <2> QED BY <2>1, <2>2 DEF R
<1> QED BY Zenon, <1>3

\* A write of one key.
LEMMA PairIs ==
    ASSUME NEW k, NEW v
    PROVE  DOMAIN Pair(k, v) = {k} /\ Pair(k, v)[k] = v
BY Zenon DEF Pair

\* No write.
LEMMA NoWritesIs == DOMAIN NoWrites = {}
BY Zenon DEF NoWrites

\* Where both write, the first of the two counts.
LEMMA OverIs ==
    ASSUME NEW f, NEW g
    PROVE  /\ DOMAIN Over(f, g) = DOMAIN f \cup DOMAIN g
           /\ \A k \in DOMAIN f : Over(f, g)[k] = f[k]
           /\ \A k \in DOMAIN g : k \notin DOMAIN f => Over(f, g)[k] = g[k]
BY Zenon DEF Over

\* Later writes over earlier ones, over a store: the grouping does not matter.
LEMMA OverTwice ==
    ASSUME NEW f, NEW g, NEW S
    PROVE  Over(Over(f, g), S) = Over(f, Over(g, S))
<1> DEFINE L == Over(Over(f, g), S)
           R == Over(f, Over(g, S))
           D == (DOMAIN f \cup DOMAIN g) \cup DOMAIN S
<1>1. /\ DOMAIN Over(f, g) = DOMAIN f \cup DOMAIN g
      /\ DOMAIN Over(g, S) = DOMAIN g \cup DOMAIN S
  BY Zenon, OverIs
<1>2. L = [k \in D |-> IF k \in DOMAIN f \cup DOMAIN g THEN Over(f, g)[k] ELSE S[k]]
  BY Zenon, <1>1 DEF Over
<1>3. DOMAIN f \cup (DOMAIN g \cup DOMAIN S) = D
  BY Zenon
<1>4. R = [k \in D |-> IF k \in DOMAIN f THEN f[k] ELSE Over(g, S)[k]]
  BY Zenon, <1>1, <1>3 DEF Over
<1>5. ASSUME NEW k \in D
      PROVE  (IF k \in DOMAIN f \cup DOMAIN g THEN Over(f, g)[k] ELSE S[k])
             = (IF k \in DOMAIN f THEN f[k] ELSE Over(g, S)[k])
  <2>1. CASE k \in DOMAIN f
    BY Zenon, <2>1, OverIs
  <2>2. CASE k \notin DOMAIN f /\ k \in DOMAIN g
    <3>1. Over(f, g)[k] = g[k] /\ Over(g, S)[k] = g[k]
      BY Zenon, <2>2 DEF Over
    <3> QED BY Zenon, <2>2, <3>1
  <2>3. CASE k \notin DOMAIN f /\ k \notin DOMAIN g
    <3>1. Over(g, S)[k] = S[k]
      BY Zenon, <2>3 DEF Over
    <3> QED BY Zenon, <2>3, <3>1
  <2> QED BY Zenon, <2>1, <2>2, <2>3
<1> HIDE DEF D, L, R
<1>6. L = R
  BY Zenon, <1>2, <1>4, <1>5
<1> QED BY Zenon, <1>6 DEF L, R

\* Nothing over a store is the store.
LEMMA OverNothing ==
    ASSUME NEW w, DOMAIN w = {}, NEW S, Typed(S)
    PROVE  Over(w, S) = S
<1>1. S = [k \in DataKey |-> S[k]] /\ DOMAIN S = DataKey
  BY Zenon DEF Typed
<1>2. Over(w, S) = [k \in DataKey |-> S[k]]
  BY Zenon, <1>1 DEF Over
<1> QED BY Zenon, <1>1, <1>2

Tag(k) == k[1]

\* Keys of different kinds differ, and so do keys of one kind with different arguments.
LEMMA KeysApart ==
    /\ \A n, m : NodeKey(n) = NodeKey(m) => n = m
    /\ \A v, n, u, m : PropKey(v, n) = PropKey(u, m) => v = u /\ n = m
    /\ \A v, u : UniqueKey(v) = UniqueKey(u) => v = u
    /\ \A n, u : NodeKey(n) # UniqueKey(u)
    /\ \A v, n, m : PropKey(v, n) # NodeKey(m)
    /\ \A v, n, u : PropKey(v, n) # UniqueKey(u)
    /\ \A n : NodeKey(n) # NodeCounter
    /\ \A v, n : PropKey(v, n) # NodeCounter
    /\ \A v : UniqueKey(v) # NodeCounter
<1>1. /\ \A n : Tag(NodeKey(n)) = "n"
      /\ \A v, n : Tag(PropKey(v, n)) = "p"
      /\ \A v : Tag(UniqueKey(v)) = "u"
      /\ Tag(NodeCounter) = "c"
  BY Zenon DEF Tag, NodeKey, PropKey, UniqueKey, Counter, NodeCounter
<1>2. /\ "n" # "p" /\ "n" # "u" /\ "n" # "c" /\ "p" # "u" /\ "p" # "c" /\ "u" # "c"
  OBVIOUS
<1>3. /\ \A n, m : NodeKey(n) = NodeKey(m) => n = m
      /\ \A v, n, u, m : PropKey(v, n) = PropKey(u, m) => v = u /\ n = m
      /\ \A v, u : UniqueKey(v) = UniqueKey(u) => v = u
  BY Zenon DEF NodeKey, PropKey, UniqueKey
<1> QED BY Zenon, <1>1, <1>2, <1>3

\* The keys of the store.
LEMMA KeysOf ==
    /\ NodeCounter \in DataKey
    /\ \A n \in NodeId : NodeKey(n) \in DataKey
    /\ \A v \in Value, n \in NodeId : PropKey(v, n) \in DataKey
    /\ \A v \in Value : UniqueKey(v) \in DataKey
<1>1. NodeCounter \in DataKey
  BY DEF DataKey
<1>2. \A n \in NodeId : NodeKey(n) \in DataKey
  BY DEF DataKey
<1>3. \A v \in Value, n \in NodeId : PropKey(v, n) \in DataKey
  BY DEF DataKey
<1>4. \A v \in Value : UniqueKey(v) \in DataKey
  BY DEF DataKey
<1> QED BY Zenon, <1>1, <1>2, <1>3, <1>4

----------------------------------------------------------------------------
(* Replaying a script.                                                     *)

\* g holds the contents after each of the first m queries.
Replays(g, S, script, m) == g = [i \in 0..m |-> IF i = 0 THEN S ELSE Again(g[i - 1], script[i])]

Follows(g, S, script, m) ==
    /\ g = [i \in 0..m |-> g[i]]
    /\ g[0] = S
    /\ \A i \in 1..m : g[i] = Again(g[i - 1], script[i])

\* Each of the contents follows from the one before.
LEMMA ReplaysAt ==
    ASSUME NEW g, NEW S, NEW script, NEW m \in Nat
    PROVE  Replays(g, S, script, m) <=> Follows(g, S, script, m)
<1> DEFINE Onward(i) == IF i = 0 THEN S ELSE Again(g[i - 1], script[i])
<1>1. 0 \in 0..m /\ \A i \in 1..m : i \in 0..m /\ i # 0
  OBVIOUS
<1>2. \A i \in 0..m : i = 0 \/ i \in 1..m
  OBVIOUS
<1>3. ASSUME g = [i \in 0..m |-> Onward(i)]
      PROVE  /\ g = [i \in 0..m |-> g[i]]
             /\ \A i \in 0..m : g[i] = Onward(i)
  BY Zenon, <1>3
<1>4. ASSUME g = [i \in 0..m |-> Onward(i)]
      PROVE  /\ g[0] = S
             /\ \A i \in 1..m : g[i] = Again(g[i - 1], script[i])
  BY Zenon, <1>4, <1>3, <1>1
<1>5. ASSUME /\ g = [i \in 0..m |-> g[i]]
             /\ g[0] = S
             /\ \A i \in 1..m : g[i] = Again(g[i - 1], script[i])
      PROVE  g = [i \in 0..m |-> Onward(i)]
  <2>1. \A i \in 0..m : g[i] = Onward(i)
    BY Zenon, <1>5, <1>2, <1>1
  <2> HIDE DEF Onward
  <2>2. [i \in 0..m |-> g[i]] = [i \in 0..m |-> Onward(i)]
    BY Zenon, <2>1
  <2> QED BY Zenon, <2>2, <1>5
<1> QED BY Zenon, <1>3, <1>4, <1>5 DEF Replays, Follows

\* There are such contents, for every script.
LEMMA ReplayThere ==
    ASSUME NEW S, NEW script, NEW m \in Nat
    PROVE  \E g : Replays(g, S, script, m)
<1> DEFINE None == {k \in Nat : ~\E g : Replays(g, S, script, k)}
<1>1. SUFFICES ASSUME m \in None PROVE FALSE
  BY Zenon
<1>2. PICK k \in None : \A other \in None : k <= other
  BY Zenon, <1>1, LeastOf
<1>3. k \in Nat
  OBVIOUS
<1>4. CASE k = 0
  <2> DEFINE g == [i \in 0..0 |-> S]
  <2>1. Follows(g, S, script, 0)
    BY DEF Follows
  <2> HIDE DEF g
  <2>2. 0 \in Nat
    OBVIOUS
  <2>3. Replays(g, S, script, 0)
    BY <2>1, <2>2, ReplaysAt
  <2> QED BY Zenon, <2>3, <1>4
<1>5. CASE k # 0
  <2>1. k - 1 \in Nat /\ ~(k <= k - 1)
    BY <1>3, <1>5
  <2>2. PICK f : Replays(f, S, script, k - 1)
    BY Zenon, <2>1, <1>2
  <2> DEFINE g == [i \in 0..k |-> IF i = k THEN Again(f[k - 1], script[k]) ELSE f[i]]
  <2>3. Follows(f, S, script, k - 1)
    BY <2>1, <2>2, ReplaysAt
  <2>4. /\ g = [i \in 0..k |-> g[i]]
        /\ g[k] = Again(f[k - 1], script[k])
        /\ \A i \in 0..(k - 1) : g[i] = f[i]
    <3>1. k \in 0..k /\ \A i \in 0..(k - 1) : i \in 0..k /\ i # k
      BY <1>3
    <3> QED BY Zenon, <3>1
  <2> HIDE DEF g
  <2>5. g[0] = S
    <3>1. 0 \in 0..(k - 1)
      BY <1>3, <1>5
    <3> QED BY Zenon, <3>1, <2>3, <2>4 DEF Follows
  <2>6. ASSUME NEW i \in 1..k
        PROVE  g[i] = Again(g[i - 1], script[i])
    <3>1. CASE i = k
      <4>1. k - 1 \in 0..(k - 1)
        BY <1>3, <1>5
      <4> QED BY Zenon, <4>1, <3>1, <2>4
    <3>2. CASE i # k
      <4>1. i \in 1..(k - 1) /\ i \in 0..(k - 1) /\ i - 1 \in 0..(k - 1)
        BY <1>3, <3>2
      <4> QED BY Zenon, <4>1, <2>3, <2>4 DEF Follows
    <3> QED BY Zenon, <3>1, <3>2
  <2>7. Follows(g, S, script, k)
    BY Zenon, <2>4, <2>5, <2>6 DEF Follows
  <2>8. Replays(g, S, script, k)
    BY <2>7, <1>3, ReplaysAt
  <2> QED BY Zenon, <2>8
<1> QED BY Zenon, <1>4, <1>5

\* They are what Replay gives.
LEMMA ReplayIs ==
    ASSUME NEW S, NEW script, Len(script) \in Nat
    PROVE  Follows(Replay(S, script), S, script, Len(script))
<1> DEFINE f == CHOOSE g : Replays(g, S, script, Len(script))
<1>1. Replay(S, script) = f
  BY Zenon DEF Replay, Replays
<1>2. Replays(f, S, script, Len(script))
  BY Zenon, ReplayThere
<1> HIDE DEF f
<1>3. Follows(f, S, script, Len(script))
  BY <1>2, ReplaysAt
<1> QED BY Zenon, <1>1, <1>3

\* One more query adds one more contents.
LEMMA ReplayNext ==
    ASSUME NEW S, NEW script \in Seq(Write \cup Read), NEW q \in Write \cup Read
    PROVE  LET more == Append(script, q)
           IN /\ \A i \in 0..Len(script) : Replay(S, more)[i] = Replay(S, script)[i]
              /\ Replay(S, more)[Len(more)] = Again(Replay(S, script)[Len(script)], q)
<1> DEFINE more == Append(script, q)
           f == Replay(S, script)
           g == Replay(S, more)
<1>1. /\ Len(script) \in Nat /\ Len(more) = Len(script) + 1 /\ more[Len(more)] = q
      /\ \A i \in 1..Len(script) : more[i] = script[i]
  OBVIOUS
<1>a. Len(script) \in Nat /\ Len(more) \in Nat
  BY <1>1
<1> HIDE DEF more
<1>b. Follows(f, S, script, Len(script)) /\ Follows(g, S, more, Len(more))
  BY <1>a, ReplayIs
<1>2. /\ f[0] = S /\ \A i \in 1..Len(script) : f[i] = Again(f[i - 1], script[i])
  BY Zenon, <1>b DEF Follows
<1>4. /\ g[0] = S /\ \A i \in 1..Len(more) : g[i] = Again(g[i - 1], more[i])
  BY Zenon, <1>b DEF Follows
<1> HIDE DEF f, g
<1>5. \A i \in 0..Len(script) : g[i] = f[i]
  <2> DEFINE Off == {i \in 0..Len(script) : g[i] # f[i]}
  <2>1. SUFFICES ASSUME Off # {} PROVE FALSE
    BY Zenon
  <2>2. Off \subseteq Nat
    OBVIOUS
  <2>3. PICK k \in Off : \A other \in Off : k <= other
    BY Zenon, <2>1, <2>2, LeastOf
  <2>4. k \in 0..Len(script) /\ g[k] # f[k]
    BY Zenon
  <2>5. k # 0
    BY Zenon, <2>4, <1>2, <1>4
  <2>6. k - 1 \in 0..Len(script) /\ ~(k <= k - 1) /\ k \in 1..Len(script) /\ k \in 1..Len(more)
    BY <2>4, <2>5, <1>1
  <2>7. g[k - 1] = f[k - 1]
    BY Zenon, <2>3, <2>6
  <2> QED BY Zenon, <2>4, <2>6, <2>7, <1>1, <1>2, <1>4
<1>6. g[Len(more)] = Again(f[Len(script)], q)
  <2>1. Len(more) \in 1..Len(more) /\ Len(more) - 1 = Len(script) /\ Len(script) \in 0..Len(script)
    BY <1>1
  <2> QED BY Zenon, <2>1, <1>1, <1>4, <1>5
<1> QED BY Zenon, <1>5, <1>6 DEF more, f, g

----------------------------------------------------------------------------
(* What a row does.                                                        *)

\* The parts of a step.
LEMMA StepIs ==
    ASSUME NEW end, NEW reads, NEW writes
    PROVE  /\ Step(end, reads, writes).end = end /\ Step(end, reads, writes).reads = reads
           /\ Step(end, reads, writes).writes = writes
BY Zenon DEF Step

\* One step after another that succeeds.
LEMMA FollowedIs ==
    ASSUME NEW a, NEW b, a.end = "ok"
    PROVE  /\ Followed(a, b).end = b.end /\ Followed(a, b).reads = a.reads \cup b.reads
           /\ Followed(a, b).writes = Over(b.writes, a.writes)
BY StepIs DEF Followed

\* An entry is written, and its value claimed unless it has an owner.
LEMMA PutIs ==
    ASSUME NEW S, NEW v, NEW n
    PROVE  LET p == putEntry(S, v, n)
               owner == S[UniqueKey(v)]
           IN /\ p.end = IF owner \in {Absent, n} THEN "ok" ELSE "taken"
              /\ p.reads = {UniqueKey(v)}
              /\ p.writes = Over(IF owner = Absent THEN Pair(UniqueKey(v), n) ELSE NoWrites,
                                 Pair(PropKey(v, n), Empty))
<1> DEFINE a == Step("ok", {}, Pair(PropKey(v, n), Empty))
           c == claim(S, v, n)
<1>1. a.end = "ok" /\ a.reads = {} /\ a.writes = Pair(PropKey(v, n), Empty)
  BY Zenon DEF Step
<1>2. /\ c.end = (IF S[UniqueKey(v)] \in {Absent, n} THEN "ok" ELSE "taken")
      /\ c.reads = {UniqueKey(v)}
      /\ c.writes = IF S[UniqueKey(v)] = Absent THEN Pair(UniqueKey(v), n) ELSE NoWrites
  BY StepIs DEF claim
<1> HIDE DEF a, c
<1>3. /\ Followed(a, c).end = c.end /\ Followed(a, c).reads = a.reads \cup c.reads
      /\ Followed(a, c).writes = Over(c.writes, a.writes)
  BY Zenon, <1>1, FollowedIs
<1>4. putEntry(S, v, n) = Followed(a, c)
  BY Zenon DEF putEntry, a, c
<1>5. {} \cup {UniqueKey(v)} = {UniqueKey(v)}
  BY Zenon
<1> QED BY Zenon, <1>1, <1>2, <1>3, <1>4, <1>5

\* The store after an entry is put.
LEMMA PutDoes ==
    ASSUME NEW S, NEW v, NEW n
    PROVE  LET w == putEntry(S, v, n).writes
           IN /\ PropKey(v, n) \in DOMAIN w /\ w[PropKey(v, n)] = Empty
              /\ UniqueKey(v) \in DOMAIN w <=> S[UniqueKey(v)] = Absent
              /\ UniqueKey(v) \in DOMAIN w => w[UniqueKey(v)] = n
              /\ DOMAIN w \subseteq {PropKey(v, n), UniqueKey(v)}
<1> DEFINE w == putEntry(S, v, n).writes
           o == IF S[UniqueKey(v)] = Absent THEN Pair(UniqueKey(v), n) ELSE NoWrites
           p == Pair(PropKey(v, n), Empty)
<1>1. w = Over(o, p)
  BY PutIs
<1>2. DOMAIN p = {PropKey(v, n)} /\ p[PropKey(v, n)] = Empty
  BY Zenon, PairIs
<1>3. PropKey(v, n) # UniqueKey(v)
  BY Zenon, KeysApart
<1>4. /\ S[UniqueKey(v)] = Absent => DOMAIN o = {UniqueKey(v)} /\ o[UniqueKey(v)] = n
      /\ S[UniqueKey(v)] # Absent => DOMAIN o = {}
  BY Zenon, PairIs, NoWritesIs
<1> HIDE DEF w, o, p
<1>5. /\ DOMAIN w = DOMAIN o \cup DOMAIN p
      /\ \A k \in DOMAIN o : w[k] = o[k]
      /\ \A k \in DOMAIN p : k \notin DOMAIN o => w[k] = p[k]
  BY Zenon, <1>1 DEF Over
<1>6. CASE S[UniqueKey(v)] = Absent
  BY Zenon, <1>2, <1>3, <1>4, <1>5, <1>6 DEF w
<1>7. CASE S[UniqueKey(v)] # Absent
  BY Zenon, <1>2, <1>3, <1>4, <1>5, <1>7 DEF w
<1> QED BY Zenon, <1>6, <1>7

\* An entry is deleted, and its value released by the node that owns it.
LEMMA DelDoes ==
    ASSUME NEW S, NEW v, NEW n
    PROVE  LET d == delEntry(S, v, n)
           IN /\ d.end = "ok" /\ d.reads = {UniqueKey(v)}
              /\ PropKey(v, n) \in DOMAIN d.writes /\ d.writes[PropKey(v, n)] = Absent
              /\ UniqueKey(v) \in DOMAIN d.writes <=> S[UniqueKey(v)] = n
              /\ UniqueKey(v) \in DOMAIN d.writes => d.writes[UniqueKey(v)] = Absent
              /\ DOMAIN d.writes \subseteq {PropKey(v, n), UniqueKey(v)}
<1> DEFINE d == delEntry(S, v, n)
           o == IF S[UniqueKey(v)] = n THEN Pair(UniqueKey(v), Absent) ELSE NoWrites
           p == Pair(PropKey(v, n), Absent)
<1>1. d.end = "ok" /\ d.reads = {UniqueKey(v)} /\ d.writes = Over(p, o)
  BY StepIs DEF delEntry
<1>2. DOMAIN p = {PropKey(v, n)} /\ p[PropKey(v, n)] = Absent
  BY Zenon, PairIs
<1>3. PropKey(v, n) # UniqueKey(v)
  BY Zenon, KeysApart
<1>4. /\ S[UniqueKey(v)] = n => DOMAIN o = {UniqueKey(v)} /\ o[UniqueKey(v)] = Absent
      /\ S[UniqueKey(v)] # n => DOMAIN o = {}
  BY Zenon, PairIs, NoWritesIs
<1> HIDE DEF d, o, p
<1>5. /\ DOMAIN d.writes = DOMAIN p \cup DOMAIN o
      /\ \A k \in DOMAIN p : d.writes[k] = p[k]
      /\ \A k \in DOMAIN o : k \notin DOMAIN p => d.writes[k] = o[k]
  BY Zenon, <1>1 DEF Over
<1>6. CASE S[UniqueKey(v)] = n
  BY Zenon, <1>1, <1>2, <1>3, <1>4, <1>5, <1>6 DEF d
<1>7. CASE S[UniqueKey(v)] # n
  BY Zenon, <1>1, <1>2, <1>3, <1>4, <1>5, <1>7 DEF d
<1> QED BY Zenon, <1>6, <1>7

\* T is S with node n created, whose property is v.
Created(S, T, v, n) ==
    /\ T = [k \in DataKey |-> T[k]]
    /\ T[NodeCounter] = n /\ T[NodeKey(n)] = v /\ T[PropKey(v, n)] = Empty
    /\ T[UniqueKey(v)] = IF S[UniqueKey(v)] = Absent THEN n ELSE S[UniqueKey(v)]
    /\ \A k \in DataKey : k \notin {NodeCounter, NodeKey(n), PropKey(v, n), UniqueKey(v)} => T[k] = S[k]

\* A store under writes of its own keys has the same keys.
LEMMA OverKeys ==
    ASSUME NEW S, Typed(S), NEW w, DOMAIN w \subseteq DataKey
    PROVE  /\ Over(w, S) = [k \in DataKey |-> Over(w, S)[k]]
           /\ \A k \in DOMAIN w : Over(w, S)[k] = w[k]
           /\ \A k \in DataKey : k \notin DOMAIN w => Over(w, S)[k] = S[k]
<1>1. DOMAIN S = DataKey
  BY Zenon DEF Typed
<1>2. DOMAIN w \cup DOMAIN S = DataKey
  BY Zenon, <1>1
<1>3. Over(w, S) = [k \in DataKey |-> IF k \in DOMAIN w THEN w[k] ELSE S[k]]
  BY Zenon, <1>2 DEF Over
<1>4. \A k \in DataKey : Over(w, S)[k] = IF k \in DOMAIN w THEN w[k] ELSE S[k]
  BY Zenon, <1>3
<1>5. Over(w, S) = [k \in DataKey |-> Over(w, S)[k]]
  BY Zenon, <1>3
<1> HIDE <1>3
<1> QED BY Zenon, <1>4, <1>5

\* CREATE reads the counter and the owner of the value.
LEMMA CreateIs ==
    ASSUME NEW S, Typed(S), NEW v \in Value, S[NodeCounter] < MaxNode
    PROVE  LET e == create(S, v)
               n == S[NodeCounter] + 1
           IN /\ n \in NodeId
              /\ e.end = IF S[UniqueKey(v)] \in {Absent, n} THEN "ok" ELSE "taken"
              /\ e.reads = {NodeCounter, UniqueKey(v)}
              /\ DOMAIN e.writes \subseteq DataKey
              /\ Created(S, Over(e.writes, S), v, n)
<1> DEFINE e == create(S, v)
           n == S[NodeCounter] + 1
           p == putEntry(S, v, n)
           r == Over(Pair(NodeCounter, n), Pair(NodeKey(n), v))
           a == Step("ok", {NodeCounter}, r)
<1>1. n \in NodeId
  BY IsolationAssumption DEF Typed, NodeId
<1>2. a.end = "ok" /\ a.reads = {NodeCounter} /\ a.writes = r
  BY Zenon DEF Step
<1>3. e = Followed(a, p)
  BY Zenon DEF create
<1>4. /\ p.end = IF S[UniqueKey(v)] \in {Absent, n} THEN "ok" ELSE "taken"
      /\ p.reads = {UniqueKey(v)}
  BY PutIs
<1>5. /\ PropKey(v, n) \in DOMAIN p.writes /\ p.writes[PropKey(v, n)] = Empty
      /\ UniqueKey(v) \in DOMAIN p.writes <=> S[UniqueKey(v)] = Absent
      /\ UniqueKey(v) \in DOMAIN p.writes => p.writes[UniqueKey(v)] = n
      /\ DOMAIN p.writes \subseteq {PropKey(v, n), UniqueKey(v)}
  BY Zenon, PutDoes
<1>6. DOMAIN r = {NodeCounter, NodeKey(n)} /\ r[NodeCounter] = n /\ r[NodeKey(n)] = v
  <2>1. NodeKey(n) # NodeCounter
    BY Zenon, KeysApart
  <2> HIDE DEF n
  <2> QED BY Zenon, <2>1 DEF Over, Pair
<1> HIDE DEF e, n, p, r, a
<1>7. e.end = p.end /\ e.reads = a.reads \cup p.reads /\ e.writes = Over(p.writes, r)
  BY Zenon, <1>2, <1>3, FollowedIs
<1>8. /\ DOMAIN e.writes = DOMAIN p.writes \cup {NodeCounter, NodeKey(n)}
      /\ \A k \in DOMAIN p.writes : e.writes[k] = p.writes[k]
      /\ \A k \in {NodeCounter, NodeKey(n)} : k \notin DOMAIN p.writes => e.writes[k] = r[k]
  BY Zenon, <1>6, <1>7 DEF Over
<1>9. e.reads = {NodeCounter, UniqueKey(v)}
  BY Zenon, <1>2, <1>4, <1>7
<1>10. /\ NodeCounter \notin DOMAIN p.writes /\ NodeKey(n) \notin DOMAIN p.writes
       /\ PropKey(v, n) # UniqueKey(v)
  BY Zenon, <1>5, KeysApart
<1>11. DOMAIN e.writes \subseteq DataKey
  BY Zenon, <1>1, <1>5, <1>8, KeysOf
<1> DEFINE T == Over(e.writes, S)
<1>12. /\ T = [k \in DataKey |-> T[k]]
       /\ \A k \in DOMAIN e.writes : T[k] = e.writes[k]
       /\ \A k \in DataKey : k \notin DOMAIN e.writes => T[k] = S[k]
  BY Zenon, <1>11, OverKeys
<1> HIDE DEF T
<1>13. T[NodeCounter] = n /\ T[NodeKey(n)] = v /\ T[PropKey(v, n)] = Empty
  BY Zenon, <1>5, <1>6, <1>8, <1>10, <1>12
<1>14. T[UniqueKey(v)] = IF S[UniqueKey(v)] = Absent THEN n ELSE S[UniqueKey(v)]
  <2>1. UniqueKey(v) \in DataKey /\ UniqueKey(v) \notin {NodeCounter, NodeKey(n)}
    BY Zenon, KeysOf, KeysApart
  <2> QED BY Zenon, <2>1, <1>5, <1>8, <1>12
<1>15. \A k \in DataKey : k \notin {NodeCounter, NodeKey(n), PropKey(v, n), UniqueKey(v)} => T[k] = S[k]
  BY Zenon, <1>5, <1>8, <1>12
<1>16. Created(S, T, v, n)
  BY Zenon, <1>12, <1>13, <1>14, <1>15 DEF Created
<1> QED BY Zenon, <1>1, <1>4, <1>7, <1>9, <1>11, <1>16 DEF e, n, T

\* The owner of v once n has released its value o.
Owner(S, n, o, v) ==
    LET left == IF S[UniqueKey(o)] = n THEN Absent ELSE S[UniqueKey(o)]
    IN IF v = o THEN left ELSE S[UniqueKey(v)]

\* T is S with v for the property of n, whose value was o; or only the entries
\* moved, when v has another owner.
Changed(S, T, n, o, v) ==
    LET owner == Owner(S, n, o, v)
    IN /\ T = [k \in DataKey |-> T[k]]
       /\ T[PropKey(v, n)] = Empty
       /\ T[UniqueKey(v)] = IF owner = Absent THEN n ELSE owner
       /\ v # o => /\ T[PropKey(o, n)] = Absent
                   /\ T[UniqueKey(o)] = IF S[UniqueKey(o)] = n THEN Absent ELSE S[UniqueKey(o)]
       /\ T[NodeKey(n)] = IF owner \in {Absent, n} THEN v ELSE S[NodeKey(n)]
       /\ \A k \in DataKey :
              k \notin {PropKey(v, n), UniqueKey(v), PropKey(o, n), UniqueKey(o), NodeKey(n)} => T[k] = S[k]

\* SET reads the record and the owners of the old and the new value.
LEMMA SetIs ==
    ASSUME NEW S, Typed(S), NEW n \in NodeId, NEW v \in Value, S[NodeKey(n)] # Absent
    PROVE  LET e == set(S, n, v)
               o == S[NodeKey(n)]
           IN /\ o \in Value
              /\ e.end = IF Owner(S, n, o, v) \in {Absent, n} THEN "ok" ELSE "taken"
              /\ e.reads = {NodeKey(n), UniqueKey(o), UniqueKey(v)}
              /\ DOMAIN e.writes \subseteq DataKey
              /\ Changed(S, Over(e.writes, S), n, o, v)
<1> DEFINE e == set(S, n, v)
           o == S[NodeKey(n)]
           d == delEntry(S, o, n)
           D == Over(d.writes, S)
           p == putEntry(D, v, n)
           a == Step("ok", {NodeKey(n)}, NoWrites)
           r == Step("ok", {}, Pair(NodeKey(n), v))
           first == Followed(a, d)
           second == Followed(p, r)
<1>1. o \in Value
  BY Zenon DEF Typed
<1>2. /\ a.end = "ok" /\ a.reads = {NodeKey(n)} /\ a.writes = NoWrites
      /\ r.end = "ok" /\ r.reads = {} /\ r.writes = Pair(NodeKey(n), v)
  BY Zenon DEF Step
<1>3. e = Followed(first, second)
  BY Zenon DEF set
<1>4. /\ d.end = "ok" /\ d.reads = {UniqueKey(o)}
      /\ PropKey(o, n) \in DOMAIN d.writes /\ d.writes[PropKey(o, n)] = Absent
      /\ UniqueKey(o) \in DOMAIN d.writes <=> S[UniqueKey(o)] = n
      /\ UniqueKey(o) \in DOMAIN d.writes => d.writes[UniqueKey(o)] = Absent
      /\ DOMAIN d.writes \subseteq {PropKey(o, n), UniqueKey(o)}
  BY Zenon, DelDoes
<1>5. /\ p.end = IF D[UniqueKey(v)] \in {Absent, n} THEN "ok" ELSE "taken"
      /\ p.reads = {UniqueKey(v)}
  BY PutIs
<1>6. /\ PropKey(v, n) \in DOMAIN p.writes /\ p.writes[PropKey(v, n)] = Empty
      /\ UniqueKey(v) \in DOMAIN p.writes <=> D[UniqueKey(v)] = Absent
      /\ UniqueKey(v) \in DOMAIN p.writes => p.writes[UniqueKey(v)] = n
      /\ DOMAIN p.writes \subseteq {PropKey(v, n), UniqueKey(v)}
  BY Zenon, PutDoes
<1>7. DOMAIN d.writes \subseteq DataKey /\ DOMAIN p.writes \subseteq DataKey /\ NodeKey(n) \in DataKey
  BY Zenon, <1>1, <1>4, <1>6, KeysOf
<1>8. /\ D = [k \in DataKey |-> D[k]]
      /\ \A k \in DOMAIN d.writes : D[k] = d.writes[k]
      /\ \A k \in DataKey : k \notin DOMAIN d.writes => D[k] = S[k]
  BY Zenon, <1>7, OverKeys
<1>9. DOMAIN Pair(NodeKey(n), v) = {NodeKey(n)} /\ Pair(NodeKey(n), v)[NodeKey(n)] = v
  BY Zenon, PairIs
<1> HIDE DEF e, d, D, p, a, r
<1>10. first.end = "ok" /\ first.reads = {NodeKey(n), UniqueKey(o)} /\ first.writes = Over(d.writes, NoWrites)
  <2>1. /\ first.end = d.end /\ first.reads = a.reads \cup d.reads
        /\ first.writes = Over(d.writes, NoWrites)
    BY <1>2, FollowedIs
  <2> HIDE DEF first
  <2> QED BY Zenon, <2>1, <1>2, <1>4
<1> DEFINE w == second.writes
<1>11. /\ second.end = p.end /\ second.reads = {UniqueKey(v)}
       /\ p.end = "ok" => w = Over(Pair(NodeKey(n), v), p.writes)
       /\ p.end # "ok" => w = p.writes
  <2>1. CASE p.end = "ok"
    <3>1. /\ second.end = r.end /\ second.reads = p.reads \cup r.reads
          /\ second.writes = Over(r.writes, p.writes)
      BY <2>1, FollowedIs
    <3>2. {UniqueKey(v)} \cup {} = {UniqueKey(v)}
      BY Zenon
    <3> HIDE DEF second
    <3> QED BY Zenon, <3>1, <3>2, <2>1, <1>2, <1>5
  <2>2. CASE p.end # "ok"
    <3>1. second = p
      BY Zenon, <2>2 DEF Followed
    <3> HIDE DEF second
    <3> QED BY Zenon, <3>1, <2>2, <1>5
  <2> QED BY Zenon, <2>1, <2>2
<1> HIDE DEF first, second
<1>12. e.end = p.end /\ e.reads = first.reads \cup {UniqueKey(v)} /\ e.writes = Over(w, first.writes)
  BY <1>3, <1>10, <1>11, FollowedIs
<1>13. e.reads = {NodeKey(n), UniqueKey(o), UniqueKey(v)}
  BY Zenon, <1>10, <1>12
<1>14. /\ p.end = "ok" => /\ DOMAIN w = DOMAIN p.writes \cup {NodeKey(n)}
                          /\ w[NodeKey(n)] = v
                          /\ \A k \in DOMAIN p.writes : k # NodeKey(n) => w[k] = p.writes[k]
       /\ p.end # "ok" => w = p.writes
  BY Zenon, <1>9, <1>11 DEF Over
<1> HIDE DEF w
<1>15. DOMAIN w \subseteq DataKey
  BY Zenon, <1>7, <1>14
<1>16. DOMAIN e.writes = DOMAIN w \cup DOMAIN d.writes
  BY Zenon, <1>10, <1>12, NoWritesIs DEF Over
<1>17. DOMAIN e.writes \subseteq DataKey
  BY Zenon, <1>15, <1>16, <1>7
<1> DEFINE T == Over(e.writes, S)
<1>18. T = Over(w, D)
  <2>1. T = Over(w, Over(first.writes, S))
    BY <1>12, OverTwice
  <2>2. Over(first.writes, S) = Over(d.writes, Over(NoWrites, S))
    BY <1>10, OverTwice
  <2>3. Over(NoWrites, S) = S
    BY Zenon, NoWritesIs, OverNothing
  <2> QED BY Zenon, <2>1, <2>2, <2>3 DEF D
<1>19. /\ T = [k \in DataKey |-> T[k]]
       /\ \A k \in DOMAIN w : T[k] = w[k]
       /\ \A k \in DataKey : k \notin DOMAIN w => T[k] = D[k]
  <2>1. T = [k \in DataKey |-> T[k]]
    BY Zenon, <1>17, OverKeys
  <2>2. DOMAIN D = DataKey
    BY Zenon, <1>8
  <2> HIDE DEF T
  <2>3. /\ \A k \in DOMAIN w : T[k] = w[k]
        /\ \A k \in DataKey : k \notin DOMAIN w => T[k] = D[k]
    BY Zenon, <1>18, <2>2 DEF Over
  <2> QED BY Zenon, <2>1, <2>3
<1> HIDE DEF T
<1>20. D[UniqueKey(v)] = Owner(S, n, o, v)
  <2>1. UniqueKey(v) \in DataKey /\ UniqueKey(o) \in DataKey
    BY Zenon, <1>1, KeysOf
  <2>2. CASE v = o
    <3>1. CASE S[UniqueKey(o)] = n
      BY Zenon, <2>2, <3>1, <1>4, <1>8 DEF Owner
    <3>2. CASE S[UniqueKey(o)] # n
      BY Zenon, <2>1, <2>2, <3>2, <1>4, <1>8 DEF Owner
    <3> QED BY Zenon, <3>1, <3>2
  <2>3. CASE v # o
    <3>1. UniqueKey(v) \notin DOMAIN d.writes
      <4>1. UniqueKey(v) \notin {PropKey(o, n), UniqueKey(o)}
        BY Zenon, <2>3, KeysApart
      <4> QED BY Zenon, <4>1, <1>4
    <3> QED BY Zenon, <2>1, <2>3, <3>1, <1>8 DEF Owner
  <2> QED BY Zenon, <2>2, <2>3
<1>21. T[PropKey(v, n)] = Empty
  <2>1. PropKey(v, n) # NodeKey(n)
    BY Zenon, KeysApart
  <2> QED BY Zenon, <2>1, <1>6, <1>14, <1>19
<1>22. T[UniqueKey(v)] = IF Owner(S, n, o, v) = Absent THEN n ELSE Owner(S, n, o, v)
  <2>1. UniqueKey(v) # NodeKey(n) /\ UniqueKey(v) \in DataKey
    BY Zenon, KeysApart, KeysOf
  <2>2. UniqueKey(v) \in DOMAIN w <=> UniqueKey(v) \in DOMAIN p.writes
    BY Zenon, <2>1, <1>14
  <2>3. CASE D[UniqueKey(v)] = Absent
    BY Zenon, <2>1, <2>2, <2>3, <1>6, <1>14, <1>19, <1>20
  <2>4. CASE D[UniqueKey(v)] # Absent
    BY Zenon, <2>1, <2>2, <2>4, <1>6, <1>19, <1>20
  <2> QED BY Zenon, <2>3, <2>4
<1>23. ASSUME v # o
       PROVE  /\ T[PropKey(o, n)] = Absent
              /\ T[UniqueKey(o)] = IF S[UniqueKey(o)] = n THEN Absent ELSE S[UniqueKey(o)]
  <2>1. /\ PropKey(o, n) \in DataKey /\ UniqueKey(o) \in DataKey
        /\ PropKey(o, n) \notin DOMAIN w /\ UniqueKey(o) \notin DOMAIN w
    <3>1. /\ PropKey(o, n) \notin {PropKey(v, n), UniqueKey(v), NodeKey(n)}
          /\ UniqueKey(o) \notin {PropKey(v, n), UniqueKey(v), NodeKey(n)}
      BY Zenon, <1>23, KeysApart
    <3>2. DOMAIN w \subseteq {PropKey(v, n), UniqueKey(v), NodeKey(n)}
      BY Zenon, <1>6, <1>14
    <3> QED BY Zenon, <3>1, <3>2, <1>1, KeysOf
  <2> QED BY Zenon, <2>1, <1>4, <1>8, <1>19
<1>24. T[NodeKey(n)] = IF Owner(S, n, o, v) \in {Absent, n} THEN v ELSE S[NodeKey(n)]
  <2>1. NodeKey(n) \notin DOMAIN p.writes /\ NodeKey(n) \notin DOMAIN d.writes
    <3>1. NodeKey(n) \notin {PropKey(v, n), UniqueKey(v), PropKey(o, n), UniqueKey(o)}
      BY Zenon, KeysApart
    <3> QED BY Zenon, <3>1, <1>4, <1>6
  <2>2. CASE Owner(S, n, o, v) \in {Absent, n}
    <3>1. p.end = "ok"
      BY Zenon, <2>2, <1>5, <1>20
    <3> QED BY Zenon, <2>2, <3>1, <1>14, <1>19
  <2>3. CASE Owner(S, n, o, v) \notin {Absent, n}
    <3>1. p.end # "ok"
      <4>1. p.end = "taken"
        BY Zenon, <2>3, <1>5, <1>20
      <4> QED BY <4>1
    <3> QED BY Zenon, <2>1, <2>3, <3>1, <1>7, <1>8, <1>14, <1>19
  <2> QED BY Zenon, <2>2, <2>3
<1>25. ASSUME NEW k \in DataKey,
              k \notin {PropKey(v, n), UniqueKey(v), PropKey(o, n), UniqueKey(o), NodeKey(n)}
       PROVE  T[k] = S[k]
  <2>1. k \notin DOMAIN w /\ k \notin DOMAIN d.writes
    BY Zenon, <1>25, <1>4, <1>6, <1>14
  <2> QED BY Zenon, <2>1, <1>8, <1>19
<1> HIDE DEF o
<1>26. Changed(S, T, n, o, v)
  BY Zenon, <1>19, <1>21, <1>22, <1>23, <1>24, <1>25 DEF Changed
<1>27. e.end = IF Owner(S, n, o, v) \in {Absent, n} THEN "ok" ELSE "taken"
  BY Zenon, <1>5, <1>12, <1>20
<1> QED BY Zenon, <1>1, <1>13, <1>17, <1>26, <1>27 DEF e, o, T

----------------------------------------------------------------------------
(* What a row keeps, and what it depends on.                               *)

\* No value is the mark for absence, and no node.
LEMMA Absence == Absent \notin Value /\ Absent \notin NodeId /\ Empty # Absent
<1>1. Absent \notin Value /\ Absent \notin Nat
  BY Zenon, IsolationAssumption
<1>2. NodeId \subseteq Nat /\ Empty \in Nat
  BY IsolationAssumption DEF NodeId, Empty
<1> QED BY Zenon, <1>1, <1>2

\* A store with one more node is one, and exact when the value had no owner.
LEMMA CreatedKeeps ==
    ASSUME NEW S, NEW T, NEW v \in Value, NEW n \in NodeId, Typed(S), Created(S, T, v, n),
           n = S[NodeCounter] + 1
    PROVE  /\ Typed(T)
           /\ Exact(S) /\ S[UniqueKey(v)] \in {Absent, n} => Exact(T)
<1>1. /\ T = [k \in DataKey |-> T[k]]
      /\ T[NodeCounter] = n /\ T[NodeKey(n)] = v /\ T[PropKey(v, n)] = Empty
      /\ T[UniqueKey(v)] = IF S[UniqueKey(v)] = Absent THEN n ELSE S[UniqueKey(v)]
  BY Zenon DEF Created
<1>2. \A m \in NodeId : m # n => T[NodeKey(m)] = S[NodeKey(m)]
  <2>1. \A m \in NodeId : m # n => NodeKey(m) \in DataKey /\ NodeKey(m) \notin {NodeCounter, NodeKey(n), PropKey(v, n), UniqueKey(v)}
    BY KeysOf, KeysApart
  <2>2. \A k \in DataKey : k \notin {NodeCounter, NodeKey(n), PropKey(v, n), UniqueKey(v)} => T[k] = S[k]
    BY Zenon DEF Created
  <2> QED BY Zenon, <2>1, <2>2
<1>3. \A u \in Value : u # v => T[UniqueKey(u)] = S[UniqueKey(u)]
  <2>1. \A u \in Value : u # v => UniqueKey(u) \in DataKey /\ UniqueKey(u) \notin {NodeCounter, NodeKey(n), PropKey(v, n), UniqueKey(v)}
    BY KeysOf, KeysApart
  <2>2. \A k \in DataKey : k \notin {NodeCounter, NodeKey(n), PropKey(v, n), UniqueKey(v)} => T[k] = S[k]
    BY Zenon DEF Created
  <2> QED BY Zenon, <2>1, <2>2
<1>4. \A u \in Value, m \in NodeId : u # v \/ m # n => T[PropKey(u, m)] = S[PropKey(u, m)]
  <2>1. \A u \in Value, m \in NodeId : u # v \/ m # n => PropKey(u, m) \in DataKey /\ PropKey(u, m) \notin {NodeCounter, NodeKey(n), PropKey(v, n), UniqueKey(v)}
    BY KeysOf, KeysApart
  <2>2. \A k \in DataKey : k \notin {NodeCounter, NodeKey(n), PropKey(v, n), UniqueKey(v)} => T[k] = S[k]
    BY Zenon DEF Created
  <2> QED BY Zenon, <2>1, <2>2
<1>5. Typed(T)
  <2>1. n \in 0..MaxNode
    BY IsolationAssumption DEF NodeId
  <2>2. \A m \in NodeId : T[NodeKey(m)] \in Value \cup {Absent}
    BY Zenon, <1>1, <1>2 DEF Typed
  <2>3. \A u \in Value : T[UniqueKey(u)] \in NodeId \cup {Absent}
    BY Zenon, <1>1, <1>3 DEF Typed
  <2> QED BY Zenon, <2>1, <2>2, <2>3, <1>1 DEF Typed
<1>6. ASSUME Exact(S), S[UniqueKey(v)] \in {Absent, n}
      PROVE  Exact(T)
  <2>1. S[NodeKey(n)] = Absent
    <3>1. n > S[NodeCounter]
      BY DEF Typed
    <3> QED BY Zenon, <3>1, <1>6 DEF Exact
  <2>2. T[UniqueKey(v)] = n
    BY Zenon, <1>1, <1>6
  <2>3. ASSUME NEW m \in NodeId, m > T[NodeCounter]
        PROVE  T[NodeKey(m)] = Absent
    <3>1. m > S[NodeCounter] /\ m # n
      BY <2>3, <1>1 DEF NodeId, Typed
    <3> QED BY Zenon, <3>1, <1>2, <1>6 DEF Exact
  <2>4. ASSUME NEW m \in NodeId, NEW u \in Value
        PROVE  /\ T[PropKey(u, m)] # Absent <=> T[NodeKey(m)] = u
               /\ T[UniqueKey(u)] = m <=> T[NodeKey(m)] = u
    <3>a. /\ S[PropKey(u, m)] # Absent <=> S[NodeKey(m)] = u
          /\ S[UniqueKey(u)] = m <=> S[NodeKey(m)] = u
      BY Zenon, <1>6 DEF Exact
    <3>b. /\ S[PropKey(u, n)] # Absent <=> S[NodeKey(n)] = u
          /\ S[UniqueKey(u)] = n <=> S[NodeKey(n)] = u
      BY Zenon, <1>6 DEF Exact
    <3>c. S[UniqueKey(v)] = m <=> S[NodeKey(m)] = v
      BY Zenon, <1>6 DEF Exact
    <3>2. CASE m = n /\ u = v
      BY Zenon, <3>2, <2>2, <1>1, Absence
    <3>3. CASE m = n /\ u # v
      <4>1. T[PropKey(u, n)] = S[PropKey(u, n)] /\ T[UniqueKey(u)] = S[UniqueKey(u)]
        BY Zenon, <3>3, <1>3, <1>4
      <4> QED BY Zenon, <4>1, <3>a, <3>b, <3>c, <3>3, <2>1, <1>1, Absence
    <3>4. CASE m # n /\ u = v
      <4>1. T[PropKey(u, m)] = S[PropKey(u, m)] /\ T[NodeKey(m)] = S[NodeKey(m)]
        BY Zenon, <3>4, <1>2, <1>4
      <4>2. S[UniqueKey(v)] # m
        BY Zenon, <3>4, <1>6, Absence
      <4> QED BY Zenon, <4>1, <4>2, <3>a, <3>b, <3>c, <3>4, <2>2
    <3>5. CASE m # n /\ u # v
      <4>1. /\ T[PropKey(u, m)] = S[PropKey(u, m)] /\ T[NodeKey(m)] = S[NodeKey(m)]
            /\ T[UniqueKey(u)] = S[UniqueKey(u)]
        BY Zenon, <3>5, <1>2, <1>3, <1>4
      <4> QED BY Zenon, <4>1, <3>a
    <3> QED BY Zenon, <3>2, <3>3, <3>4, <3>5
  <2> QED BY Zenon, <2>3, <2>4 DEF Exact
<1> QED BY Zenon, <1>5, <1>6

\* So is a store with another value for a node.
LEMMA ChangedKeeps ==
    ASSUME NEW S, NEW T, NEW v \in Value, NEW n \in NodeId, NEW o \in Value, Typed(S),
           Changed(S, T, n, o, v), S[NodeKey(n)] = o
    PROVE  /\ Typed(T)
           /\ Exact(S) /\ Owner(S, n, o, v) \in {Absent, n} => Exact(T)
<1> DEFINE owner == Owner(S, n, o, v)
<1>1. /\ T = [k \in DataKey |-> T[k]]
      /\ T[PropKey(v, n)] = Empty
      /\ T[UniqueKey(v)] = IF owner = Absent THEN n ELSE owner
      /\ v # o => /\ T[PropKey(o, n)] = Absent
                  /\ T[UniqueKey(o)] = IF S[UniqueKey(o)] = n THEN Absent ELSE S[UniqueKey(o)]
      /\ T[NodeKey(n)] = IF owner \in {Absent, n} THEN v ELSE S[NodeKey(n)]
  BY Zenon DEF Changed
<1>2. \A m \in NodeId : m # n => T[NodeKey(m)] = S[NodeKey(m)]
  <2>1. \A m \in NodeId : m # n => NodeKey(m) \in DataKey /\ NodeKey(m) \notin {PropKey(v, n), UniqueKey(v), PropKey(o, n), UniqueKey(o), NodeKey(n)}
    BY Zenon, KeysOf, KeysApart
  <2>2. \A k \in DataKey : k \notin {PropKey(v, n), UniqueKey(v), PropKey(o, n), UniqueKey(o), NodeKey(n)} => T[k] = S[k]
    BY Zenon DEF Changed
  <2> QED BY Zenon, <2>1, <2>2
<1>3. \A u \in Value : u # v /\ u # o => T[UniqueKey(u)] = S[UniqueKey(u)]
  <2>1. \A u \in Value : u # v /\ u # o => UniqueKey(u) \in DataKey /\ UniqueKey(u) \notin {PropKey(v, n), UniqueKey(v), PropKey(o, n), UniqueKey(o), NodeKey(n)}
    BY Zenon, KeysOf, KeysApart
  <2>2. \A k \in DataKey : k \notin {PropKey(v, n), UniqueKey(v), PropKey(o, n), UniqueKey(o), NodeKey(n)} => T[k] = S[k]
    BY Zenon DEF Changed
  <2> QED BY Zenon, <2>1, <2>2
<1>4. \A u \in Value, m \in NodeId : (u # v /\ u # o) \/ m # n => T[PropKey(u, m)] = S[PropKey(u, m)]
  <2>1. \A u \in Value, m \in NodeId : (u # v /\ u # o) \/ m # n => PropKey(u, m) \in DataKey /\ PropKey(u, m) \notin {PropKey(v, n), UniqueKey(v), PropKey(o, n), UniqueKey(o), NodeKey(n)}
    BY KeysOf, KeysApart
  <2>2. \A k \in DataKey : k \notin {PropKey(v, n), UniqueKey(v), PropKey(o, n), UniqueKey(o), NodeKey(n)} => T[k] = S[k]
    BY Zenon DEF Changed
  <2> QED BY Zenon, <2>1, <2>2
<1>5. T[NodeCounter] = S[NodeCounter]
  <2>1. NodeCounter \in DataKey /\ NodeCounter \notin {PropKey(v, n), UniqueKey(v), PropKey(o, n), UniqueKey(o), NodeKey(n)}
    BY Zenon, KeysOf, KeysApart
  <2> QED BY Zenon, <2>1 DEF Changed
<1>6. owner \in NodeId \cup {Absent}
  BY Zenon DEF Typed, Owner
<1> HIDE DEF owner
<1>7. Typed(T)
  <2>1. T[NodeCounter] \in 0..MaxNode
    BY Zenon, <1>5 DEF Typed
  <2>2. \A m \in NodeId : T[NodeKey(m)] \in Value \cup {Absent}
    BY Zenon, <1>1, <1>2 DEF Typed
  <2>3. ASSUME NEW u \in Value PROVE T[UniqueKey(u)] \in NodeId \cup {Absent}
    <3>1. S[UniqueKey(u)] \in NodeId \cup {Absent} /\ S[UniqueKey(o)] \in NodeId \cup {Absent}
      BY Zenon DEF Typed
    <3>2. CASE u = v
      BY Zenon, <3>2, <1>1, <1>6
    <3>3. CASE u # v /\ u = o
      BY Zenon, <3>1, <3>3, <1>1
    <3>4. CASE u # v /\ u # o
      BY Zenon, <3>1, <3>4, <1>3
    <3> QED BY Zenon, <3>2, <3>3, <3>4
  <2> QED BY Zenon, <2>1, <2>2, <2>3, <1>1 DEF Typed
<1>8. ASSUME Exact(S), owner \in {Absent, n}
      PROVE  Exact(T)
  <2>1. T[UniqueKey(v)] = n /\ T[NodeKey(n)] = v
    BY Zenon, <1>1, <1>8
  <2>2. S[UniqueKey(o)] = n
    BY Zenon, <1>8 DEF Exact
  <2>3. ASSUME NEW m \in NodeId, m > T[NodeCounter]
        PROVE  T[NodeKey(m)] = Absent
    <3>1. S[NodeKey(m)] = Absent
      BY Zenon, <2>3, <1>5, <1>8 DEF Exact
    <3>2. m # n
      BY Zenon, <3>1, Absence
    <3> QED BY Zenon, <3>1, <3>2, <1>2
  <2>4. ASSUME NEW m \in NodeId, NEW u \in Value
        PROVE  /\ T[PropKey(u, m)] # Absent <=> T[NodeKey(m)] = u
               /\ T[UniqueKey(u)] = m <=> T[NodeKey(m)] = u
    <3>1. /\ S[PropKey(u, m)] # Absent <=> S[NodeKey(m)] = u
          /\ S[UniqueKey(u)] = m <=> S[NodeKey(m)] = u
          /\ S[PropKey(u, n)] # Absent <=> S[NodeKey(n)] = u
          /\ S[UniqueKey(u)] = n <=> S[NodeKey(n)] = u
      BY Zenon, <1>8 DEF Exact
    <3>2. CASE m = n /\ u = v
      BY Zenon, <3>2, <2>1, <1>1, Absence
    <3>3. CASE m = n /\ u # v /\ u = o
      BY Zenon, <3>3, <2>1, <2>2, <1>1, Absence
    <3>4. CASE m = n /\ u # v /\ u # o
      <4>1. T[PropKey(u, n)] = S[PropKey(u, n)] /\ T[UniqueKey(u)] = S[UniqueKey(u)]
        BY Zenon, <3>4, <1>3, <1>4
      <4> QED BY Zenon, <4>1, <3>1, <3>4, <2>1
    <3>5. CASE m # n /\ u = v
      <4>1. T[PropKey(u, m)] = S[PropKey(u, m)] /\ T[NodeKey(m)] = S[NodeKey(m)]
        BY Zenon, <3>5, <1>2, <1>4
      <4>2. S[UniqueKey(v)] # m
        <5>1. CASE v = o
          BY Zenon, <5>1, <3>5, <2>2
        <5>2. CASE v # o
          <6>1. S[UniqueKey(v)] \in {Absent, n}
            BY Zenon, <5>2, <1>8 DEF owner, Owner
          <6> QED BY Zenon, <6>1, <3>5, Absence
        <5> QED BY Zenon, <5>1, <5>2
      <4> QED BY Zenon, <4>1, <4>2, <3>1, <3>5, <2>1
    <3>6. CASE m # n /\ u # v /\ u = o
      <4>1. T[PropKey(u, m)] = S[PropKey(u, m)] /\ T[NodeKey(m)] = S[NodeKey(m)]
        BY Zenon, <3>6, <1>2, <1>4
      <4>2. T[UniqueKey(u)] = Absent
        BY Zenon, <3>6, <2>2, <1>1
      <4> QED BY Zenon, <4>1, <4>2, <3>1, <3>6, <2>2, Absence
    <3>7. CASE m # n /\ u # v /\ u # o
      <4>1. /\ T[PropKey(u, m)] = S[PropKey(u, m)] /\ T[NodeKey(m)] = S[NodeKey(m)]
            /\ T[UniqueKey(u)] = S[UniqueKey(u)]
        BY Zenon, <3>7, <1>2, <1>3, <1>4
      <4> QED BY Zenon, <4>1, <3>1
    <3> QED BY Zenon, <3>2, <3>3, <3>4, <3>5, <3>6, <3>7
  <2> QED BY Zenon, <2>3, <2>4 DEF Exact
<1> QED BY Zenon, <1>7, <1>8 DEF owner

\* A row that the query comes to.
Comes(S, row) ==
    /\ row[1] = "create" => S[NodeCounter] < MaxNode
    /\ row[1] # "create" => S[NodeKey(row[2])] # Absent

\* The parts of a row.
LEMMA WriteIs ==
    ASSUME NEW row \in Write
    PROVE  row[1] \in {"create", "set"} /\ row[3] \in Value /\ (row[1] # "create" => row[2] \in NodeId)
BY DEF Write

\* A row writes keys of the store, and keeps it what it is; the index stays
\* exact unless the row fails.
LEMMA RowKeeps ==
    ASSUME NEW S, Typed(S), NEW row \in Write, Comes(S, row)
    PROVE  LET e == runRow(S, row)
           IN /\ e.reads \subseteq DataKey /\ DOMAIN e.writes \subseteq DataKey
              /\ Typed(Over(e.writes, S))
              /\ Exact(S) /\ e.end = "ok" => Exact(Over(e.writes, S))
<1> DEFINE e == runRow(S, row)
           T == Over(e.writes, S)
<1>a. "taken" # "ok"
  OBVIOUS
<1>1. CASE row[1] = "create"
  <2> DEFINE v == row[3]
             n == S[NodeCounter] + 1
  <2>1. v \in Value /\ S[NodeCounter] < MaxNode
    BY Zenon, <1>1, WriteIs DEF Comes
  <2>2. e = create(S, v)
    BY Zenon, <1>1 DEF runRow
  <2> HIDE DEF e, v
  <2>3. /\ n \in NodeId
        /\ e.end = IF S[UniqueKey(v)] \in {Absent, n} THEN "ok" ELSE "taken"
        /\ e.reads = {NodeCounter, UniqueKey(v)}
        /\ DOMAIN e.writes \subseteq DataKey
        /\ Created(S, T, v, n)
    BY <2>1, <2>2, CreateIs
  <2>4. n = S[NodeCounter] + 1
    OBVIOUS
  <2> HIDE DEF T, n
  <2>5. /\ Typed(T)
        /\ Exact(S) /\ S[UniqueKey(v)] \in {Absent, n} => Exact(T)
    BY <2>1, <2>3, <2>4, CreatedKeeps
  <2>6. e.reads \subseteq DataKey
    BY Zenon, <2>1, <2>3, KeysOf
  <2> QED BY Zenon, <2>3, <2>5, <2>6, <1>a DEF e, T
<1>2. CASE row[1] # "create"
  <2> DEFINE v == row[3]
             n == row[2]
             o == S[NodeKey(n)]
  <2>1. v \in Value /\ n \in NodeId /\ S[NodeKey(n)] # Absent
    BY Zenon, <1>2, WriteIs DEF Comes
  <2>2. e = set(S, n, v)
    BY Zenon, <1>2 DEF runRow
  <2> HIDE DEF e, v, n
  <2>3. /\ o \in Value
        /\ e.end = IF Owner(S, n, o, v) \in {Absent, n} THEN "ok" ELSE "taken"
        /\ e.reads = {NodeKey(n), UniqueKey(o), UniqueKey(v)}
        /\ DOMAIN e.writes \subseteq DataKey
        /\ Changed(S, T, n, o, v)
    BY <2>1, <2>2, SetIs
  <2>4. S[NodeKey(n)] = o
    OBVIOUS
  <2> HIDE DEF T, o
  <2>5. /\ Typed(T)
        /\ Exact(S) /\ Owner(S, n, o, v) \in {Absent, n} => Exact(T)
    BY <2>1, <2>3, <2>4, ChangedKeeps
  <2>6. e.reads \subseteq DataKey
    BY Zenon, <2>1, <2>3, KeysOf
  <2> QED BY Zenon, <2>3, <2>5, <2>6, <1>a DEF e, T
<1> QED BY Zenon, <1>1, <1>2

\* A row does the same to every store that has the same under the keys it reads.
LEMMA RowSame ==
    ASSUME NEW S, Typed(S), NEW T, Typed(T), NEW row \in Write, Comes(S, row),
           \A k \in runRow(S, row).reads : T[k] = S[k]
    PROVE  runRow(T, row) = runRow(S, row) /\ Comes(T, row)
<1>1. CASE row[1] = "create"
  <2> DEFINE v == row[3]
  <2>1. v \in Value /\ S[NodeCounter] < MaxNode
    BY Zenon, <1>1, WriteIs DEF Comes
  <2>2. runRow(S, row) = create(S, v) /\ runRow(T, row) = create(T, v)
    BY Zenon, <1>1 DEF runRow
  <2> HIDE DEF v
  <2>3. create(S, v).reads = {NodeCounter, UniqueKey(v)}
    BY <2>1, CreateIs
  <2>4. T[NodeCounter] = S[NodeCounter] /\ T[UniqueKey(v)] = S[UniqueKey(v)]
    BY Zenon, <2>2, <2>3
  <2>5. create(T, v) = create(S, v)
    BY Zenon, <2>4 DEF create, putEntry, claim
  <2> QED BY Zenon, <2>1, <2>2, <2>4, <2>5, <1>1 DEF Comes
<1>2. CASE row[1] # "create"
  <2> DEFINE v == row[3]
             n == row[2]
             o == S[NodeKey(n)]
             d == delEntry(S, o, n)
  <2>1. v \in Value /\ n \in NodeId /\ S[NodeKey(n)] # Absent
    BY Zenon, <1>2, WriteIs DEF Comes
  <2>2. runRow(S, row) = set(S, n, v) /\ runRow(T, row) = set(T, n, v)
    BY Zenon, <1>2 DEF runRow
  <2> HIDE DEF v, n
  <2>3. set(S, n, v).reads = {NodeKey(n), UniqueKey(o), UniqueKey(v)} /\ o \in Value
    BY <2>1, SetIs
  <2>4. T[NodeKey(n)] = o /\ T[UniqueKey(o)] = S[UniqueKey(o)] /\ T[UniqueKey(v)] = S[UniqueKey(v)]
    BY Zenon, <2>2, <2>3
  <2>5. delEntry(T, T[NodeKey(n)], n) = d
    BY Zenon, <2>4 DEF delEntry
  <2>6. putEntry(Over(d.writes, T), v, n) = putEntry(Over(d.writes, S), v, n)
    <3>1. UniqueKey(v) \in DOMAIN S /\ UniqueKey(v) \in DOMAIN T
      <4>1. UniqueKey(v) \in DataKey
        BY Zenon, <2>1, KeysOf
      <4> QED BY Zenon, <4>1 DEF Typed
    <3> HIDE DEF d
    <3>2. Over(d.writes, T)[UniqueKey(v)] = Over(d.writes, S)[UniqueKey(v)]
      BY Zenon, <3>1, <2>4 DEF Over
    <3> QED BY Zenon, <3>2 DEF putEntry, claim
  <2>7. set(T, n, v) = set(S, n, v)
    BY Zenon, <2>5, <2>6 DEF set
  <2>8. Comes(T, row)
    BY Zenon, <2>1, <2>4, <1>2 DEF Comes, n
  <2> QED BY Zenon, <2>2, <2>7, <2>8
<1> QED BY Zenon, <1>1, <1>2

----------------------------------------------------------------------------
(* What a query adds to a transaction.                                     *)

\* The reads of a longer script return the same, if the last one does.
LEMMA ReadsNext ==
    ASSUME NEW S, NEW script \in Seq(Write \cup Read), NEW q \in Write \cup Read,
           SameReads(Replay(S, script), script),
           q[1] = "read" => Replay(S, script)[Len(script)][NodeKey(q[2])] = q[3]
    PROVE  SameReads(Replay(S, Append(script, q)), Append(script, q))
<1> DEFINE more == Append(script, q)
           f == Replay(S, script)
           g == Replay(S, more)
<1>1. /\ Len(script) \in Nat /\ Len(more) = Len(script) + 1 /\ more[Len(more)] = q
      /\ \A i \in 1..Len(script) : more[i] = script[i]
  OBVIOUS
<1>2. \A i \in 0..Len(script) : g[i] = f[i]
  BY Zenon, ReplayNext
<1>3. \A i \in 1..Len(script) : script[i][1] = "read" => f[i - 1][NodeKey(script[i][2])] = script[i][3]
  BY Zenon DEF SameReads
<1> HIDE DEF more, f, g
<1>4. ASSUME NEW i \in 1..Len(more), more[i][1] = "read"
      PROVE  g[i - 1][NodeKey(more[i][2])] = more[i][3]
  <2>1. CASE i = Len(more)
    <3>1. i - 1 = Len(script) /\ Len(script) \in 0..Len(script)
      BY <2>1, <1>1
    <3>2. g[i - 1] = f[Len(script)] /\ more[i] = q
      BY Zenon, <3>1, <2>1, <1>1, <1>2
    <3> QED BY Zenon, <3>2, <1>4 DEF f
  <2>2. CASE i # Len(more)
    <3>1. i \in 1..Len(script) /\ i - 1 \in 0..Len(script)
      BY <2>2, <1>1
    <3>2. g[i - 1] = f[i - 1] /\ more[i] = script[i]
      BY Zenon, <3>1, <1>1, <1>2
    <3> QED BY Zenon, <3>1, <3>2, <1>3, <1>4
  <2> QED BY Zenon, <2>1, <2>2
<1> QED BY Zenon, <1>4 DEF SameReads, more, g

\* A store in which the transaction would read the same looks the same to it
\* under a key it reads, once it has done what it did.
LEMMA SeenAlike ==
    ASSUME NEW S, NEW t, Typed(S), Typed(t.snap), DOMAIN t.writes \subseteq DataKey,
           NEW k \in DataKey, S[k] = t.snap[k]
    PROVE  Over(t.writes, S)[k] = Seen(t)[k]
<1>1. DOMAIN S = DataKey /\ DOMAIN t.snap = DataKey
  BY Zenon DEF Typed
<1> QED BY Zenon, <1>1 DEF Over, Seen

\* A transaction with its own writes over its snapshot.
LEMMA SeenTyped ==
    ASSUME NEW t, Shape(t), Serial(t)
    PROVE  Typed(Seen(t))
<1>1. Typed(t.snap) /\ Agrees(t.snap, t)
  BY Zenon DEF Shape, Agrees
<1> QED BY Zenon, <1>1 DEF Serial, Seen

\* A query that reads.
LEMMA ReadSerial ==
    ASSUME NEW t, Shape(t), Serial(t), t.phase = "open" \/ Swallows,
           NEW n \in NodeId, Seen(t)[NodeKey(n)] # Absent, NEW u,
           u.snap = t.snap, u.writes = t.writes, u.reads = t.reads \cup {NodeKey(n)},
           u.script = Append(t.script, <<"read", n, Seen(t)[NodeKey(n)]>>)
    PROVE  Serial(u) /\ <<"read", n, Seen(t)[NodeKey(n)]>> \in Read
<1> DEFINE r == Seen(t)[NodeKey(n)]
           q == <<"read", n, r>>
<1>1. r \in Value
  BY Zenon, SeenTyped DEF Typed
<1>2. q \in Read
  BY <1>1 DEF Read
<1>3. q[1] = "read" /\ q[2] = n /\ q[3] = r
  OBVIOUS
<1>4. t.script \in Seq(Write \cup Read) /\ Typed(t.snap) /\ DOMAIN t.writes \subseteq DataKey
  BY Zenon DEF Shape
<1>5. u.script = Append(t.script, q)
  BY Zenon
<1> HIDE DEF q
<1>6. ASSUME NEW S, Typed(S), Agrees(S, u)
      PROVE  /\ Typed(Over(u.writes, S))
             /\ SameReads(Replay(S, u.script), u.script)
             /\ Replay(S, u.script)[Len(u.script)] = Over(u.writes, S)
             /\ ~Swallows /\ u.phase = "open" /\ Exact(S) => Exact(Over(u.writes, S))
  <2>1. Agrees(S, t) /\ S[NodeKey(n)] = t.snap[NodeKey(n)]
    BY Zenon, <1>6 DEF Agrees
  <2>2. /\ Typed(Over(t.writes, S))
        /\ SameReads(Replay(S, t.script), t.script)
        /\ Replay(S, t.script)[Len(t.script)] = Over(t.writes, S)
        /\ ~Swallows /\ t.phase = "open" /\ Exact(S) => Exact(Over(t.writes, S))
    BY Zenon, <2>1, <1>6 DEF Serial
  <2>3. Over(t.writes, S)[NodeKey(n)] = r
    <3>1. NodeKey(n) \in DataKey
      BY Zenon, KeysOf
    <3> QED BY <3>1, <2>1, <1>4, <1>6, SeenAlike
  <2>4. q[1] = "read" => Replay(S, t.script)[Len(t.script)][NodeKey(q[2])] = q[3]
    BY Zenon, <2>2, <2>3, <1>3
  <2>5. q \in Write \cup Read
    BY Zenon, <1>2
  <2>6. SameReads(Replay(S, Append(t.script, q)), Append(t.script, q))
    BY <2>2, <2>4, <2>5, <1>4, ReadsNext
  <2>7. Replay(S, Append(t.script, q))[Len(Append(t.script, q))] = Again(Replay(S, t.script)[Len(t.script)], q)
    BY <2>5, <1>4, ReplayNext
  <2>8. Again(Replay(S, t.script)[Len(t.script)], q) = Over(t.writes, S)
    BY Zenon, <2>2, <1>3 DEF Again
  <2> QED BY Zenon, <2>2, <2>6, <2>7, <2>8, <1>5
<1> QED BY Zenon, <1>2, <1>6 DEF Serial, q

\* A row that writes.
LEMMA WriteSerial ==
    ASSUME NEW t, Shape(t), Serial(t), t.phase = "open" \/ Swallows,
           NEW row \in Write, Comes(Seen(t), row), NEW u,
           u.snap = t.snap, u.writes = Over(runRow(Seen(t), row).writes, t.writes),
           u.reads = t.reads \cup runRow(Seen(t), row).reads,
           u.phase = (IF runRow(Seen(t), row).end = "ok" THEN "open" ELSE "failed"),
           u.script = Append(t.script, row)
    PROVE  /\ Serial(u)
           /\ runRow(Seen(t), row).reads \subseteq DataKey
           /\ DOMAIN runRow(Seen(t), row).writes \subseteq DataKey
<1> DEFINE e == runRow(Seen(t), row)
<1>1. Typed(Seen(t))
  BY Zenon, SeenTyped
<1>2. e.reads \subseteq DataKey /\ DOMAIN e.writes \subseteq DataKey
  BY Zenon, <1>1, RowKeeps
<1>3. t.script \in Seq(Write \cup Read) /\ Typed(t.snap) /\ DOMAIN t.writes \subseteq DataKey
  BY Zenon DEF Shape
<1>4. row[1] # "read"
  <2>1. row[1] \in {"create", "set"}
    BY Zenon, WriteIs
  <2> QED BY <2>1
<1>5. row \in Write \cup Read
  BY Zenon
<1>6. ASSUME NEW S, Typed(S), Agrees(S, u)
      PROVE  /\ Typed(Over(u.writes, S))
             /\ SameReads(Replay(S, u.script), u.script)
             /\ Replay(S, u.script)[Len(u.script)] = Over(u.writes, S)
             /\ ~Swallows /\ u.phase = "open" /\ Exact(S) => Exact(Over(u.writes, S))
  <2> DEFINE R == Over(t.writes, S)
  <2>1. Agrees(S, t) /\ \A k \in e.reads : S[k] = t.snap[k]
    BY Zenon, <1>6 DEF Agrees
  <2>2. /\ Typed(R)
        /\ SameReads(Replay(S, t.script), t.script)
        /\ Replay(S, t.script)[Len(t.script)] = R
        /\ ~Swallows /\ t.phase = "open" /\ Exact(S) => Exact(R)
    BY Zenon, <2>1, <1>6 DEF Serial
  <2>3. \A k \in e.reads : R[k] = Seen(t)[k]
    BY <2>1, <1>2, <1>3, <1>6, SeenAlike
  <2>4. Over(u.writes, S) = Over(e.writes, R)
    BY OverTwice
  <2> HIDE DEF R
  <2>5. runRow(R, row) = e /\ Comes(R, row)
    BY <2>2, <2>3, <1>1, RowSame
  <2>6. /\ Typed(Over(runRow(R, row).writes, R))
        /\ Exact(R) /\ runRow(R, row).end = "ok" => Exact(Over(runRow(R, row).writes, R))
    BY Zenon, <2>2, <2>5, RowKeeps
  <2>7. SameReads(Replay(S, Append(t.script, row)), Append(t.script, row))
    BY <2>2, <1>3, <1>4, <1>5, ReadsNext
  <2>8. Replay(S, Append(t.script, row))[Len(Append(t.script, row))] = Again(Replay(S, t.script)[Len(t.script)], row)
    BY <1>3, <1>5, ReplayNext
  <2>9. Again(Replay(S, t.script)[Len(t.script)], row) = Over(e.writes, R)
    BY Zenon, <2>2, <2>5, <1>4 DEF Again
  <2>10. u.phase = "open" => e.end = "ok"
    <3>1. "failed" # "open"
      OBVIOUS
    <3> QED BY Zenon, <3>1
  <2> HIDE DEF e
  <2> QED BY Zenon, <2>2, <2>4, <2>5, <2>6, <2>7, <2>8, <2>9, <2>10
<1> QED BY Zenon, <1>2, <1>6 DEF Serial

----------------------------------------------------------------------------
(* The invariant.                                                          *)

\* An idle client has no transaction, another one has.
LEMMA Phases ==
    ASSUME NEW t, NEW S, t = NoTx \/ Running(t, S)
    PROVE  /\ t.phase = "idle" => t = NoTx
           /\ t.phase # "idle" => Running(t, S)
           /\ Running(t, S) => t.phase \in {"open", "failed"}
<1>1. NoTx.phase = "idle"
  BY DEF NoTx
<1>2. Running(t, S) => t.phase \in {"open", "failed"}
  BY DEF Running, Shape
<1>3. "idle" \notin {"open", "failed"}
  OBVIOUS
<1> QED BY Zenon, <1>1, <1>2, <1>3

\* What a transaction has done does not depend on what has become stale.
LEMMA SerialSame ==
    ASSUME NEW t, Serial(t), NEW u, u.snap = t.snap, u.writes = t.writes, u.reads = t.reads,
           u.script = t.script, u.phase = t.phase \/ u.phase = "failed"
    PROVE  Serial(u)
<1>1. "failed" # "open"
  OBVIOUS
<1> QED BY Zenon, <1>1 DEF Serial, Agrees

\* A transaction that begins.
LEMMA FreshRuns ==
    ASSUME Typed(data), NEW kind \in {"update", "view"}, NEW tries \in Nat
    PROVE  Running(Fresh(kind, tries), data)
<1> DEFINE t == Fresh(kind, tries)
<1>1. /\ t.phase = "open" /\ t.kind = kind /\ t.snap = data /\ t.writes = NoWrites
      /\ t.reads = {} /\ t.stale = {} /\ t.script = <<>> /\ t.tries = tries
  BY DEF Fresh
<1>2. Shape(t)
  <2>1. t \in [phase : {"open", "failed"}, kind : {"update", "view"}, snap : {t.snap}, writes : {t.writes},
               reads : SUBSET DataKey, stale : SUBSET DataKey, script : Seq(Write \cup Read), tries : Nat]
    BY DEF Fresh
  <2> HIDE DEF t
  <2> QED BY Zenon, <2>1, <1>1, NoWritesIs DEF Shape
<1>3. Tracked(t, data)
  BY Zenon, <1>1 DEF Tracked
<1> HIDE DEF t
<1>4. ASSUME NEW S, Typed(S)
      PROVE  /\ Typed(Over(t.writes, S))
             /\ SameReads(Replay(S, t.script), t.script)
             /\ Replay(S, t.script)[Len(t.script)] = Over(t.writes, S)
             /\ Exact(S) => Exact(Over(t.writes, S))
  <2>1. Over(t.writes, S) = S
    BY Zenon, <1>1, <1>4, NoWritesIs, OverNothing
  <2>2. Len(t.script) = 0 /\ Len(t.script) \in Nat
    BY <1>1
  <2>3. Replay(S, t.script)[0] = S
    <3>1. Follows(Replay(S, t.script), S, t.script, Len(t.script))
      BY <2>2, ReplayIs
    <3> QED BY Zenon, <3>1 DEF Follows
  <2>4. SameReads(Replay(S, t.script), t.script)
    BY <2>2 DEF SameReads
  <2> QED BY Zenon, <2>1, <2>2, <2>3, <2>4, <1>4
<1>5. Serial(t)
  BY Zenon, <1>4 DEF Serial
<1> QED BY Zenon, <1>2, <1>3, <1>5 DEF Running, t

\* A step of one transaction that leaves the store alone.
LEMMA Moved ==
    ASSUME TxInv, NEW c \in Client, NEW u, u = NoTx \/ Running(u, data),
           tx' = [tx EXCEPT ![c] = u], data' = data
    PROVE  TxInv'
<1>1. tx' = [d \in Client |-> IF d = c THEN u ELSE tx[d]]
  BY Zenon DEF TxInv
<1>2. tx' = [d \in Client |-> tx'[d]] /\ \A d \in Client : tx'[d] = IF d = c THEN u ELSE tx[d]
  BY Zenon, <1>1
<1>3. Typed(data') /\ (~Swallows => Exact(data'))
  BY Zenon DEF TxInv
<1>4. ASSUME NEW d \in Client
      PROVE  tx'[d] = NoTx \/ Running(tx'[d], data')
  <2>1. tx[d] = NoTx \/ Running(tx[d], data)
    BY Zenon DEF TxInv
  <2> QED BY Zenon, <2>1, <1>2
<1> QED BY Zenon, <1>2, <1>3, <1>4 DEF TxInv

\* A transaction that may go on.
LEMMA GoesOnIs ==
    ASSUME TxInv, NEW c \in Client, GoesOn(c)
    PROVE  Running(tx[c], data) /\ (tx[c].phase = "open" \/ Swallows)
<1>1. tx[c] = NoTx \/ Running(tx[c], data)
  BY Zenon DEF TxInv
<1>2. tx[c].phase # "idle"
  BY DEF GoesOn
<1>3. Running(tx[c], data)
  BY Zenon, <1>1, <1>2, Phases
<1> QED BY Zenon, <1>3 DEF GoesOn

\* A query that reads keeps the invariant.
LEMMA ReadKeeps ==
    ASSUME TxInv, NEW c \in Client, NEW n \in NodeId, QueryRead(c, n)
    PROVE  TxInv'
<1> DEFINE t == tx[c]
           q == <<"read", n, Seen(t)[NodeKey(n)]>>
           u == [t EXCEPT !.phase = "open", !.reads = @ \cup {NodeKey(n)}, !.script = Append(@, q)]
<1>1. Running(t, data) /\ (t.phase = "open" \/ Swallows)
  BY Zenon, GoesOnIs DEF QueryRead, MayQuery
<1>2. tx' = [tx EXCEPT ![c] = u] /\ data' = data /\ Seen(t)[NodeKey(n)] # Absent
  BY Zenon DEF QueryRead, Matched
<1>3. Shape(t) /\ Tracked(t, data) /\ Serial(t)
  BY Zenon, <1>1 DEF Running
<1>4. /\ u.snap = t.snap /\ u.writes = t.writes /\ u.reads = t.reads \cup {NodeKey(n)}
      /\ u.script = Append(t.script, q) /\ u.stale = t.stale
  BY <1>3 DEF Shape
<1> HIDE DEF t
<1>5. Serial(u) /\ q \in Read
  <2> HIDE DEF u
  <2> QED BY <1>1, <1>2, <1>3, <1>4, ReadSerial
<1>6. NodeKey(n) \in DataKey
  BY Zenon, KeysOf
<1> HIDE DEF q
<1>7. u \in [phase : {"open", "failed"}, kind : {"update", "view"}, snap : {t.snap}, writes : {t.writes},
             reads : SUBSET DataKey, stale : SUBSET DataKey, script : Seq(Write \cup Read), tries : Nat]
  <2>1. t.script \in Seq(Write \cup Read) /\ t.reads \in SUBSET DataKey
    BY <1>3 DEF Shape
  <2>2. Append(t.script, q) \in Seq(Write \cup Read)
    BY <2>1, <1>5
  <2>3. t.reads \cup {NodeKey(n)} \in SUBSET DataKey
    BY Zenon, <2>1, <1>6
  <2> QED BY Zenon, <2>2, <2>3, <1>3 DEF Shape
<1> HIDE DEF u
<1>8. Shape(u)
  BY Zenon, <1>3, <1>4, <1>7 DEF Shape
<1>9. Running(u, data)
  BY Zenon, <1>3, <1>4, <1>5, <1>8 DEF Running, Tracked
<1> QED BY Zenon, <1>2, <1>9, Moved

\* So does a row that writes.
LEMMA WriteKeeps ==
    ASSUME TxInv, NEW c \in Client, NEW row \in Write, QueryWrite(c, row)
    PROVE  TxInv'
<1> DEFINE t == tx[c]
           e == runRow(Seen(t), row)
           u == [t EXCEPT !.phase = IF e.end = "ok" THEN "open" ELSE "failed",
                          !.writes = Over(e.writes, @), !.reads = @ \cup e.reads,
                          !.script = Append(@, row)]
<1>1. Running(t, data) /\ (t.phase = "open" \/ Swallows)
  BY Zenon, GoesOnIs DEF QueryWrite, MayQuery
<1>2. tx' = [tx EXCEPT ![c] = u] /\ data' = data
  BY Zenon DEF QueryWrite
<1>3. Comes(Seen(t), row)
  BY Zenon DEF QueryWrite, Matched, Comes
<1>4. Shape(t) /\ Tracked(t, data) /\ Serial(t)
  BY Zenon, <1>1 DEF Running
<1> HIDE DEF t, e
<1>5. /\ u.snap = t.snap /\ u.writes = Over(e.writes, t.writes) /\ u.reads = t.reads \cup e.reads
      /\ u.script = Append(t.script, row) /\ u.stale = t.stale
      /\ u.phase = IF e.end = "ok" THEN "open" ELSE "failed"
  BY <1>4 DEF Shape
<1>6. Serial(u) /\ e.reads \subseteq DataKey /\ DOMAIN e.writes \subseteq DataKey
  <2> HIDE DEF u
  <2> QED BY <1>1, <1>3, <1>4, <1>5, WriteSerial DEF e
<1>7. u \in [phase : {"open", "failed"}, kind : {"update", "view"}, snap : {t.snap}, writes : {Over(e.writes, t.writes)},
             reads : SUBSET DataKey, stale : SUBSET DataKey, script : Seq(Write \cup Read), tries : Nat]
  <2>1. t.script \in Seq(Write \cup Read) /\ t.reads \in SUBSET DataKey
    BY <1>4 DEF Shape
  <2>2. Append(t.script, row) \in Seq(Write \cup Read)
    BY <2>1
  <2>3. t.reads \cup e.reads \in SUBSET DataKey
    BY Zenon, <2>1, <1>6
  <2> QED BY Zenon, <2>2, <2>3, <1>4 DEF Shape
<1>8. DOMAIN u.writes \subseteq DataKey
  <2>1. DOMAIN Over(e.writes, t.writes) = DOMAIN e.writes \cup DOMAIN t.writes
    BY Zenon DEF Over
  <2> HIDE DEF u
  <2> QED BY Zenon, <2>1, <1>4, <1>5, <1>6 DEF Shape
<1> HIDE DEF u
<1>9. Shape(u)
  BY Zenon, <1>4, <1>5, <1>7, <1>8 DEF Shape
<1>10. Running(u, data)
  BY Zenon, <1>4, <1>5, <1>6, <1>9 DEF Running, Tracked
<1> QED BY Zenon, <1>2, <1>10, Moved

\* So does an error of a query.
LEMMA ErrorKeeps ==
    ASSUME TxInv, NEW c \in Client, QueryError(c)
    PROVE  TxInv'
<1> DEFINE t == tx[c]
           u == [t EXCEPT !.phase = "failed"]
<1>1. Running(t, data)
  BY Zenon, GoesOnIs DEF QueryError
<1>2. tx' = [tx EXCEPT ![c] = u] /\ data' = data
  BY Zenon DEF QueryError
<1>3. Shape(t) /\ Tracked(t, data) /\ Serial(t)
  BY Zenon, <1>1 DEF Running
<1> HIDE DEF t
<1>4. /\ u.snap = t.snap /\ u.writes = t.writes /\ u.reads = t.reads
      /\ u.script = t.script /\ u.stale = t.stale /\ u.phase = "failed"
  BY <1>3 DEF Shape
<1>5. u \in [phase : {"open", "failed"}, kind : {"update", "view"}, snap : {t.snap}, writes : {t.writes},
             reads : SUBSET DataKey, stale : SUBSET DataKey, script : Seq(Write \cup Read), tries : Nat]
  BY <1>3 DEF Shape
<1> HIDE DEF u
<1>6. Serial(u)
  BY <1>3, <1>4, SerialSame
<1>7. Shape(u)
  BY Zenon, <1>3, <1>4, <1>5 DEF Shape
<1>8. Running(u, data)
  BY Zenon, <1>3, <1>4, <1>6, <1>7 DEF Running, Tracked
<1> QED BY Zenon, <1>2, <1>8, Moved

\* A transaction that commits something read what is still there.
LEMMA CommitAgrees ==
    ASSUME TxInv, NEW c \in Client, CommitTx(c), DOMAIN tx[c].writes # {}
    PROVE  Agrees(data, tx[c])
<1>1. Running(tx[c], data)
  BY Zenon, GoesOnIs DEF CommitTx
<1>2. tx[c].reads \cap tx[c].stale = {}
  BY Zenon DEF CommitTx, Stale
<1>3. tx[c].reads \subseteq DataKey
  <2> DEFINE t == tx[c]
  <2>1. Shape(t)
    BY Zenon, <1>1 DEF Running
  <2> HIDE DEF t
  <2>2. t.reads \in SUBSET DataKey
    BY <2>1 DEF Shape
  <2> QED BY Zenon, <2>2 DEF t
<1> QED BY Zenon, <1>1, <1>2, <1>3 DEF Running, Tracked, Agrees

\* A commit keeps the invariant.
LEMMA CommitKeeps ==
    ASSUME TxInv, NEW c \in Client, CommitTx(c)
    PROVE  TxInv'
<1> DEFINE w == tx[c].writes
<1>1. Running(tx[c], data) /\ (tx[c].phase = "open" \/ Swallows)
  BY Zenon, GoesOnIs DEF CommitTx
<1>2. data' = Over(w, data)
  BY Zenon DEF CommitTx
<1>3. Typed(data) /\ (~Swallows => Exact(data)) /\ DOMAIN w \subseteq DataKey
  BY Zenon, <1>1 DEF TxInv, Running, Shape
<1>4. Typed(data') /\ (~Swallows => Exact(data'))
  <2>1. CASE DOMAIN w = {}
    <3>1. data' = data
      BY Zenon, <2>1, <1>2, <1>3, OverNothing
    <3> QED BY Zenon, <3>1, <1>3
  <2>2. CASE DOMAIN w # {}
    <3>1. Agrees(data, tx[c])
      BY Zenon, <2>2, CommitAgrees
    <3> QED BY Zenon, <3>1, <1>1, <1>2, <1>3 DEF Running, Serial
  <2> QED BY Zenon, <2>1, <2>2
<1>5. \A k \in DataKey : k \notin DOMAIN w => data'[k] = data[k]
  BY <1>2, <1>3, OverKeys
<1> DEFINE u(d) == [tx[d] EXCEPT !.stale = @ \cup DOMAIN w]
<1>6. tx' = [d \in Client |-> IF d = c \/ tx[d].phase = "idle" THEN NoTx ELSE u(d)]
  BY Zenon DEF CommitTx
<1>7. ASSUME NEW d \in Client, Running(tx[d], data)
      PROVE  Running(u(d), data')
  <2> DEFINE t == tx[d]
             x == [t EXCEPT !.stale = @ \cup DOMAIN w]
  <2>1. Shape(t) /\ Tracked(t, data) /\ Serial(t)
    BY Zenon, <1>7 DEF Running
  <2>2. u(d) = x
    BY Zenon
  <2> HIDE DEF t, w, u
  <2>3. /\ x.snap = t.snap /\ x.writes = t.writes /\ x.reads = t.reads
        /\ x.script = t.script /\ x.stale = t.stale \cup DOMAIN w /\ x.phase = t.phase
    BY <2>1 DEF Shape
  <2>4. x \in [phase : {"open", "failed"}, kind : {"update", "view"}, snap : {t.snap}, writes : {t.writes},
               reads : SUBSET DataKey, stale : SUBSET DataKey, script : Seq(Write \cup Read), tries : Nat]
    BY <2>1, <1>3 DEF Shape
  <2> HIDE DEF x
  <2>5. Serial(x)
    BY <2>1, <2>3, SerialSame
  <2>6. Shape(x)
    BY Zenon, <2>1, <2>3, <2>4 DEF Shape
  <2>7. Tracked(x, data')
    BY Zenon, <2>1, <2>3, <1>5 DEF Tracked
  <2> QED BY Zenon, <2>2, <2>5, <2>6, <2>7 DEF Running
<1>8. ASSUME NEW d \in Client
      PROVE  tx'[d] = NoTx \/ Running(tx'[d], data')
  <2> HIDE DEF u
  <2>1. tx[d] = NoTx \/ Running(tx[d], data)
    BY Zenon DEF TxInv
  <2>2. tx[d].phase # "idle" => Running(tx[d], data)
    BY Zenon, <2>1, Phases
  <2>3. tx'[d] = NoTx \/ (tx[d].phase # "idle" /\ tx'[d] = u(d))
    BY Zenon, <1>6
  <2> QED BY Zenon, <2>2, <2>3, <1>7
<1>9. tx' = [d \in Client |-> tx'[d]]
  <2> HIDE DEF u
  <2> QED BY Zenon, <1>6
<1> QED BY Zenon, <1>4, <1>8, <1>9 DEF TxInv

\* At the start the store is empty and nobody has a transaction.
LEMMA InitKeeps ==
    ASSUME TxInit
    PROVE  TxInv
<1>1. data = [k \in DataKey |-> IF k = NodeCounter THEN 0 ELSE Absent] /\ tx = [c \in Client |-> NoTx]
  BY Zenon DEF TxInit
<1>2. /\ data = [k \in DataKey |-> data[k]]
      /\ \A k \in DataKey : data[k] = IF k = NodeCounter THEN 0 ELSE Absent
  BY Zenon, <1>1
<1>3. /\ data[NodeCounter] = 0
      /\ \A n \in NodeId : data[NodeKey(n)] = Absent
      /\ \A v \in Value, n \in NodeId : data[PropKey(v, n)] = Absent
      /\ \A v \in Value : data[UniqueKey(v)] = Absent
  BY Zenon, <1>2, KeysOf, KeysApart
<1>4. 0 \in 0..MaxNode
  BY IsolationAssumption
<1> HIDE <1>1
<1>5. Typed(data)
  BY Zenon, <1>2, <1>3, <1>4 DEF Typed
<1>6. Exact(data)
  BY Zenon, <1>3, Absence DEF Exact
<1>7. tx = [c \in Client |-> tx[c]] /\ \A c \in Client : tx[c] = NoTx
  BY Zenon, <1>1
<1> QED BY Zenon, <1>5, <1>6, <1>7 DEF TxInv

\* Every step keeps the invariant.
LEMMA NextKeeps ==
    ASSUME TxInv, [TxNext]_txVars
    PROVE  TxInv'
<1>1. CASE UNCHANGED txVars
  BY Zenon, <1>1 DEF txVars, TxInv
<1>2. CASE TxNext
  <2>1. PICK c \in Client :
             \/ \E kind \in {"update", "view"} : Call(c, kind)
             \/ \E n \in NodeId : QueryRead(c, n)
             \/ \E row \in Write : QueryWrite(c, row)
             \/ QueryError(c) \/ FnError(c) \/ EndView(c)
             \/ CommitTx(c) \/ RetryTx(c) \/ GiveUp(c)
    BY Zenon, <1>2 DEF TxNext
  <2>2. Typed(data)
    BY Zenon DEF TxInv
  <2>3. ASSUME NEW kind \in {"update", "view"}, Call(c, kind) PROVE TxInv'
    <3>1. 0 \in Nat
      OBVIOUS
    <3>2. Running(Fresh(kind, 0), data)
      BY Zenon, <3>1, <2>2, FreshRuns
    <3>3. tx' = [tx EXCEPT ![c] = Fresh(kind, 0)] /\ data' = data
      BY Zenon, <2>3 DEF Call
    <3> QED BY Zenon, <3>2, <3>3, Moved
  <2>4. ASSUME tx' = [tx EXCEPT ![c] = NoTx] /\ data' = data PROVE TxInv'
    BY Zenon, <2>4, Moved
  <2>5. ASSUME RetryTx(c) PROVE TxInv'
    <3> DEFINE t == tx[c]
    <3>1. Running(t, data)
      BY Zenon, <2>5, GoesOnIs DEF RetryTx
    <3>2. tx' = [tx EXCEPT ![c] = Fresh("update", t.tries + 1)] /\ data' = data
      BY Zenon, <2>5 DEF RetryTx
    <3> HIDE DEF t
    <3>3. t.tries + 1 \in Nat
      BY <3>1 DEF Running, Shape
    <3>4. Running(Fresh("update", t.tries + 1), data)
      BY Zenon, <3>3, <2>2, FreshRuns
    <3> QED BY Zenon, <3>2, <3>4, Moved
  <2>6. CASE \E n \in NodeId : QueryRead(c, n)
    BY Zenon, <2>6, ReadKeeps
  <2>7. CASE \E row \in Write : QueryWrite(c, row)
    BY Zenon, <2>7, WriteKeeps
  <2>8. CASE QueryError(c)
    BY Zenon, <2>8, ErrorKeeps
  <2>9. CASE FnError(c) \/ EndView(c) \/ GiveUp(c)
    BY Zenon, <2>4, <2>9 DEF FnError, EndView, GiveUp
  <2>10. CASE CommitTx(c)
    BY Zenon, <2>10, CommitKeeps
  <2> QED BY Zenon, <2>1, <2>3, <2>5, <2>6, <2>7, <2>8, <2>9, <2>10
<1> QED BY Zenon, <1>1, <1>2

\* The invariant holds throughout.
LEMMA TxInvariant == TxSpec => []TxInv
<1>1. TxInit => TxInv
  BY Zenon, InitKeeps
<1>2. TxInv /\ [TxNext]_txVars => TxInv'
  BY Zenon, NextKeeps
<1> QED BY PTL, <1>1, <1>2 DEF TxSpec

\* Update keeps the index exact, for any clients, values, nodes, queries and
\* retries, as long as the function returns the errors of its queries
\* (DB.Update, claimValue, putPropEntry, delPropEntry).
THEOREM UpdatesKeepIndex ==
    ASSUME ~Swallows
    PROVE  TxSpec => []IndexExact
<1>1. ASSUME TxInv PROVE IndexExact
  <2>1. Typed(data) /\ Exact(data)
    BY Zenon, <1>1 DEF TxInv
  <2>2. ASSUME NEW c \in Client, tx[c].phase # "idle"
        PROVE  DOMAIN tx[c].writes \subseteq DataKey
    <3>1. tx[c] = NoTx \/ Running(tx[c], data)
      BY Zenon, <1>1 DEF TxInv
    <3>2. Running(tx[c], data)
      BY Zenon, <3>1, <2>2, Phases
    <3> QED BY Zenon, <3>2 DEF Running, Shape
  <2>3. DOMAIN data = DataKey
    BY Zenon, <2>1 DEF Typed
  <2>4. TxTypes
    BY Zenon, <2>1, <2>2, <2>3 DEF Typed, TxTypes
  <2> QED BY Zenon, <2>1, <2>4 DEF IndexExact, Exact
<1>2. TxInv => IndexExact
  BY Zenon, <1>1
<1> QED BY PTL, <1>2, TxInvariant

\* A commit changes the store as if all queries of the function had run at that
\* moment with the results it saw, for any clients, values, nodes, queries and
\* retries, and whatever the function does about errors (DB.Update).
THEOREM UpdatesSerial == TxSpec => CommitIsSerial
<1> DEFINE Serially(c) ==
               LET script == tx[c].script
                   again == Replay(data, script)
               IN CommitTx(c) /\ DOMAIN tx[c].writes # {} => SameReads(again, script) /\ data' = again[Len(script)]
<1>1. ASSUME TxInv, NEW c \in Client PROVE Serially(c)
  <2>1. SUFFICES ASSUME CommitTx(c), DOMAIN tx[c].writes # {}
                 PROVE  /\ SameReads(Replay(data, tx[c].script), tx[c].script)
                        /\ data' = Replay(data, tx[c].script)[Len(tx[c].script)]
    BY Zenon
  <2>2. Agrees(data, tx[c]) /\ Typed(data)
    BY Zenon, <2>1, <1>1, CommitAgrees DEF TxInv
  <2>3. Running(tx[c], data)
    BY Zenon, <2>1, <1>1, GoesOnIs DEF CommitTx
  <2>4. data' = Over(tx[c].writes, data)
    BY Zenon, <2>1 DEF CommitTx
  <2> QED BY Zenon, <2>2, <2>3, <2>4 DEF Running, Serial
<1>2. TxInv => [\A c \in Client : Serially(c)]_txVars
  BY Zenon, <1>1
<1> QED BY PTL, <1>2, TxInvariant DEF CommitIsSerial

=============================================================================
