---------------------------- MODULE QueryProofs ----------------------------
(***************************************************************************)
(* How a query is evaluated, for every query: the integers of Arithmetic,  *)
(* the truth values of Logic, and the rows of a statement as they are read *)
(* and written (Pipeline), for every graph, statement and setting.         *)
(***************************************************************************)
EXTENDS Arithmetic, Logic, Pipeline, WellFoundedInduction, FiniteSetTheorems, TLAPS

-----------------------------------------------------------------------------
(* Sequences.                                                               *)

\* A nonempty set of naturals has a least element.
LEMMA LeastOf ==
    ASSUME NEW S, S \subseteq Nat, S # {}
    PROVE  \E least \in S : \A other \in S : least <= other
<1> DEFINE R == {ss \in Nat \X Nat : ss[1] < ss[2]}
<1>1. IsWellFoundedOn(R, Nat)
  BY Zenon, NatLessThanWellFounded DEF OpToRel
<1> HIDE DEF R
<1>2. PICK least \in S : \A other \in S : ~(<<other, least>> \in R)
  BY Zenon, <1>1, WFMin
<1>3. ASSUME NEW other \in S
      PROVE  least <= other
  <2>1. least \in Nat /\ other \in Nat
    BY Zenon
  <2>2. <<other, least>> \notin R
    BY Zenon, <1>2
  <2> QED BY <2>1, <2>2 DEF R
<1> QED BY Zenon, <1>3

\* A sequence of values in which each follows from the one before.
Chain(g, n, x, step) == g[0] = x /\ \A i \in 1..n : g[i] = step[<<i, g[i - 1]>>]

\* There is one of any length.
LEMMA Iterated ==
    ASSUME NEW n \in Nat, NEW X, NEW x \in X, NEW step \in [Nat \X X -> X]
    PROVE  \E g \in [0..n -> X] : Chain(g, n, x, step)
<1> DEFINE Has(m) == \E g \in [0..m -> X] : Chain(g, m, x, step)
           Without == {m \in Nat : ~Has(m)}
<1>1. SUFFICES ASSUME n \in Without PROVE FALSE
  BY Zenon
<1>2. PICK k \in Without : \A other \in Without : k <= other
  BY Zenon, <1>1, LeastOf
<1>3. k \in Nat
  OBVIOUS
<1>4. CASE k = 0
  <2> DEFINE g == [i \in 0..0 |-> x]
  <2>1. g \in [0..0 -> X] /\ Chain(g, 0, x, step)
    BY DEF Chain
  <2>2. Has(0)
    BY Zenon, <2>1
  <2> QED BY Zenon, <2>2, <1>4
<1>5. CASE k # 0
  <2>1. k - 1 \in Nat /\ ~(k <= k - 1)
    BY <1>3, <1>5
  <2>2. Has(k - 1)
    BY Zenon, <2>1, <1>2
  <2>3. PICK f \in [0..(k - 1) -> X] : Chain(f, k - 1, x, step)
    BY Zenon, <2>2
  <2> DEFINE y == step[<<k, f[k - 1]>>]
             g == [i \in 0..k |-> IF i = k THEN y ELSE f[i]]
  <2>4. y \in X
    <3>1. k - 1 \in 0..(k - 1)
      BY <1>3, <1>5
    <3>2. f[k - 1] \in X
      BY Zenon, <3>1
    <3>3. <<k, f[k - 1]>> \in Nat \X X
      BY Zenon, <3>2, <1>3
    <3> QED BY Zenon, <3>3
  <2>5. \A i \in 0..k : i = k \/ i \in 0..(k - 1)
    BY <1>3
  <2>6. k \in 0..k /\ \A i \in 0..(k - 1) : i \in 0..k /\ i # k
    BY <1>3
  <2> HIDE DEF y
  <2>7. g \in [0..k -> X] /\ g[k] = y /\ \A i \in 0..(k - 1) : g[i] = f[i]
    BY Zenon, <2>4, <2>5, <2>6
  <2> HIDE DEF g
  <2>8. g[0] = x
    <3>1. 0 \in 0..(k - 1)
      BY <1>3, <1>5
    <3> QED BY Zenon, <3>1, <2>3, <2>7 DEF Chain
  <2>9. ASSUME NEW i \in 1..k
        PROVE  g[i] = step[<<i, g[i - 1]>>]
    <3>1. CASE i = k
      <4>1. k - 1 \in 0..(k - 1)
        BY <1>3, <1>5
      <4> QED BY Zenon, <4>1, <3>1, <2>7 DEF y
    <3>2. CASE i # k
      <4>1. i \in 1..(k - 1) /\ i \in 0..(k - 1) /\ i - 1 \in 0..(k - 1)
        BY <1>3, <3>2
      <4> QED BY Zenon, <4>1, <2>3, <2>7 DEF Chain
    <3> QED BY Zenon, <3>1, <3>2
  <2>10. Has(k)
    BY Zenon, <2>7, <2>8, <2>9 DEF Chain
  <2> QED BY Zenon, <2>10
<1> QED BY Zenon, <1>4, <1>5

\* Those(s, S) goes through s and keeps what is in S.
Sifts(f, s, S) ==
    /\ f[0] = <<>>
    /\ \A i \in 1..Len(s) : f[i] = IF s[i] \in S THEN Append(f[i - 1], s[i]) ELSE f[i - 1]

LEMMA Sifted ==
    ASSUME NEW X, NEW s \in Seq(X), NEW S
    PROVE  \E f : Sifts(f, s, S) /\ Those(s, S) = f[Len(s)]
<1> DEFINE Y == Seq(X)
           body(f) == [i \in 0..Len(s) |-> IF i = 0 THEN <<>> ELSE IF s[i] \in S THEN Append(f[i - 1], s[i]) ELSE f[i - 1]]
           to(i, y) == IF i \in 1..Len(s) /\ s[i] \in S THEN Append(y, s[i]) ELSE y
           step == [ix \in Nat \X Y |-> to(ix[1], ix[2])]
<1>1. Len(s) \in Nat /\ \A i \in 1..Len(s) : s[i] \in X
  OBVIOUS
<1>2. \A i \in Nat, y \in Y : to(i, y) \in Y
  <2>1. ASSUME NEW i \in Nat, NEW y \in Y PROVE to(i, y) \in Y
    <3>1. i \in 1..Len(s) => Append(y, s[i]) \in Y
      BY <1>1
    <3> QED BY Zenon, <3>1
  <2> QED BY Zenon, <2>1
<1>3. \A i \in 1..Len(s), y \in Y : to(i, y) = IF s[i] \in S THEN Append(y, s[i]) ELSE y
  BY Zenon
<1>4. <<>> \in Y
  OBVIOUS
<1> HIDE DEF Y, to
<1>5. step \in [Nat \X Y -> Y]
  <2>1. ASSUME NEW ix \in Nat \X Y PROVE to(ix[1], ix[2]) \in Y
    <3>1. ix[1] \in Nat /\ ix[2] \in Y
      OBVIOUS
    <3> QED BY Zenon, <3>1, <1>2
  <2> QED BY Zenon, <2>1
<1>6. \A i \in 1..Len(s), y \in Y : step[<<i, y>>] = to(i, y)
  <2>1. ASSUME NEW i \in 1..Len(s), NEW y \in Y PROVE step[<<i, y>>] = to(i, y)
    <3>1. <<i, y>> \in Nat \X Y /\ <<i, y>>[1] = i /\ <<i, y>>[2] = y
      BY <1>1
    <3>2. step[<<i, y>>] = to(<<i, y>>[1], <<i, y>>[2])
      BY Zenon, <3>1
    <3> QED BY Zenon, <3>1, <3>2
  <2> QED BY Zenon, <2>1
<1> HIDE DEF step
<1>7. PICK g \in [0..Len(s) -> Y] : Chain(g, Len(s), <<>>, step)
  BY Zenon, <1>1, <1>4, <1>5, Iterated
<1>8. \A i \in 1..Len(s) : i - 1 \in 0..Len(s) /\ i \in 0..Len(s) /\ i # 0
  BY <1>1
<1>9. \A i \in 0..Len(s) : i = 0 \/ i \in 1..Len(s)
  BY <1>1
<1>10. 0 \in 0..Len(s)
  BY <1>1
<1>11. g[0] = <<>> /\ \A i \in 1..Len(s) : g[i] = IF s[i] \in S THEN Append(g[i - 1], s[i]) ELSE g[i - 1]
  <2>1. g[0] = <<>> /\ \A i \in 1..Len(s) : g[i] = step[<<i, g[i - 1]>>]
    BY Zenon, <1>7 DEF Chain
  <2>2. \A i \in 1..Len(s) : g[i] = to(i, g[i - 1]) /\ g[i - 1] \in Y
    BY Zenon, <2>1, <1>6, <1>8
  <2> QED BY Zenon, <2>1, <2>2, <1>3
<1>12. g = body(g)
  <2>1. g = [i \in 0..Len(s) |-> g[i]]
    BY Zenon
  <2>2. \A i \in 0..Len(s) : g[i] = IF i = 0 THEN <<>> ELSE IF s[i] \in S THEN Append(g[i - 1], s[i]) ELSE g[i - 1]
    BY Zenon, <1>8, <1>9, <1>11
  <2> QED BY Zenon, <2>1, <2>2
<1> DEFINE f == CHOOSE h : h = body(h)
<1>13. Those(s, S) = f[Len(s)]
  BY Zenon DEF Those
<1>14. f = body(f)
  BY Zenon, <1>12
<1> HIDE DEF f
<1>15. \A i \in 0..Len(s) : f[i] = IF i = 0 THEN <<>> ELSE IF s[i] \in S THEN Append(f[i - 1], s[i]) ELSE f[i - 1]
  BY Zenon, <1>14
<1>16. Sifts(f, s, S)
  BY Zenon, <1>8, <1>10, <1>15 DEF Sifts
<1> QED BY Zenon, <1>13, <1>16

\* It keeps nothing else, and nothing only if there is nothing.
LEMMA ThoseIs ==
    ASSUME NEW X, NEW s \in Seq(X), NEW S
    PROVE  /\ Those(s, S) \in Seq(X \cap S)
           /\ Those(s, S) = <<>> => \A i \in 1..Len(s) : s[i] \notin S
<1> DEFINE Y == X \cap S
           OK(y, k) == y \in Seq(Y) /\ (y = <<>> => \A i \in 1..k : s[i] \notin S)
<1>1. PICK f : Sifts(f, s, S) /\ Those(s, S) = f[Len(s)]
  BY Zenon, Sifted
<1>2. Len(s) \in Nat /\ \A i \in 1..Len(s) : s[i] \in X
  OBVIOUS
<1> DEFINE Off == {k \in 0..Len(s) : ~OK(f[k], k)}
<1>3. f[0] = <<>> /\ \A i \in 1..Len(s) : f[i] = IF s[i] \in S THEN Append(f[i - 1], s[i]) ELSE f[i - 1]
  BY Zenon, <1>1 DEF Sifts
<1>4. OK(f[0], 0)
  BY <1>3
<1>5. ASSUME NEW k \in 1..Len(s), OK(f[k - 1], k - 1) PROVE OK(f[k], k)
  <2>1. s[k] \in X
    BY Zenon, <1>2
  <2>2. CASE s[k] \in S
    <3> DEFINE y == f[k - 1]
    <3>1. f[k] = Append(y, s[k]) /\ y \in Seq(Y) /\ s[k] \in Y
      BY Zenon, <2>1, <2>2, <1>3, <1>5
    <3> HIDE DEF y, Y
    <3>2. Append(y, s[k]) \in Seq(Y) /\ Append(y, s[k]) # <<>>
      BY <3>1
    <3> QED BY Zenon, <3>1, <3>2
  <2>3. CASE s[k] \notin S
    <3>1. f[k] = f[k - 1]
      BY Zenon, <2>3, <1>3
    <3>2. \A i \in 1..k : i = k \/ i \in 1..(k - 1)
      BY <1>2
    <3> QED BY Zenon, <3>1, <3>2, <2>3, <1>5
  <2> QED BY Zenon, <2>2, <2>3
<1> HIDE DEF OK
<1>6. Off = {}
  <2>1. SUFFICES ASSUME Off # {} PROVE FALSE
    BY Zenon
  <2>2. Off \subseteq Nat
    BY <1>2
  <2>3. PICK k \in Off : \A other \in Off : k <= other
    BY Zenon, <2>1, <2>2, LeastOf
  <2>4. k # 0
    BY Zenon, <1>4
  <2>5. k \in 1..Len(s) /\ k - 1 \in 0..Len(s) /\ ~(k <= k - 1)
    BY <2>4, <1>2
  <2>6. OK(f[k - 1], k - 1)
    BY Zenon, <2>3, <2>5
  <2> QED BY Zenon, <2>5, <2>6, <1>5
<1>7. Len(s) \in 0..Len(s)
  BY <1>2
<1>8. OK(f[Len(s)], Len(s))
  BY Zenon, <1>6, <1>7
<1> QED BY Zenon, <1>1, <1>8 DEF OK

\* Nodes are listed in the order of their identifiers, each once.
LEMMA IdsAre ==
    ASSUME NEW g, GraphOK(g), NEW S, S \subseteq DOMAIN g.rec
    PROVE  /\ Ids(g, S) \in Seq(S)
           /\ \A i, j \in 1..Len(Ids(g, S)) : i < j => Ids(g, S)[i] < Ids(g, S)[j]
           /\ \A n \in S : \E i \in 1..Len(Ids(g, S)) : Ids(g, S)[i] = n
<1> DEFINE l == g.next - 1
           s == [n \in 1..l |-> n]
           OK(y, k) == /\ y \in Seq(S \cap 1..k)
                       /\ \A i, j \in 1..Len(y) : i < j => y[i] < y[j]
                       /\ \A n \in S \cap 1..k : \E i \in 1..Len(y) : y[i] = n
<1>1. l \in Nat /\ S \subseteq 1..l
  <2>1. g.next \in Nat \ {0} /\ DOMAIN g.rec \subseteq 1..l
    BY Zenon DEF GraphOK
  <2>2. l \in Nat
    BY <2>1
  <2> QED BY Zenon, <2>1, <2>2
<1> HIDE DEF l
<1>2. s \in Seq(1..l) /\ Len(s) = l /\ \A i \in 1..l : s[i] = i
  BY <1>1
<1>3. Ids(g, S) = Those(s, S)
  BY Zenon DEF Ids, l
<1> HIDE DEF s
<1>4. PICK f : Sifts(f, s, S) /\ Those(s, S) = f[Len(s)]
  BY Zenon, <1>2, Sifted
<1>5. f[0] = <<>> /\ \A i \in 1..l : f[i] = IF i \in S THEN Append(f[i - 1], i) ELSE f[i - 1]
  BY Zenon, <1>2, <1>4 DEF Sifts
<1>6. OK(f[0], 0)
  BY <1>5
<1>7. ASSUME NEW k \in 1..l, OK(f[k - 1], k - 1) PROVE OK(f[k], k)
  <2> DEFINE y == f[k - 1]
             D == S \cap 1..(k - 1)
             E == S \cap 1..k
  <2>1. y \in Seq(D)
    BY Zenon, <1>7
  <2>2. \A i, j \in 1..Len(y) : i < j => y[i] < y[j]
    BY Zenon, <1>7
  <2>3. \A n \in D : \E i \in 1..Len(y) : y[i] = n
    BY Zenon, <1>7
  <2>4. D \subseteq E /\ k \in Nat /\ \A n \in D : n \in Nat /\ n < k
    BY <1>1
  <2>5. y \in Seq(E) /\ Len(y) \in Nat /\ \A i \in 1..Len(y) : y[i] \in Nat /\ y[i] < k
    <3>1. \A i \in 1..Len(y) : y[i] \in D
      BY <2>1
    <3> HIDE DEF D, E, y
    <3> QED BY <3>1, <2>1, <2>4
  <2>6. CASE k \in S
    <3> DEFINE z == Append(y, k)
    <3>1. f[k] = z
      BY Zenon, <2>6, <1>5
    <3>2. E = D \cup {k} /\ k \in E
      BY <2>6, <1>1
    <3> HIDE DEF D, E, y
    <3>3. z \in Seq(E) /\ Len(z) = Len(y) + 1 /\ z[Len(y) + 1] = k /\ \A i \in 1..Len(y) : z[i] = y[i]
      BY <2>5, <3>2
    <3> HIDE DEF z
    <3>4. ASSUME NEW i \in 1..Len(z), NEW j \in 1..Len(z), i < j PROVE z[i] < z[j]
      <4>1. i \in 1..Len(y) /\ (j \in 1..Len(y) \/ j = Len(y) + 1)
        BY <3>3, <3>4, <2>5
      <4>2. CASE j \in 1..Len(y)
        BY Zenon, <4>1, <4>2, <3>3, <3>4, <2>2
      <4>3. CASE j = Len(y) + 1
        BY Zenon, <4>1, <4>3, <3>3, <2>5
      <4> QED BY Zenon, <4>1, <4>2, <4>3
    <3>5. ASSUME NEW n \in E PROVE \E i \in 1..Len(z) : z[i] = n
      <4>1. \A i \in 1..Len(y) : i \in 1..Len(z)
        BY <3>3, <2>5
      <4>2. Len(y) + 1 \in 1..Len(z)
        BY <3>3, <2>5
      <4> QED BY Zenon, <4>1, <4>2, <3>2, <3>3, <2>3
    <3> QED BY Zenon, <3>1, <3>3, <3>4, <3>5 DEF E
  <2>7. CASE k \notin S
    <3>1. f[k] = y
      BY Zenon, <2>7, <1>5
    <3>2. E = D
      BY <2>7, <1>1
    <3> QED BY Zenon, <3>1, <3>2, <2>1, <2>2, <2>3
  <2> QED BY Zenon, <2>6, <2>7
<1> DEFINE Off == {k \in 0..l : ~OK(f[k], k)}
<1> HIDE DEF OK
<1>8. Off = {}
  <2>1. SUFFICES ASSUME Off # {} PROVE FALSE
    BY Zenon
  <2>2. Off \subseteq Nat
    BY <1>1
  <2>3. PICK k \in Off : \A other \in Off : k <= other
    BY Zenon, <2>1, <2>2, LeastOf
  <2>4. k # 0
    BY Zenon, <1>6
  <2>5. k \in 1..l /\ k - 1 \in 0..l /\ ~(k <= k - 1)
    BY <2>4, <1>1
  <2>6. OK(f[k - 1], k - 1)
    BY Zenon, <2>3, <2>5
  <2> QED BY Zenon, <2>5, <2>6, <1>7
<1>9. l \in 0..l /\ S \cap 1..l = S
  BY <1>1
<1>10. OK(f[l], l)
  BY Zenon, <1>8, <1>9
<1>11. Ids(g, S) = f[l]
  BY Zenon, <1>2, <1>3, <1>4
<1> DEFINE y == f[l]
<1>12. OK(y, l)
  BY Zenon, <1>10
<1> HIDE DEF y
<1>13. y \in Seq(S)
  BY Zenon, <1>9, <1>12 DEF OK
<1>14. \A n \in S : \E i \in 1..Len(y) : y[i] = n
  BY Zenon, <1>9, <1>12 DEF OK
<1>15. \A i, j \in 1..Len(y) : i < j => y[i] < y[j]
  BY Zenon, <1>12 DEF OK
<1> QED BY Zenon, <1>11, <1>13, <1>14, <1>15 DEF y

--------------------------------------------------------------------------
(* Rows while they are read and written.                                    *)

Bindings(g) == [id : 0..(g.next - 1), l : 0..1, v : Nat]
RowsOver(g) == [a : Bindings(g), b : Bindings(g)]
IdsIn(bs) == [i \in DOMAIN bs |-> bs[i].id]

\* The operators: what was read ahead was read from the graph the statement
\* began on, and of the rest every node was handed out by now.
OpOK(o) ==
    /\ o.cursor \in Seq(Bindings(g0)) /\ o.inner \in Seq(DOMAIN g0.rec)
    /\ o.side \in {"unread", "read"} /\ o.buffer \in Seq(RowsOver(g0))
    /\ o.side = "unread" => o.pending = <<>> /\ o.buffer = <<>>
    /\ o = [cursor |-> o.cursor, inner |-> o.inner, side |-> o.side, right |-> o.right,
            cur |-> o.cur, pending |-> o.pending, buffer |-> o.buffer]
ReadOK(g, o) == o.cur \in Bindings(g) /\ o.pending \in Seq(Bindings(g)) /\ o.right \in Seq(Bindings(g))

\* Nothing is written before the first row is read, nor, behind a barrier,
\* before all of them are.
Untouched(o) == o.side = "unread" \/ (~Streaming /\ ~(o.cursor = <<>> /\ o.pending = <<>>))

InputOK == StatementOK(stmt) /\ GraphOK(g0) /\ setting \in Setting /\ todo \in Seq(Setting)
SoFarOK ==
    /\ GraphOK(graph) /\ g0.next <= graph.next /\ passed \in Nat
    /\ rows \in Seq(RowsOver(graph)) /\ Len(rows) <= stmt.limit
ScanOK == visited \in Seq(Nat) /\ visited \o IdsIn(op.cursor) = SourceIds(g0)

PipelineInv ==
    /\ InputOK /\ SoFarOK /\ OpOK(op) /\ ScanOK
    /\ status \in {"running", "ok", "scan", "refused", "cap"}
    /\ status = "running" => ReadOK(graph, op) /\ (Untouched(op) => graph = g0)
    /\ status = "ok" /\ ~AtLimit => op.cursor = <<>>

\* The labelled nodes with a value.
Marked(g, v) == {n \in DOMAIN g.rec : g.rec[n].l = 1 /\ g.rec[n].v = v}

\* MERGE leaves them alone or adds one where there was none, and every row of the
\* result has one with its value.
Completed(g, v) == Marked(g, v) = Marked(g0, v) \/ (Marked(g0, v) = {} /\ \E n \in DOMAIN g.rec : Marked(g, v) = {n})

MergeOK(g, rs) ==
    /\ \A v \in Nat : Completed(g, v)
    /\ \A i \in DOMAIN rs : Marked(g, rs[i].a.v) # {}

MergeInv == stmt.write = "merge" => MergeOK(graph, rows)

\* A node of a graph gives a binding of it, and so does no node.
LEMMA Bound ==
    ASSUME NEW g, GraphOK(g)
    PROVE  /\ Null \in Bindings(g)
           /\ \A n \in DOMAIN g.rec : Bind(g, n) \in Bindings(g) /\ Bind(g, n).id = n
<1>1. g.next \in Nat \ {0} /\ g.rec \in [DOMAIN g.rec -> [l : 0..1, v : Nat]] /\ DOMAIN g.rec \subseteq 1..(g.next - 1)
  BY Zenon DEF GraphOK
<1>2. Null \in Bindings(g)
  BY <1>1 DEF Null, Bindings
<1>3. ASSUME NEW n \in DOMAIN g.rec PROVE Bind(g, n) \in Bindings(g) /\ Bind(g, n).id = n
  <2>1. g.rec[n] \in [l : 0..1, v : Nat] /\ n \in 1..(g.next - 1)
    BY Zenon, <1>1
  <2>2. g.rec[n].l \in 0..1 /\ g.rec[n].v \in Nat /\ n \in 0..(g.next - 1)
    BY <2>1, <1>1
  <2> QED BY <2>2 DEF Bind, Bindings
<1> QED BY Zenon, <1>2, <1>3

\* So for a sequence of nodes.
LEMMA BoundAll ==
    ASSUME NEW g, GraphOK(g), NEW ids \in Seq(DOMAIN g.rec)
    PROVE  Binds(g, ids) \in Seq(Bindings(g)) /\ IdsIn(Binds(g, ids)) = ids
<1> DEFINE b(i) == Bind(g, ids[i])
           bs == [i \in 1..Len(ids) |-> b(i)]
<1>1. DOMAIN ids = 1..Len(ids) /\ Len(ids) \in Nat /\ \A i \in 1..Len(ids) : ids[i] \in DOMAIN g.rec
  OBVIOUS
<1>2. \A i \in 1..Len(ids) : b(i) \in Bindings(g) /\ b(i).id = ids[i]
  BY Zenon, <1>1, Bound
<1>3. Binds(g, ids) = bs
  BY Zenon, <1>1 DEF Binds
<1> HIDE DEF b
<1>4. bs \in Seq(Bindings(g)) /\ DOMAIN bs = 1..Len(ids) /\ \A i \in 1..Len(ids) : bs[i] = b(i)
  BY <1>1, <1>2
<1> HIDE DEF bs
<1>5. IdsIn(bs) = [i \in 1..Len(ids) |-> ids[i]]
  BY Zenon, <1>2, <1>4 DEF IdsIn
<1>6. [i \in 1..Len(ids) |-> ids[i]] = ids
  BY <1>1
<1> QED BY Zenon, <1>3, <1>4, <1>5, <1>6

\* What was read of a graph is still a binding when there are more nodes.
LEMMA Grown ==
    ASSUME NEW g, GraphOK(g), NEW h, GraphOK(h), g.next <= h.next
    PROVE  /\ Bindings(g) \subseteq Bindings(h) /\ RowsOver(g) \subseteq RowsOver(h)
           /\ Seq(Bindings(g)) \subseteq Seq(Bindings(h)) /\ Seq(RowsOver(g)) \subseteq Seq(RowsOver(h))
<1>1. g.next \in Nat /\ h.next \in Nat
  BY Zenon DEF GraphOK
<1>2. 0..(g.next - 1) \subseteq 0..(h.next - 1)
  BY <1>1
<1>3. Bindings(g) \subseteq Bindings(h)
  BY <1>2 DEF Bindings
<1>4. RowsOver(g) \subseteq RowsOver(h)
  BY <1>3 DEF RowsOver
<1> QED BY <1>3, <1>4

\* The lists a scan or a lookup gives are of nodes of the graph.
LEMMA Listed ==
    ASSUME NEW g, GraphOK(g)
    PROVE  /\ NodesByLabel(g) \in Seq(DOMAIN g.rec) /\ SourceIds(g) \in Seq(DOMAIN g.rec)
           /\ \A n : OutNodes(g, n) \in Seq(DOMAIN g.rec)
           /\ \A v : NodesByProperty(g, v) \in Seq(DOMAIN g.rec)
<1>1. ASSUME NEW S, S \subseteq DOMAIN g.rec PROVE Ids(g, S) \in Seq(DOMAIN g.rec)
  <2>1. Ids(g, S) \in Seq(S)
    BY Zenon, <1>1, IdsAre
  <2> QED BY <2>1, <1>1
<1>2. AllNodes(g) \in Seq(DOMAIN g.rec)
  BY Zenon, <1>1 DEF AllNodes
<1>3. NodesByLabel(g) \in Seq(DOMAIN g.rec)
  BY Zenon, <1>1 DEF NodesByLabel
<1>4. SourceIds(g) \in Seq(DOMAIN g.rec)
  BY Zenon, <1>2, <1>3 DEF SourceIds
<1>5. ASSUME NEW n PROVE OutNodes(g, n) \in Seq(DOMAIN g.rec)
  BY Zenon, <1>1 DEF OutNodes
<1>6. ASSUME NEW v PROVE NodesByProperty(g, v) \in Seq(DOMAIN g.rec)
  BY Zenon, <1>1 DEF NodesByProperty
<1> QED BY Zenon, <1>3, <1>4, <1>5, <1>6

\* A row of the source is joined with nodes of the graph, or with none.
LEMMA JoinedIn ==
    ASSUME GraphOK(graph), StatementOK(stmt), NEW a, NEW bs \in Seq(Bindings(graph))
    PROVE  NullExtended(Joined(a, bs)) \in Seq(Bindings(graph))
<1> DEFINE B == Bindings(graph)
<1>1. <<Null>> \in Seq(B)
  <2>1. Null \in B
    BY Zenon, Bound
  <2> HIDE DEF B
  <2> QED BY <2>1
<1>2. ASSUME NEW cs \in Seq(B) PROVE Equal(a, cs) \in Seq(B)
  <2> DEFINE S == {cs[i] : i \in {j \in DOMAIN cs : a.v # 0 /\ cs[j].v = a.v}}
  <2>1. Those(cs, S) \in Seq(B \cap S)
    BY Zenon, ThoseIs
  <2>2. Equal(a, cs) = Those(cs, S)
    BY Zenon DEF Equal
  <2> HIDE DEF S, B
  <2> QED BY <2>1, <2>2
<1>3. ASSUME NEW v PROVE Binds(graph, NodesByProperty(graph, v)) \in Seq(B)
  BY Zenon, Listed, BoundAll
<1>4. Binds(graph, NodesByLabel(graph)) \in Seq(B)
  BY Zenon, Listed, BoundAll
<1>5. [i \in DOMAIN OutNodes(graph, a.id) |-> [Null EXCEPT !.id = OutNodes(graph, a.id)[i]]] \in Seq(B)
  <2> DEFINE ids == OutNodes(graph, a.id)
             b(i) == [Null EXCEPT !.id = ids[i]]
  <2>1. ids \in Seq(DOMAIN graph.rec)
    BY Zenon, Listed
  <2> HIDE DEF ids
  <2>2. DOMAIN ids = 1..Len(ids) /\ Len(ids) \in Nat /\ \A i \in 1..Len(ids) : ids[i] \in DOMAIN graph.rec
    BY <2>1
  <2>3. graph.next \in Nat \ {0} /\ DOMAIN graph.rec \subseteq 1..(graph.next - 1)
    BY Zenon DEF GraphOK
  <2>4. ASSUME NEW i \in 1..Len(ids) PROVE b(i) \in B
    <3>1. ids[i] \in 0..(graph.next - 1)
      BY <2>2, <2>3
    <3> QED BY <3>1 DEF Null, Bindings
  <2> HIDE DEF b, B
  <2>5. [i \in 1..Len(ids) |-> b(i)] \in Seq(B)
    BY <2>2, <2>4
  <2> QED BY Zenon, <2>2, <2>5 DEF b, ids
<1>6. stmt.match \in {"none", "join", "expand"}
  BY Zenon DEF StatementOK
<1>7. Joined(a, bs) \in Seq(B)
  <2>1. CASE stmt.match = "none"
    BY <2>1, <1>1 DEF Joined
  <2>2. CASE stmt.match = "expand"
    BY Zenon, <2>2, <1>5 DEF Joined
  <2>3. CASE stmt.match = "join"
    BY Zenon, <2>3, <1>2, <1>3, <1>4 DEF Joined
  <2> QED BY Zenon, <1>6, <2>1, <2>2, <2>3
<1> QED BY Zenon, <1>1, <1>7 DEF NullExtended

-----------------------------------------------------------------------------
(* What the writes leave.                                                   *)

\* A written graph: the counter has not gone back.
Leaves(g, h) == GraphOK(h) /\ g.next <= h.next

\* A node is created with the next identifier.
LEMMA Created ==
    ASSUME NEW g, GraphOK(g), NEW v \in Nat
    PROVE  Leaves(g, CreateNode(g, v))
<1> DEFINE d == DOMAIN g.rec
           r(n) == IF n = g.next THEN Rec(1, v) ELSE g.rec[n]
           rec == [n \in d \cup {g.next} |-> r(n)]
           h == CreateNode(g, v)
<1>1. g.next \in Nat \ {0} /\ g.rec \in [d -> [l : 0..1, v : Nat]] /\ d \subseteq 1..(g.next - 1) /\ g.edge \subseteq d \X d
  BY Zenon DEF GraphOK
<1>2. h = [rec |-> rec, edge |-> g.edge, next |-> g.next + 1]
  BY Zenon DEF CreateNode
<1>3. h.rec = rec /\ h.edge = g.edge /\ h.next = g.next + 1
  BY <1>2
<1>4. Rec(1, v) \in [l : 0..1, v : Nat]
  BY DEF Rec
<1>5. \A n \in d \cup {g.next} : r(n) \in [l : 0..1, v : Nat]
  BY Zenon, <1>1, <1>4
<1> HIDE DEF r
<1>6. DOMAIN rec = d \cup {g.next} /\ rec \in [d \cup {g.next} -> [l : 0..1, v : Nat]]
  BY Zenon, <1>5
<1> HIDE DEF rec, h
<1>7. h.next \in Nat \ {0} /\ g.next <= h.next /\ d \cup {g.next} \subseteq 1..(h.next - 1)
  BY <1>1, <1>3
<1>8. h.edge \subseteq (d \cup {g.next}) \X (d \cup {g.next})
  BY <1>1, <1>3
<1> QED BY Zenon, <1>2, <1>3, <1>6, <1>7, <1>8 DEF Leaves, GraphOK, h

\* A node's record is replaced.
LEMMA Updated ==
    ASSUME NEW g, GraphOK(g), NEW n \in DOMAIN g.rec, NEW l \in 0..1, NEW v \in Nat
    PROVE  /\ Leaves(g, WithRecord(g, n, Rec(l, v)))
           /\ DOMAIN WithRecord(g, n, Rec(l, v)).rec = DOMAIN g.rec
<1> DEFINE d == DOMAIN g.rec
           r == Rec(l, v)
           rec == [g.rec EXCEPT ![n] = r]
           h == WithRecord(g, n, r)
<1>1. g.next \in Nat \ {0} /\ g.rec \in [d -> [l : 0..1, v : Nat]] /\ d \subseteq 1..(g.next - 1) /\ g.edge \subseteq d \X d
  BY Zenon DEF GraphOK
<1>2. g = [rec |-> g.rec, edge |-> g.edge, next |-> g.next]
  BY Zenon DEF GraphOK
<1>3. h = [rec |-> rec, edge |-> g.edge, next |-> g.next]
  BY <1>2 DEF WithRecord
<1>4. r \in [l : 0..1, v : Nat]
  BY DEF Rec
<1> HIDE DEF r
<1>5. rec \in [d -> [l : 0..1, v : Nat]] /\ DOMAIN rec = d
  BY Zenon, <1>1, <1>4
<1> HIDE DEF rec, h
<1>6. h.rec = rec /\ h.edge = g.edge /\ h.next = g.next
  BY <1>3
<1>7. g.next <= h.next
  BY <1>1, <1>6
<1> QED BY Zenon, <1>1, <1>3, <1>5, <1>6, <1>7 DEF Leaves, GraphOK, h, r

\* A node is deleted with its edges.
LEMMA Deleted ==
    ASSUME NEW g, GraphOK(g), NEW n
    PROVE  Leaves(g, DetachDeleteNode(g, n))
<1> DEFINE d == DOMAIN g.rec
           rec == [m \in d \ {n} |-> g.rec[m]]
           edge == {e \in g.edge : n \notin {e[1], e[2]}}
           h == DetachDeleteNode(g, n)
<1>1. g.next \in Nat \ {0} /\ g.rec \in [d -> [l : 0..1, v : Nat]] /\ d \subseteq 1..(g.next - 1) /\ g.edge \subseteq d \X d
  BY Zenon DEF GraphOK
<1>2. h = [rec |-> rec, edge |-> edge, next |-> g.next]
  BY Zenon DEF DetachDeleteNode
<1>3. rec \in [d \ {n} -> [l : 0..1, v : Nat]] /\ DOMAIN rec = d \ {n}
  BY Zenon, <1>1
<1>4. edge \subseteq (d \ {n}) \X (d \ {n})
  <2>1. ASSUME NEW e \in edge PROVE e \in (d \ {n}) \X (d \ {n})
    BY <1>1
  <2> QED BY Zenon, <2>1
<1> HIDE DEF rec, edge, h
<1>5. h.rec = rec /\ h.edge = edge /\ h.next = g.next
  BY <1>2
<1>6. g.next <= h.next /\ d \ {n} \subseteq 1..(h.next - 1) /\ h.next \in Nat \ {0}
  BY <1>1, <1>5
<1> QED BY Zenon, <1>2, <1>3, <1>4, <1>5, <1>6 DEF Leaves, GraphOK, h

\* What a write that is not refused leaves of a row.
WriteFine(g, w) ==
    w.end = "ok" => /\ Leaves(g, w.graph) /\ w.n \in Nat
                    /\ w.row \in RowsOver(w.graph)

\* A result of Written or Refused.
LEMMA Fine ==
    ASSUME NEW g
    PROVE  /\ WriteFine(g, Refused)
           /\ \A h, r, n : Leaves(g, h) /\ r \in RowsOver(h) /\ n \in Nat => WriteFine(g, Written(h, r, n))
<1>1. Refused.end # "ok"
  BY DEF Refused
<1>2. ASSUME NEW h, NEW r, NEW n, Leaves(g, h), r \in RowsOver(h), n \in Nat PROVE WriteFine(g, Written(h, r, n))
  <2> DEFINE w == Written(h, r, n)
  <2>1. w.graph = h /\ w.row = r /\ w.n = n
    BY DEF Written
  <2> HIDE DEF w
  <2>2. Leaves(g, w.graph) /\ w.n \in Nat
    BY Zenon, <2>1, <1>2
  <2>3. w.row \in RowsOver(w.graph)
    BY Zenon, <2>1, <1>2
  <2> QED BY Zenon, <2>2, <2>3 DEF WriteFine, w
<1>3. WriteFine(g, Refused)
  BY Zenon, <1>1 DEF WriteFine
<1> QED BY Zenon, <1>2, <1>3

\* A row stays one when a node of it is bound anew.
LEMMA Rebound ==
    ASSUME NEW g, GraphOK(g), NEW h, Leaves(g, h), NEW row \in RowsOver(g), NEW x \in {"a", "b"}, NEW b \in Bindings(h)
    PROVE  [row EXCEPT ![x] = b] \in RowsOver(h) /\ row \in RowsOver(h)
<1>1. row \in RowsOver(h)
  BY Zenon, Grown DEF Leaves
<1> QED BY <1>1 DEF RowsOver

\* SET and REMOVE: the node has another record and is bound anew.
LEMMA OneUpdated ==
    ASSUME GraphOK(graph), NEW row \in RowsOver(graph), NEW x \in {"a", "b"},
           Exists(graph, row[x].id), NEW l \in 0..1, NEW v \in Nat
    PROVE  LET g == WithRecord(graph, row[x].id, Rec(l, v))
           IN WriteFine(graph, Written(g, [row EXCEPT ![x] = Bind(g, row[x].id)], 1))
<1> DEFINE n == row[x].id
           g == WithRecord(graph, n, Rec(l, v))
<1>1. n \in DOMAIN graph.rec
  BY Zenon DEF Exists
<1> HIDE DEF n
<1>2. Leaves(graph, g) /\ DOMAIN g.rec = DOMAIN graph.rec
  BY <1>1, Updated
<1> HIDE DEF g
<1>3. Bind(g, n) \in Bindings(g)
  BY Zenon, <1>1, <1>2, Bound DEF Leaves
<1> DEFINE r == [row EXCEPT ![x] = Bind(g, n)]
<1>4. r \in RowsOver(g)
  BY Zenon, <1>2, <1>3, Rebound
<1> HIDE DEF r
<1>5. WriteFine(graph, Written(g, r, 1))
  <2>1. 1 \in Nat
    OBVIOUS
  <2> QED BY Zenon, <2>1, <1>2, <1>4, Fine
<1> QED BY Zenon, <1>5 DEF r, g, n

\* The value a row has for a property, and the label of its node.
LEMMA OfRow ==
    ASSUME NEW g, GraphOK(g), NEW row \in RowsOver(g)
    PROVE  /\ row.a.v \in Nat /\ row.b.v \in Nat
           /\ \A n \in DOMAIN g.rec : g.rec[n].l \in 0..1 /\ g.rec[n].v \in Nat
<1>1. g.rec \in [DOMAIN g.rec -> [l : 0..1, v : Nat]]
  BY Zenon DEF GraphOK
<1>2. ASSUME NEW n \in DOMAIN g.rec PROVE g.rec[n].l \in 0..1 /\ g.rec[n].v \in Nat
  <2>1. g.rec[n] \in [l : 0..1, v : Nat]
    BY Zenon, <1>1
  <2> QED BY <2>1
<1>3. row.a.v \in Nat /\ row.b.v \in Nat
  BY DEF RowsOver, Bindings
<1> QED BY Zenon, <1>2, <1>3

\* Every write leaves a graph, the counter where it was or further, and a row of
\* nodes handed out by then; or it is refused.
LEMMA Writes ==
    ASSUME GraphOK(graph), StatementOK(stmt), NEW row \in RowsOver(graph)
    PROVE  WriteFine(graph, WriteRow(row))
<1>1. Leaves(graph, graph)
  <2>1. graph.next \in Nat
    BY Zenon DEF GraphOK
  <2>2. graph.next <= graph.next
    BY <2>1
  <2> QED BY Zenon, <2>2 DEF Leaves
<1>2. 1 \in Nat /\ "a" \in {"a", "b"} /\ "b" \in {"a", "b"} /\ 0 \in 0..1
  OBVIOUS
<1>3. WriteFine(graph, Written(graph, row, 1))
  BY Zenon, <1>1, <1>2, Fine
<1>4. row.a.v \in Nat /\ row.b.v \in Nat /\ \A n \in DOMAIN graph.rec : graph.rec[n].l \in 0..1 /\ graph.rec[n].v \in Nat
  BY Zenon, OfRow
<1>5. ASSUME NEW x \in {"a", "b"}, NEW v \in Nat PROVE WriteFine(graph, SetOn(row, x, v))
  <2>1. CASE Exists(graph, row[x].id)
    <3>1. graph.rec[row[x].id].l \in 0..1
      BY Zenon, <2>1, <1>4 DEF Exists
    <3>2. SetOn(row, x, v) = LET g == WithRecord(graph, row[x].id, Rec(graph.rec[row[x].id].l, v))
                             IN Written(g, [row EXCEPT ![x] = Bind(g, row[x].id)], 1)
      BY Zenon, <2>1 DEF SetOn, SetProperty
    <3> QED BY Zenon, <2>1, <3>1, <3>2, OneUpdated
  <2>2. CASE ~Exists(graph, row[x].id)
    BY Zenon, <2>2, Fine DEF SetOn
  <2> QED BY Zenon, <2>1, <2>2
<1>6. ASSUME NEW x \in {"a", "b"} PROVE WriteFine(graph, RemoveOn(row, x))
  <2>1. CASE Exists(graph, row[x].id)
    <3>1. graph.rec[row[x].id].v \in Nat
      BY Zenon, <2>1, <1>4 DEF Exists
    <3>2. RemoveOn(row, x) = LET g == WithRecord(graph, row[x].id, Rec(0, graph.rec[row[x].id].v))
                             IN Written(g, [row EXCEPT ![x] = Bind(g, row[x].id)], 1)
      BY Zenon, <2>1 DEF RemoveOn, RemoveLabels
    <3> QED BY Zenon, <2>1, <3>1, <3>2, <1>2, OneUpdated
  <2>2. CASE ~Exists(graph, row[x].id)
    BY Zenon, <2>2, Fine DEF RemoveOn
  <2> QED BY Zenon, <2>1, <2>2
<1>7. ASSUME NEW g, Leaves(graph, g) PROVE row \in RowsOver(g) /\ WriteFine(graph, Written(g, row, 1))
  <2>1. row \in RowsOver(g)
    BY Zenon, <1>7, Grown DEF Leaves
  <2> QED BY Zenon, <2>1, <1>2, <1>7, Fine
<1>8. ASSUME NEW x, NEW detach PROVE WriteFine(graph, DeleteOn(row, x, detach))
  <2>1. WriteFine(graph, Written(DetachDeleteNode(graph, row[x].id), row, 1))
    BY Zenon, <1>7, Deleted
  <2> QED BY Zenon, <2>1, <1>3, Fine DEF DeleteOn
<1>9. ASSUME NEW v \in Nat PROVE WriteFine(graph, Written(CreateNode(graph, v), row, 1))
  BY Zenon, <1>7, Created
<1>10. WriteFine(graph, MergeOn(row))
  <2>1. Len(MergeMatches(row.a.v)) \in Nat
    <3>1. MergeMatches(row.a.v) \in Seq(DOMAIN graph.rec)
      BY Zenon, Listed DEF MergeMatches
    <3> QED BY <3>1
  <2>2. WriteFine(graph, Written(graph, row, Len(MergeMatches(row.a.v))))
    BY Zenon, <2>1, <1>1, Fine
  <2> QED BY Zenon, <2>2, <1>4, <1>9, Fine DEF MergeOn
<1>11. stmt.write \in Writers
  BY Zenon DEF StatementOK
<1>12. CASE stmt.write = "none"
  <2>1. WriteRow(row) = Written(graph, row, 1)
    BY <1>12 DEF WriteRow
  <2> QED BY Zenon, <2>1, <1>3
<1>13. CASE stmt.write = "setA"
  <2>1. WriteRow(row) = SetOn(row, "a", row.b.v)
    BY <1>13 DEF WriteRow
  <2> QED BY Zenon, <2>1, <1>2, <1>4, <1>5
<1>14. CASE stmt.write = "markA"
  <2>1. WriteRow(row) = SetOn(row, "a", 1)
    BY <1>14 DEF WriteRow
  <2> QED BY Zenon, <2>1, <1>2, <1>5
<1>15. CASE stmt.write = "setB"
  <2>1. WriteRow(row) = SetOn(row, "b", row.a.v)
    BY <1>15 DEF WriteRow
  <2> QED BY Zenon, <2>1, <1>2, <1>4, <1>5
<1>16. CASE stmt.write = "dropA"
  <2>1. WriteRow(row) = RemoveOn(row, "a")
    BY <1>16 DEF WriteRow
  <2> QED BY Zenon, <2>1, <1>2, <1>6
<1>17. CASE stmt.write = "create"
  <2>1. WriteRow(row) = Written(CreateNode(graph, row.a.v), row, 1)
    BY <1>17 DEF WriteRow
  <2> QED BY Zenon, <2>1, <1>4, <1>9
<1>18. CASE stmt.write = "merge"
  <2>1. WriteRow(row) = MergeOn(row)
    BY <1>18 DEF WriteRow
  <2> QED BY Zenon, <2>1, <1>10
<1>19. CASE stmt.write \in {"deleteB", "detachA", "detachB"}
  <2>1. \E x, detach : WriteRow(row) = DeleteOn(row, x, detach)
    <3>1. CASE stmt.write = "deleteB"
      BY Zenon, <3>1 DEF WriteRow
    <3>2. CASE stmt.write = "detachA"
      BY Zenon, <3>2 DEF WriteRow
    <3>3. CASE stmt.write = "detachB"
      BY Zenon, <3>3 DEF WriteRow
    <3> QED BY Zenon, <1>19, <3>1, <3>2, <3>3
  <2> QED BY Zenon, <2>1, <1>8
<1> QED BY Zenon, <1>11, <1>12, <1>13, <1>14, <1>15, <1>16, <1>17, <1>18, <1>19 DEF Writers

Through(rs, x, n, l) == LET all == rs \o [i \in 1..n |-> x] IN SubSeq(all, 1, Least(Len(all), l))

\* The rows that come out of SKIP and LIMIT are rows of the result or copies of the
\* one written, at most as many as LIMIT says.
LEMMA Limited ==
    ASSUME NEW X, NEW rs \in Seq(X), NEW x \in X, NEW n \in Nat, NEW l \in Nat
    PROVE  /\ Through(rs, x, n, l) \in Seq(X) /\ Len(Through(rs, x, n, l)) <= l
           /\ \A i \in 1..Len(Through(rs, x, n, l)) :
                 Through(rs, x, n, l)[i] = x \/ \E j \in 1..Len(rs) : Through(rs, x, n, l)[i] = rs[j]
<1> DEFINE xs == [i \in 1..n |-> x]
           all == rs \o xs
           m == Least(Len(all), l)
           result == SubSeq(all, 1, m)
<1>1. xs \in Seq(X) /\ Len(xs) = n /\ \A i \in 1..n : xs[i] = x
  OBVIOUS
<1>2. Len(rs) \in Nat /\ \A i \in 1..Len(rs) : rs[i] \in X
  OBVIOUS
<1> HIDE DEF xs
<1>3. all \in Seq(X) /\ Len(all) = Len(rs) + n
  BY <1>1
<1>4. \A i \in 1..(Len(rs) + n) : all[i] = IF i <= Len(rs) THEN rs[i] ELSE xs[i - Len(rs)]
  BY <1>1
<1> HIDE DEF all
<1>5. m \in 0..Len(all) /\ m <= l
  BY <1>2, <1>3 DEF Least
<1> HIDE DEF m
<1>6. result \in Seq(X) /\ Len(result) = m /\ \A i \in 1..m : result[i] = all[i]
  BY <1>3, <1>5
<1> HIDE DEF result
<1>7. ASSUME NEW i \in 1..Len(result) PROVE result[i] = x \/ \E j \in 1..Len(rs) : result[i] = rs[j]
  <2>1. i \in 1..m /\ i \in 1..(Len(rs) + n)
    BY <1>2, <1>3, <1>5, <1>6
  <2>2. CASE i <= Len(rs)
    <3>1. i \in 1..Len(rs)
      BY <2>1, <2>2, <1>2
    <3> QED BY Zenon, <2>1, <2>2, <3>1, <1>4, <1>6
  <2>3. CASE ~(i <= Len(rs))
    <3>1. i - Len(rs) \in 1..n
      BY <2>1, <2>3, <1>2
    <3> QED BY Zenon, <2>1, <2>3, <3>1, <1>1, <1>4, <1>6
  <2> QED BY Zenon, <2>2, <2>3
<1>8. result \in Seq(X) /\ Len(result) <= l
  BY Zenon, <1>5, <1>6
<1>9. Through(rs, x, n, l) = result
  BY Zenon DEF Through, result, m, all, xs
<1> QED BY Zenon, <1>7, <1>8, <1>9

-----------------------------------------------------------------------------
(* One step at a time.                                                      *)

\* A row delivered is written, and its copies come to the result; or the
\* statement fails and leaves the graph it began on.
LEMMA Delivers ==
    ASSUME InputOK, SoFarOK, status = "running", NEW row \in RowsOver(graph), Deliver(row)
    PROVE  /\ UNCHANGED <<run, outcomes>> /\ SoFarOK' /\ status' \in {"running", "refused", "cap"}
           /\ status' = "running" => graph.next <= graph'.next
<1>1. StatementOK(stmt) /\ GraphOK(g0) /\ GraphOK(graph) /\ g0.next <= graph.next /\ passed \in Nat
      /\ rows \in Seq(RowsOver(graph)) /\ Len(rows) <= stmt.limit
  BY Zenon DEF InputOK, SoFarOK
<1>2. g0.next \in Nat /\ graph.next \in Nat
  BY Zenon, <1>1 DEF GraphOK
<1>3. stmt.skip \in Nat /\ stmt.limit \in Nat
  BY Zenon, <1>1 DEF StatementOK
<1>4. ASSUME NEW why \in {"refused", "cap"}, Fail(why)
      PROVE  UNCHANGED <<run, outcomes>> /\ SoFarOK' /\ status' = why
  <2>1. status' = why /\ graph' = g0 /\ rows' = <<>> /\ stmt' = stmt /\ g0' = g0 /\ passed' = passed
    BY <1>4 DEF Fail, run
  <2>2. UNCHANGED <<run, outcomes>>
    BY <1>4 DEF Fail
  <2>3. g0.next <= g0.next /\ <<>> \in Seq(RowsOver(g0)) /\ Len(<<>>) <= stmt.limit
    BY <1>2, <1>3
  <2>4. SoFarOK'
    BY Zenon, <2>1, <2>3, <1>1 DEF SoFarOK
  <2> QED BY Zenon, <2>1, <2>2, <2>4
<1> DEFINE w == WriteRow(row)
           all == rows \o [i \in 1..Kept(w.n) |-> w.row]
           result == SubSeq(all, 1, Least(Len(all), stmt.limit))
<1>5. CASE w.end = "ok" /\ UNCHANGED <<run, status, outcomes>> /\ graph' = w.graph /\ passed' = passed + w.n /\ rows' = result
  <2>1. GraphOK(w.graph) /\ graph.next <= w.graph.next /\ w.n \in Nat /\ w.row \in RowsOver(w.graph)
    BY Zenon, <1>1, <1>5, Writes DEF WriteFine, Leaves
  <2>2. rows \in Seq(RowsOver(w.graph))
    BY Zenon, <2>1, <1>1, Grown
  <2>3. Kept(w.n) \in Nat
    <3> HIDE DEF w
    <3> QED BY <2>1, <1>1, <1>3 DEF Kept, Least
  <2>4. result \in Seq(RowsOver(w.graph)) /\ Len(result) <= stmt.limit
    <3> DEFINE X == RowsOver(w.graph)
               x == w.row
               n == Kept(w.n)
               l == stmt.limit
    <3>1. rows \in Seq(X) /\ x \in X /\ n \in Nat /\ l \in Nat
      BY Zenon, <2>1, <2>2, <2>3, <1>3
    <3> HIDE DEF X, x, n, l
    <3>2. Through(rows, x, n, l) \in Seq(X) /\ Len(Through(rows, x, n, l)) <= l
      BY Zenon, <3>1, Limited
    <3>3. Through(rows, x, n, l) = result
      BY Zenon DEF Through, x, n, l
    <3> QED BY Zenon, <3>2, <3>3 DEF X, l
  <2> HIDE DEF w, result
  <2>5. g0.next <= w.graph.next /\ passed + w.n \in Nat
    <3>1. w.graph.next \in Nat
      BY Zenon, <2>1 DEF GraphOK
    <3> QED BY <3>1, <2>1, <1>1, <1>2
  <2>6. stmt' = stmt /\ g0' = g0 /\ status' = "running"
    BY <1>5 DEF run
  <2>7. SoFarOK'
    BY Zenon, <2>1, <2>4, <2>5, <2>6, <1>5 DEF SoFarOK
  <2>8. graph.next <= graph'.next
    BY Zenon, <2>1, <1>5
  <2>9. UNCHANGED <<run, outcomes>>
    BY <1>5
  <2> QED BY Zenon, <2>6, <2>7, <2>8, <2>9
<1>6. \/ Fail("refused")
      \/ Fail("cap")
      \/ w.end = "ok" /\ UNCHANGED <<run, status, outcomes>> /\ graph' = w.graph /\ passed' = passed + w.n /\ rows' = result
  BY Zenon DEF Deliver
<1>7. CASE Fail("refused")
  <2>1. UNCHANGED <<run, outcomes>> /\ SoFarOK' /\ status' = "refused"
    BY Zenon, <1>4, <1>7
  <2> QED BY <2>1
<1>8. CASE Fail("cap")
  <2>1. UNCHANGED <<run, outcomes>> /\ SoFarOK' /\ status' = "cap"
    BY Zenon, <1>4, <1>8
  <2> QED BY <2>1
<1> QED BY Zenon, <1>5, <1>6, <1>7, <1>8

\* A statement's settings, graph and text are those it was begun with.
LEMMA SameInput ==
    ASSUME InputOK, UNCHANGED run
    PROVE  InputOK' /\ stmt' = stmt /\ g0' = g0 /\ setting' = setting
<1>1. stmt' = stmt /\ g0' = g0 /\ setting' = setting /\ todo' = todo
  BY DEF run
<1> QED BY Zenon, <1>1 DEF InputOK

\* The elements of two sequences put together.
LEMMA Concat ==
    ASSUME NEW X, NEW s \in Seq(X), NEW t \in Seq(X)
    PROVE  /\ s \o t \in Seq(X) /\ Len(s \o t) = Len(s) + Len(t)
           /\ \A i \in 1..(Len(s) + Len(t)) : (s \o t)[i] = IF i <= Len(s) THEN s[i] ELSE t[i - Len(s)]
OBVIOUS

\* A sequence is its elements.
LEMMA SameSequence ==
    ASSUME NEW X, NEW s \in Seq(X), NEW t \in Seq(X), Len(s) = Len(t), \A i \in 1..Len(s) : s[i] = t[i]
    PROVE  s = t
OBVIOUS

\* The node a source returns next goes from what it has still to return to what it
\* has returned.
LEMMA Moved ==
    ASSUME NEW X, NEW bs \in Seq(X), bs # <<>>, NEW seen \in Seq(Nat), \A b \in X : b.id \in Nat
    PROVE  /\ Append(seen, Head(bs).id) \in Seq(Nat) /\ Tail(bs) \in Seq(X) /\ Head(bs) \in X
           /\ Append(seen, Head(bs).id) \o IdsIn(Tail(bs)) = seen \o IdsIn(bs)
<1> DEFINE m == Len(seen)
           l == Len(bs)
           id(i) == bs[i].id
           all == [i \in 1..l |-> id(i)]
           rest == [i \in 1..(l - 1) |-> id(i + 1)]
<1>1. m \in Nat /\ l \in Nat \ {0} /\ \A i \in 1..l : bs[i] \in X
  OBVIOUS
<1>2. Head(bs) = bs[1] /\ Tail(bs) \in Seq(X) /\ Len(Tail(bs)) = l - 1 /\ DOMAIN bs = 1..l /\ DOMAIN Tail(bs) = 1..(l - 1)
      /\ \A i \in 1..(l - 1) : Tail(bs)[i] = bs[i + 1]
  OBVIOUS
<1>3. 1 \in 1..l /\ \A i \in 1..(l - 1) : i + 1 \in 1..l
  BY <1>1
<1>4. \A i \in 1..l : id(i) \in Nat
  BY Zenon, <1>1
<1>5. IdsIn(bs) = all
  BY Zenon, <1>2 DEF IdsIn
<1>6. IdsIn(Tail(bs)) = rest
  BY Zenon, <1>2 DEF IdsIn
<1>7. Head(bs).id = id(1) /\ Head(bs) \in X
  BY Zenon, <1>1, <1>2, <1>3
<1> HIDE DEF id, m, l
<1>8. all \in Seq(Nat) /\ Len(all) = l /\ rest \in Seq(Nat) /\ Len(rest) = l - 1
      /\ (\A i \in 1..l : all[i] = id(i)) /\ (\A i \in 1..(l - 1) : rest[i] = id(i + 1))
  BY <1>1, <1>3, <1>4
<1> HIDE DEF all, rest
<1> DEFINE x == id(1)
           one == Append(seen, x)
<1>9. x = all[1] /\ x \in Nat /\ \A i \in 1..(l - 1) : rest[i] = all[i + 1]
  BY Zenon, <1>3, <1>4, <1>8
<1> HIDE DEF x
<1>10. one \in Seq(Nat) /\ Len(one) = m + 1 /\ one[m + 1] = x /\ \A i \in 1..m : one[i] = seen[i]
  BY <1>9 DEF m
<1> HIDE DEF one
<1>11. one \o rest = seen \o all
  <2>1. Len(seen) = m
    BY DEF m
  <2>2. one \o rest \in Seq(Nat) /\ Len(one \o rest) = m + 1 + (l - 1)
        /\ \A i \in 1..(m + 1 + (l - 1)) : (one \o rest)[i] = IF i <= m + 1 THEN one[i] ELSE rest[i - (m + 1)]
    <3> DEFINE k == m + 1
               j == l - 1
    <3> HIDE DEF k, j
    <3>1. Len(one) = k /\ Len(rest) = j
      BY Zenon, <1>8, <1>10 DEF k, j
    <3>2. one \o rest \in Seq(Nat) /\ Len(one \o rest) = k + j
          /\ \A i \in 1..(k + j) : (one \o rest)[i] = IF i <= k THEN one[i] ELSE rest[i - k]
      BY Zenon, <3>1, <1>8, <1>10, Concat
    <3> QED BY Zenon, <3>2 DEF k, j
  <2>3. seen \o all \in Seq(Nat) /\ Len(seen \o all) = m + l
        /\ \A i \in 1..(m + l) : (seen \o all)[i] = IF i <= m THEN seen[i] ELSE all[i - m]
    BY Zenon, <2>1, <1>8, Concat
  <2>4. m + 1 + (l - 1) = m + l
    BY <1>1
  <2>5. ASSUME NEW i \in 1..(m + l) PROVE (one \o rest)[i] = (seen \o all)[i]
    <3>1. CASE i <= m
      <4>1. i <= m + 1 /\ i \in 1..m
        BY <3>1, <1>1
      <4> QED BY Zenon, <3>1, <4>1, <2>2, <2>3, <2>4, <1>10
    <3>2. CASE i = m + 1
      <4>1. i <= m + 1 /\ ~(i <= m) /\ i - m = 1
        BY <3>2, <1>1
      <4> QED BY Zenon, <3>2, <4>1, <2>2, <2>3, <2>4, <1>9, <1>10
    <3>3. CASE i > m + 1
      <4> DEFINE k == i - (m + 1)
      <4>1. k \in 1..(l - 1) /\ k + 1 = i - m /\ ~(i <= m + 1) /\ ~(i <= m)
        BY <3>3, <1>1
      <4>2. (one \o rest)[i] = rest[k]
        BY Zenon, <4>1, <2>2, <2>4
      <4>3. (seen \o all)[i] = all[k + 1]
        BY Zenon, <4>1, <2>3
      <4> QED BY Zenon, <4>1, <4>2, <4>3, <1>9
    <3>4. i <= m \/ i = m + 1 \/ i > m + 1
      BY <1>1
    <3> QED BY Zenon, <3>1, <3>2, <3>3, <3>4
  <2> DEFINE u == one \o rest
             t == seen \o all
  <2>6. u \in Seq(Nat) /\ t \in Seq(Nat) /\ Len(u) = Len(t) /\ \A i \in 1..Len(u) : u[i] = t[i]
    BY Zenon, <2>2, <2>3, <2>4, <2>5
  <2> HIDE DEF u, t
  <2>7. u = t
    BY Zenon, <2>6, SameSequence
  <2> QED BY Zenon, <2>7 DEF u, t
<1> QED BY Zenon, <1>2, <1>5, <1>6, <1>7, <1>10, <1>11 DEF x, one

\* The rest of the step when the source is not asked: only what has been read, the
\* graph and the rows are left to look at.
LEMMA Onwards ==
    ASSUME PipelineInv, UNCHANGED <<run, visited>>, SoFarOK', op'.cursor = op.cursor,
           op'.inner = op.inner, op'.side = op.side, op'.buffer \in Seq(RowsOver(g0)),
           op' = [cursor |-> op'.cursor, inner |-> op'.inner, side |-> op'.side, right |-> op'.right,
                  cur |-> op'.cur, pending |-> op'.pending, buffer |-> op'.buffer],
           op.side = "unread" => op'.pending = <<>> /\ op'.buffer = <<>>
    PROVE  InputOK' /\ OpOK(op)' /\ ScanOK' /\ stmt' = stmt /\ g0' = g0
<1>1. InputOK' /\ stmt' = stmt /\ g0' = g0
  BY SameInput DEF PipelineInv
<1>2. visited' = visited
  OBVIOUS
<1>3. OpOK(op)'
  BY Zenon, <1>1 DEF PipelineInv, OpOK
<1>4. ScanOK'
  BY Zenon, <1>1, <1>2 DEF PipelineInv, ScanOK, SourceIds
<1> QED BY Zenon, <1>1, <1>3, <1>4

\* A statement that fails leaves the graph it began on and no rows.
LEMMA Fails ==
    ASSUME PipelineInv, NEW why \in {"scan", "refused", "cap"}, Fail(why), UNCHANGED <<op, visited>>
    PROVE  PipelineInv'
<1>1. status' = why /\ graph' = g0 /\ rows' = <<>> /\ stmt' = stmt /\ g0' = g0 /\ passed' = passed /\ op' = op
  BY DEF Fail, run
<1>2. UNCHANGED <<run, visited>>
  BY DEF Fail
<1>3. StatementOK(stmt) /\ GraphOK(g0) /\ passed \in Nat
  BY Zenon DEF PipelineInv, InputOK, SoFarOK
<1>4. g0.next \in Nat /\ stmt.limit \in Nat
  BY Zenon, <1>3 DEF GraphOK, StatementOK
<1>5. g0.next <= g0.next /\ <<>> \in Seq(RowsOver(g0)) /\ Len(<<>>) <= stmt.limit
  BY <1>4
<1>6. SoFarOK'
  BY Zenon, <1>1, <1>3, <1>5 DEF SoFarOK
<1>7. OpOK(op)
  BY Zenon DEF PipelineInv
<1>8. InputOK' /\ OpOK(op)' /\ ScanOK'
  BY Zenon, <1>1, <1>2, <1>6, <1>7, Onwards DEF OpOK
<1>9. status' # "running" /\ status' # "ok" /\ status' \in {"running", "ok", "scan", "refused", "cap"}
  BY <1>1
<1> QED BY Zenon, <1>6, <1>8, <1>9 DEF PipelineInv

\* A row read: the current row of the source with a node it is joined with.
LEMMA ReadRow ==
    ASSUME PipelineInv, status = "running", op.pending # <<>>, Readable(Head(op.pending))
    PROVE  Row(op.cur, Target(Head(op.pending))) \in RowsOver(graph)
<1> DEFINE b == Head(op.pending)
           X == Bindings(graph)
           s == op.pending
<1>1. GraphOK(graph) /\ op.cur \in X /\ s \in Seq(X)
  BY Zenon DEF PipelineInv, SoFarOK, ReadOK
<1>2. b \in X
  <2> HIDE DEF X
  <2> QED BY <1>1
<1> HIDE DEF s, b
<1>3. Target(b) \in X
  BY Zenon, <1>1, <1>2, Bound DEF Target, Readable, Exists, b
<1>4. ASSUME NEW x \in X, NEW y \in X PROVE Row(x, y) \in RowsOver(graph)
  BY DEF Row, RowsOver
<1> QED BY Zenon, <1>1, <1>3, <1>4 DEF b

\* A row is taken from what the current row of the source is joined with.
LEMMA RowKeeps ==
    ASSUME PipelineInv, NextRow
    PROVE  PipelineInv'
<1> DEFINE b == Head(op.pending)
           row == Row(op.cur, Target(b))
           rest == [op EXCEPT !.pending = Tail(@)]
<1>1. Running /\ op.pending # <<>> /\ UNCHANGED visited
  BY Zenon DEF NextRow
<1>2. \/ Fail("refused") /\ UNCHANGED op
      \/ Readable(b) /\ Streaming /\ op' = rest /\ Deliver(row)
      \/ /\ Readable(b) /\ ~Streaming
         /\ op' = [rest EXCEPT !.buffer = Append(@, row)]
         /\ UNCHANGED <<run, graph, passed, rows, status, outcomes>>
  BY Zenon DEF NextRow
<1>3. InputOK /\ SoFarOK /\ OpOK(op) /\ status = "running" /\ ReadOK(graph, op) /\ (Untouched(op) => graph = g0)
  BY Zenon, <1>1 DEF PipelineInv, Running
<1>4. GraphOK(graph) /\ GraphOK(g0) /\ g0.next <= graph.next
  BY Zenon, <1>3 DEF InputOK, SoFarOK
<1>5. op.cur \in Bindings(graph) /\ op.pending \in Seq(Bindings(graph)) /\ op.right \in Seq(Bindings(graph))
  BY Zenon, <1>3 DEF ReadOK
<1>6. b \in Bindings(graph) /\ Tail(op.pending) \in Seq(Bindings(graph))
  <2> DEFINE X == Bindings(graph)
             s == op.pending
  <2>1. s \in Seq(X) /\ s # <<>>
    BY Zenon, <1>1, <1>5
  <2> HIDE DEF X, s
  <2>2. Head(s) \in X /\ Tail(s) \in Seq(X)
    BY <2>1
  <2> QED BY Zenon, <2>2 DEF X, s
<1>7. op = [cursor |-> op.cursor, inner |-> op.inner, side |-> op.side, right |-> op.right,
            cur |-> op.cur, pending |-> op.pending, buffer |-> op.buffer]
      /\ op.side \in {"unread", "read"} /\ op.buffer \in Seq(RowsOver(g0)) /\ op.side # "unread"
  BY Zenon, <1>1, <1>3 DEF OpOK
<1>8. CASE Fail("refused") /\ UNCHANGED op
  <2>1. "refused" \in {"scan", "refused", "cap"}
    OBVIOUS
  <2>2. UNCHANGED <<op, visited>>
    BY <1>1, <1>8
  <2> QED BY Zenon, <1>8, <2>1, <2>2, Fails
<1>9. Readable(b) => row \in RowsOver(graph)
  BY Zenon, <1>1, <1>3, ReadRow
<1> HIDE DEF row, b
<1>10. CASE Readable(b) /\ Streaming /\ op' = rest /\ Deliver(row)
  <2>1. UNCHANGED <<run, outcomes>> /\ SoFarOK' /\ status' \in {"running", "refused", "cap"}
        /\ (status' = "running" => graph.next <= graph'.next)
    BY Zenon, <1>3, <1>9, <1>10, Delivers
  <2>2. op' = [cursor |-> op.cursor, inner |-> op.inner, side |-> op.side, right |-> op.right,
               cur |-> op.cur, pending |-> Tail(op.pending), buffer |-> op.buffer]
    BY Zenon, <1>7, <1>10
  <2>3. op'.cursor = op.cursor /\ op'.inner = op.inner /\ op'.side = op.side /\ op'.right = op.right
        /\ op'.cur = op.cur /\ op'.pending = Tail(op.pending) /\ op'.buffer = op.buffer
    BY <2>2
  <2>4. UNCHANGED <<run, visited>>
    BY <1>1, <2>1
  <2>5. InputOK' /\ OpOK(op)' /\ ScanOK' /\ stmt' = stmt /\ g0' = g0
    BY Zenon, <2>1, <2>2, <2>3, <2>4, <1>7, Onwards
  <2>6. ASSUME status' = "running" PROVE ReadOK(graph, op)'
    <3>1. Bindings(graph) \subseteq Bindings(graph') /\ Seq(Bindings(graph)) \subseteq Seq(Bindings(graph'))
      <4>1. GraphOK(graph')
        BY Zenon, <2>1 DEF SoFarOK
      <4> QED BY Zenon, <4>1, <2>1, <2>6, <1>4, Grown
    <3> QED BY Zenon, <3>1, <2>3, <1>5, <1>6 DEF ReadOK
  <2>7. ~Untouched(op)'
    <3>1. op'.side # "unread" /\ Streaming'
      BY Zenon, <2>3, <2>5, <1>7, <1>10 DEF Streaming
    <3> QED BY Zenon, <3>1 DEF Untouched
  <2>8. status' # "ok" /\ status' \in {"running", "ok", "scan", "refused", "cap"}
    BY <2>1
  <2> QED BY Zenon, <2>1, <2>5, <2>6, <2>7, <2>8 DEF PipelineInv
<1>11. CASE /\ Readable(b) /\ ~Streaming
            /\ op' = [rest EXCEPT !.buffer = Append(@, row)]
            /\ UNCHANGED <<run, graph, passed, rows, status, outcomes>>
  <2>1. graph' = graph /\ passed' = passed /\ rows' = rows /\ status' = status /\ stmt' = stmt /\ g0' = g0
    BY <1>11 DEF run
  <2>2. op' = [cursor |-> op.cursor, inner |-> op.inner, side |-> op.side, right |-> op.right,
               cur |-> op.cur, pending |-> Tail(op.pending), buffer |-> Append(op.buffer, row)]
    BY Zenon, <1>7, <1>11
  <2>3. op'.cursor = op.cursor /\ op'.inner = op.inner /\ op'.side = op.side /\ op'.right = op.right
        /\ op'.cur = op.cur /\ op'.pending = Tail(op.pending) /\ op'.buffer = Append(op.buffer, row)
    BY <2>2
  <2>4. UNCHANGED <<run, visited>>
    BY <1>1, <1>11
  <2>5. SoFarOK'
    BY Zenon, <2>1, <1>3 DEF SoFarOK
  <2>6. graph = g0
    BY Zenon, <1>1, <1>3, <1>11 DEF Untouched
  <2>7. Append(op.buffer, row) \in Seq(RowsOver(g0))
    <3> DEFINE X == RowsOver(g0)
               s == op.buffer
    <3>1. s \in Seq(X) /\ row \in X
      BY Zenon, <2>6, <1>7, <1>9, <1>11
    <3> HIDE DEF X, s
    <3>2. Append(s, row) \in Seq(X)
      BY <3>1
    <3> QED BY Zenon, <3>2 DEF X, s
  <2>8. InputOK' /\ OpOK(op)' /\ ScanOK'
    BY Zenon, <2>2, <2>3, <2>4, <2>5, <2>7, <1>7, Onwards
  <2>9. ReadOK(graph, op)'
    BY Zenon, <2>1, <2>3, <1>5, <1>6 DEF ReadOK
  <2>10. status' = "running" /\ graph' = g0'
    BY Zenon, <2>1, <2>6, <1>3
  <2>11. status' # "ok" /\ status' \in {"running", "ok", "scan", "refused", "cap"}
    BY <2>10
  <2> QED BY Zenon, <2>5, <2>8, <2>9, <2>10, <2>11 DEF PipelineInv
<1> QED BY Zenon, <1>2, <1>8, <1>10, <1>11

\* The source returns its next node, which is joined with what the graph has now.
LEMMA SourceKeeps ==
    ASSUME PipelineInv, NextSource
    PROVE  PipelineInv'
<1> DEFINE x == Head(op.cursor)
           joined == NullExtended(Joined(SourceNode, RightSide))
<1>1. Running /\ op.cursor # <<>>
  BY Zenon DEF NextSource, Source
<1>2. \/ Fail("scan") /\ UNCHANGED <<op, visited>>
      \/ /\ stmt.source = "label" => Exists(graph, x.id)
         /\ op' = [op EXCEPT !.cursor = Tail(op.cursor), !.cur = SourceNode,
                             !.side = "read", !.right = RightSide, !.pending = joined]
         /\ visited' = Append(visited, x.id)
         /\ UNCHANGED <<run, graph, passed, rows, status, outcomes>>
  BY Zenon DEF NextSource, Source
<1>3. InputOK /\ SoFarOK /\ OpOK(op) /\ ScanOK /\ status = "running" /\ ReadOK(graph, op) /\ (Untouched(op) => graph = g0)
  BY Zenon, <1>1 DEF PipelineInv, Running
<1>4. GraphOK(graph) /\ GraphOK(g0) /\ g0.next <= graph.next /\ StatementOK(stmt)
  BY Zenon, <1>3 DEF InputOK, SoFarOK
<1>5. op = [cursor |-> op.cursor, inner |-> op.inner, side |-> op.side, right |-> op.right,
            cur |-> op.cur, pending |-> op.pending, buffer |-> op.buffer]
      /\ op.cursor \in Seq(Bindings(g0)) /\ op.inner \in Seq(DOMAIN g0.rec) /\ op.side \in {"unread", "read"}
      /\ op.buffer \in Seq(RowsOver(g0))
  BY Zenon, <1>3 DEF OpOK
<1>6. visited \in Seq(Nat) /\ visited \o IdsIn(op.cursor) = SourceIds(g0)
  BY Zenon, <1>3 DEF ScanOK
<1>7. \A bi \in Bindings(g0) : bi.id \in Nat
  <2>1. g0.next \in Nat
    BY Zenon, <1>4 DEF GraphOK
  <2> QED BY <2>1 DEF Bindings
<1>8. /\ Append(visited, x.id) \in Seq(Nat) /\ Tail(op.cursor) \in Seq(Bindings(g0)) /\ x \in Bindings(g0)
      /\ Append(visited, x.id) \o IdsIn(Tail(op.cursor)) = visited \o IdsIn(op.cursor)
  BY Zenon, <1>1, <1>5, <1>6, <1>7, Moved
<1>9. CASE Fail("scan") /\ UNCHANGED <<op, visited>>
  <2>1. "scan" \in {"scan", "refused", "cap"}
    OBVIOUS
  <2> QED BY Zenon, <1>9, <2>1, Fails
<1>10. CASE /\ stmt.source = "label" => Exists(graph, x.id)
            /\ op' = [op EXCEPT !.cursor = Tail(op.cursor), !.cur = SourceNode,
                                !.side = "read", !.right = RightSide, !.pending = joined]
            /\ visited' = Append(visited, x.id)
            /\ UNCHANGED <<run, graph, passed, rows, status, outcomes>>
  <2>1. graph' = graph /\ passed' = passed /\ rows' = rows /\ status' = status
    BY <1>10
  <2>2. InputOK' /\ stmt' = stmt /\ g0' = g0
    <3>1. UNCHANGED run
      BY <1>10
    <3> QED BY Zenon, <3>1, <1>3, SameInput
  <2>3. x \in Bindings(graph)
    BY Zenon, <1>4, <1>8, Grown
  <2>4. SourceNode \in Bindings(graph)
    <3>1. CASE stmt.source = "all"
      BY Zenon, <3>1, <2>3 DEF SourceNode, Source
    <3>2. CASE stmt.source # "all"
      <4>1. stmt.source = "label"
        BY Zenon, <3>2, <1>4 DEF StatementOK
      <4>2. x.id \in DOMAIN graph.rec
        BY Zenon, <4>1, <1>10 DEF Exists
      <4>3. SourceNode = Bind(graph, x.id)
        BY Zenon, <3>2 DEF SourceNode, Source
      <4> QED BY Zenon, <4>2, <4>3, <1>4, Bound
    <3> QED BY Zenon, <3>1, <3>2
  <2>5. RightSide \in Seq(Bindings(graph))
    <3>1. CASE op.side = "read"
      BY Zenon, <3>1, <1>3 DEF RightSide, ReadOK
    <3>2. CASE op.side # "read"
      <4>1. graph = g0
        BY Zenon, <3>2, <1>3, <1>5 DEF Untouched
      <4>2. Binds(g0, op.inner) \in Seq(Bindings(g0))
        BY Zenon, <1>4, <1>5, BoundAll
      <4> QED BY Zenon, <3>2, <4>1, <4>2 DEF RightSide
    <3> QED BY Zenon, <3>1, <3>2
  <2>6. joined \in Seq(Bindings(graph))
    BY Zenon, <2>5, <1>4, JoinedIn
  <2> HIDE DEF joined, x
  <2>7. op' = [cursor |-> Tail(op.cursor), inner |-> op.inner, side |-> "read", right |-> RightSide,
               cur |-> SourceNode, pending |-> joined, buffer |-> op.buffer]
    BY Zenon, <1>5, <1>10
  <2>8. op'.cursor = Tail(op.cursor) /\ op'.inner = op.inner /\ op'.side = "read" /\ op'.right = RightSide
        /\ op'.cur = SourceNode /\ op'.pending = joined /\ op'.buffer = op.buffer
    BY <2>7
  <2>9. SoFarOK'
    BY Zenon, <2>1, <2>2, <1>3 DEF SoFarOK
  <2>10. "read" # "unread" /\ "read" \in {"unread", "read"}
    OBVIOUS
  <2>11. OpOK(op)'
    BY Zenon, <2>2, <2>7, <2>8, <2>10, <1>5, <1>8 DEF OpOK
  <2>12. ScanOK'
    BY Zenon, <2>2, <2>8, <1>6, <1>8, <1>10 DEF ScanOK, SourceIds
  <2>13. ReadOK(graph, op)'
    BY Zenon, <2>1, <2>4, <2>5, <2>6, <2>8 DEF ReadOK
  <2>14. Untouched(op)' => graph' = g0'
    BY Zenon, <2>1, <2>2, <2>8, <2>10, <1>1, <1>3 DEF Untouched, Streaming
  <2>15. status' # "ok" /\ status' \in {"running", "ok", "scan", "refused", "cap"}
    BY <2>1, <1>3
  <2> QED BY Zenon, <2>2, <2>9, <2>11, <2>12, <2>13, <2>14, <2>15 DEF PipelineInv
<1> QED BY Zenon, <1>2, <1>9, <1>10

\* A barrier hands on the rows it holds once it has read them all.
LEMMA SortedKeeps ==
    ASSUME PipelineInv, NextSorted
    PROVE  PipelineInv'
<1> DEFINE row == Head(op.buffer)
<1>1. Running /\ ~Streaming /\ op.pending = <<>> /\ op.cursor = <<>> /\ op.buffer # <<>>
  BY Zenon DEF NextSorted, Exhausted, Source
<1>2. op' = [op EXCEPT !.buffer = Tail(@)] /\ Deliver(row) /\ UNCHANGED visited
  BY Zenon DEF NextSorted
<1>3. InputOK /\ SoFarOK /\ OpOK(op) /\ status = "running" /\ ReadOK(graph, op)
  BY Zenon, <1>1 DEF PipelineInv, Running
<1>4. GraphOK(graph) /\ GraphOK(g0) /\ g0.next <= graph.next
  BY Zenon, <1>3 DEF InputOK, SoFarOK
<1>5. op = [cursor |-> op.cursor, inner |-> op.inner, side |-> op.side, right |-> op.right,
            cur |-> op.cur, pending |-> op.pending, buffer |-> op.buffer]
      /\ op.side # "unread" /\ op.buffer \in Seq(RowsOver(g0))
  BY Zenon, <1>1, <1>3 DEF OpOK
<1>6. row \in RowsOver(g0) /\ Tail(op.buffer) \in Seq(RowsOver(g0))
  <2> DEFINE X == RowsOver(g0)
             s == op.buffer
  <2>1. s \in Seq(X) /\ s # <<>>
    BY Zenon, <1>1, <1>5
  <2> HIDE DEF X, s
  <2>2. Head(s) \in X /\ Tail(s) \in Seq(X)
    BY <2>1
  <2> QED BY Zenon, <2>2 DEF X, s
<1>7. row \in RowsOver(graph)
  BY Zenon, <1>4, <1>6, Grown
<1>8. UNCHANGED <<run, outcomes>> /\ SoFarOK' /\ status' \in {"running", "refused", "cap"}
      /\ (status' = "running" => graph.next <= graph'.next)
  BY Zenon, <1>2, <1>3, <1>7, Delivers
<1>9. op' = [cursor |-> op.cursor, inner |-> op.inner, side |-> op.side, right |-> op.right,
             cur |-> op.cur, pending |-> op.pending, buffer |-> Tail(op.buffer)]
  BY Zenon, <1>2, <1>5
<1>10. op'.cursor = op.cursor /\ op'.inner = op.inner /\ op'.side = op.side /\ op'.right = op.right
       /\ op'.cur = op.cur /\ op'.pending = op.pending /\ op'.buffer = Tail(op.buffer)
  BY <1>9
<1>11. UNCHANGED <<run, visited>>
  BY <1>2, <1>8
<1>12. InputOK' /\ OpOK(op)' /\ ScanOK' /\ stmt' = stmt /\ g0' = g0
  BY Zenon, <1>5, <1>6, <1>8, <1>9, <1>10, <1>11, Onwards
<1>13. ASSUME status' = "running" PROVE ReadOK(graph, op)'
  <2>1. GraphOK(graph')
    BY Zenon, <1>8 DEF SoFarOK
  <2>2. Bindings(graph) \subseteq Bindings(graph') /\ Seq(Bindings(graph)) \subseteq Seq(Bindings(graph'))
    BY Zenon, <2>1, <1>4, <1>8, <1>13, Grown
  <2> QED BY Zenon, <2>2, <1>3, <1>10 DEF ReadOK
<1>14. ~Untouched(op)'
  <2>1. op'.side # "unread" /\ op'.cursor = <<>> /\ op'.pending = <<>>
    BY Zenon, <1>1, <1>5, <1>10
  <2> QED BY Zenon, <2>1 DEF Untouched
<1>15. status' # "ok" /\ status' \in {"running", "ok", "scan", "refused", "cap"}
  BY <1>8
<1> QED BY Zenon, <1>8, <1>12, <1>13, <1>14, <1>15 DEF PipelineInv

\* The statement ends: the source is done unless LIMIT has its rows.
LEMMA FinishKeeps ==
    ASSUME PipelineInv, Finish
    PROVE  PipelineInv'
<1>1. status' = "ok" /\ UNCHANGED <<run, graph, op, visited, passed, rows, outcomes>>
  BY Zenon DEF Finish
<1>2. graph' = graph /\ op' = op /\ visited' = visited /\ passed' = passed /\ rows' = rows
      /\ stmt' = stmt /\ g0' = g0 /\ setting' = setting /\ todo' = todo
  BY <1>1 DEF run
<1>3. op.cursor = <<>> \/ AtLimit
  BY Zenon DEF Finish, Exhausted, Source
<1>4. InputOK' /\ SoFarOK' /\ OpOK(op)' /\ ScanOK'
  BY Zenon, <1>2 DEF PipelineInv, InputOK, SoFarOK, OpOK, ScanOK, SourceIds
<1>5. AtLimit' <=> AtLimit
  BY Zenon, <1>2 DEF AtLimit
<1>6. status' # "running" /\ status' \in {"running", "ok", "scan", "refused", "cap"}
  BY <1>1
<1> QED BY Zenon, <1>2, <1>3, <1>4, <1>5, <1>6 DEF PipelineInv

\* The operators as they are built.
LEMMA Built ==
    ASSUME GraphOK(g0), StatementOK(stmt)
    PROVE  /\ OpOK(Build(g0)) /\ ReadOK(g0, Build(g0)) /\ Build(g0).side = "unread"
           /\ <<>> \o IdsIn(Build(g0).cursor) = SourceIds(g0)
<1> DEFINE c == Binds(g0, SourceIds(g0))
           i == NodesByLabel(g0)
           B == Build(g0)
<1>1. c \in Seq(Bindings(g0)) /\ IdsIn(c) = SourceIds(g0) /\ i \in Seq(DOMAIN g0.rec) /\ SourceIds(g0) \in Seq(DOMAIN g0.rec)
  BY Zenon, Listed, BoundAll
<1>2. B = [cursor |-> c, inner |-> i, side |-> "unread", right |-> <<>>, cur |-> Null, pending |-> <<>>, buffer |-> <<>>]
  BY Zenon DEF Build
<1> HIDE DEF c, i, B
<1>3. B.cursor = c /\ B.inner = i /\ B.side = "unread" /\ B.right = <<>> /\ B.cur = Null /\ B.pending = <<>> /\ B.buffer = <<>>
  BY <1>2
<1>4. <<>> \in Seq(Bindings(g0)) /\ <<>> \in Seq(RowsOver(g0)) /\ "unread" \in {"unread", "read"}
  OBVIOUS
<1>5. OpOK(B)
  BY Zenon, <1>1, <1>2, <1>3, <1>4 DEF OpOK
<1>6. ReadOK(g0, B)
  BY Zenon, <1>3, <1>4, Bound DEF ReadOK
<1>7. <<>> \o SourceIds(g0) = SourceIds(g0)
  BY <1>1
<1> QED BY Zenon, <1>1, <1>3, <1>5, <1>6, <1>7 DEF B

\* A run begins with the graph as it is given, nothing read and nothing written.
LEMMA Begins ==
    ASSUME InputOK, graph = g0, op = Build(g0), visited = <<>>, passed = 0, rows = <<>>, status = "running"
    PROVE  PipelineInv
<1>1. GraphOK(g0) /\ StatementOK(stmt)
  BY Zenon DEF InputOK
<1>2. g0.next \in Nat /\ stmt.limit \in Nat
  BY Zenon, <1>1 DEF GraphOK, StatementOK
<1>3. g0.next <= g0.next /\ <<>> \in Seq(RowsOver(g0)) /\ Len(<<>>) <= stmt.limit /\ 0 \in Nat /\ <<>> \in Seq(Nat)
  BY <1>2
<1>4. SoFarOK
  BY Zenon, <1>1, <1>3 DEF SoFarOK
<1>5. ScanOK /\ OpOK(op) /\ ReadOK(graph, op)
  BY Zenon, <1>1, <1>3, Built DEF ScanOK
<1>6. status # "ok" /\ status \in {"running", "ok", "scan", "refused", "cap"}
  OBVIOUS
<1> QED BY Zenon, <1>4, <1>5, <1>6 DEF PipelineInv

\* The other setting is tried on the graph the statement began on.
LEMMA AgainKeeps ==
    ASSUME PipelineInv, RunAgain
    PROVE  PipelineInv'
<1>1. stmt' = stmt /\ g0' = g0 /\ setting' = Head(todo) /\ todo' = Tail(todo) /\ todo # <<>>
  BY DEF RunAgain
<1>2. InputOK
  BY Zenon DEF PipelineInv
<1>3. Head(todo) \in Setting /\ Tail(todo) \in Seq(Setting)
  <2>1. todo \in Seq(Setting)
    BY Zenon, <1>2 DEF InputOK
  <2> QED BY <1>1, <2>1
<1>4. InputOK'
  BY Zenon, <1>1, <1>2, <1>3 DEF InputOK
<1>5. graph' = g0 /\ op' = Build(g0) /\ visited' = <<>> /\ passed' = 0 /\ rows' = <<>> /\ status' = "running"
  BY Zenon DEF RunAgain
<1>6. GraphOK(g0) /\ StatementOK(stmt)
  BY Zenon, <1>2 DEF InputOK
<1>7. g0.next \in Nat /\ stmt.limit \in Nat
  BY Zenon, <1>6 DEF GraphOK, StatementOK
<1>8. g0.next <= g0.next /\ <<>> \in Seq(RowsOver(g0)) /\ Len(<<>>) <= stmt.limit /\ 0 \in Nat /\ <<>> \in Seq(Nat)
  BY <1>7
<1>9. SoFarOK'
  BY Zenon, <1>1, <1>5, <1>6, <1>8 DEF SoFarOK
<1>10. OpOK(Build(g0)) /\ ReadOK(g0, Build(g0)) /\ <<>> \o IdsIn(Build(g0).cursor) = SourceIds(g0)
  BY Zenon, <1>6, Built
<1>11. OpOK(op)'
  BY Zenon, <1>1, <1>5, <1>10 DEF OpOK
<1>12. ReadOK(graph, op)'
  BY Zenon, <1>5, <1>10
<1>13. ScanOK'
  BY Zenon, <1>1, <1>5, <1>8, <1>10 DEF ScanOK, SourceIds
<1>14. status' # "ok" /\ status' \in {"running", "ok", "scan", "refused", "cap"}
  BY <1>5
<1>15. graph' = g0'
  BY Zenon, <1>1, <1>5
<1> QED BY Zenon, <1>4, <1>9, <1>11, <1>12, <1>13, <1>14, <1>15 DEF PipelineInv

\* The invariant holds of every behaviour of a statement.
LEMMA PipelineKeeps ==
    Spec => []PipelineInv
<1>1. ASSUME Init PROVE PipelineInv
  <2>1. PICK c \in Cases : /\ stmt \in c.statements /\ g0 \in c.graphs
                           /\ \E p \in c.settings : setting = p[1] /\ todo = Tail(p)
    BY Zenon, <1>1 DEF Init
  <2>2. PICK p \in c.settings : setting = p[1] /\ todo = Tail(p)
    BY Zenon, <2>1
  <2>3. StatementOK(stmt) /\ GraphOK(g0) /\ p \in Seq(Setting) /\ p # <<>>
    BY Zenon, <2>1, CasesAssumption
  <2>4. setting \in Setting /\ todo \in Seq(Setting)
    BY <2>2, <2>3
  <2>5. InputOK
    BY Zenon, <2>3, <2>4 DEF InputOK
  <2> QED BY Zenon, <2>5, <1>1, Begins DEF Init
<1>2. ASSUME PipelineInv, [Next]_vars PROVE PipelineInv'
  <2>1. CASE UNCHANGED vars
    <3>1. graph' = graph /\ op' = op /\ visited' = visited /\ passed' = passed /\ rows' = rows /\ status' = status
          /\ stmt' = stmt /\ g0' = g0 /\ setting' = setting /\ todo' = todo
      BY <2>1 DEF vars, run
    <3> QED BY Zenon, <3>1, <1>2 DEF PipelineInv, InputOK, SoFarOK, OpOK, ScanOK, SourceIds, AtLimit, Untouched, Streaming
  <2> QED BY Zenon, <2>1, <1>2, SourceKeeps, RowKeeps, SortedKeeps, FinishKeeps, AgainKeeps DEF Next
<1> QED BY <1>1, <1>2, PTL DEF Spec

\* A scan has returned the nodes that were there when it was opened, in the order
\* of their identifiers and each once, up to where it is, and all of them when the
\* statement ends without LIMIT having stopped it (NodeCursor); every binding is of
\* a node handed out, and the edges join nodes of the graph (DetachDeleteNode).
THEOREM ScansKept ==
    Spec => []ScansExact
<1>1. ASSUME PipelineInv PROVE ScansExact
  <2>1. SoFarOK /\ OpOK(op) /\ ScanOK /\ GraphOK(g0) /\ StatementOK(stmt)
    BY Zenon, <1>1 DEF PipelineInv, InputOK
  <2>2. Binding = Bindings(graph) /\ [a : Binding, b : Binding] = RowsOver(graph)
    BY Zenon DEF Binding, Bindings, RowsOver
  <2>3. op.buffer \in Seq(RowsOver(graph))
    BY Zenon, <2>1, Grown DEF OpOK, SoFarOK
  <2>4. TypeOK
    BY Zenon, <1>1, <2>1, <2>2, <2>3 DEF TypeOK, PipelineInv, SoFarOK
  <2> DEFINE ids == IdsIn(op.cursor)
             s == SourceIds(g0)
  <2>5. ids \in Seq(Nat) /\ (op.cursor = <<>> => ids = <<>>)
    <3>1. op.cursor \in Seq(Bindings(g0)) /\ g0.next \in Nat
      BY Zenon, <2>1 DEF OpOK, GraphOK
    <3>2. \A bi \in Bindings(g0) : bi.id \in Nat
      BY <3>1 DEF Bindings
    <3> DEFINE X == Bindings(g0)
               bs == op.cursor
               id(i) == bs[i].id
    <3> HIDE DEF X, bs
    <3>3. bs \in Seq(X)
      BY Zenon, <3>1 DEF X, bs
    <3>4. DOMAIN bs = 1..Len(bs) /\ Len(bs) \in Nat /\ \A i \in 1..Len(bs) : bs[i] \in X
      BY <3>3
    <3>5. \A i \in 1..Len(bs) : id(i) \in Nat
      BY Zenon, <3>2, <3>4 DEF X
    <3>6. IdsIn(bs) = [i \in 1..Len(bs) |-> id(i)]
      BY Zenon, <3>4 DEF IdsIn
    <3> HIDE DEF id
    <3>7. IdsIn(bs) \in Seq(Nat) /\ (bs = <<>> => IdsIn(bs) = <<>>)
      BY <3>4, <3>5, <3>6
    <3> QED BY Zenon, <3>7 DEF bs
  <2>6. visited \in Seq(Nat) /\ visited \o ids = s
    BY Zenon, <2>1 DEF ScanOK
  <2> HIDE DEF ids, s
  <2>7. DOMAIN visited = 1..Len(visited) /\ Len(visited) <= Len(s) /\ \A i \in 1..Len(visited) : visited[i] = s[i]
    BY <2>5, <2>6
  <2>8. ids = <<>> => visited = s
    BY <2>6
  <2>9. status = "ok" /\ ~AtLimit => visited = s
    BY Zenon, <2>5, <2>8, <1>1 DEF PipelineInv
  <2>10. EachNodeOnce
    BY Zenon, <2>7, <2>9 DEF EachNodeOnce, s
  <2> QED BY Zenon, <2>4, <2>10 DEF ScansExact
<1> QED BY <1>1, PipelineKeeps, PTL

-----------------------------------------------------------------------------
(* MERGE.                                                                   *)

\* A created node adds to the nodes with its value, and to no others.
LEMMA MarkedThen ==
    ASSUME NEW g, GraphOK(g), NEW v \in Nat, NEW u
    PROVE  /\ u = v => Marked(CreateNode(g, v), u) = Marked(g, v) \cup {g.next}
           /\ u # v => Marked(CreateNode(g, v), u) = Marked(g, u)
           /\ g.next \in DOMAIN CreateNode(g, v).rec
<1> DEFINE d == DOMAIN g.rec
           k == g.next
           h == CreateNode(g, v)
<1>1. k \notin d
  <2>1. k \in Nat /\ d \subseteq 1..(k - 1)
    BY Zenon DEF GraphOK
  <2> HIDE DEF k, d
  <2> QED BY <2>1
<1>2. h.rec = [n \in d \cup {k} |-> IF n = k THEN Rec(1, v) ELSE g.rec[n]]
  BY DEF CreateNode
<1>3. Rec(1, v).l = 1 /\ Rec(1, v).v = v
  BY DEF Rec
<1> HIDE DEF h
<1>4. DOMAIN h.rec = d \cup {k} /\ h.rec[k] = Rec(1, v) /\ \A n \in d : h.rec[n] = g.rec[n]
  BY Zenon, <1>1, <1>2
<1> DEFINE P(n) == h.rec[n].l = 1 /\ h.rec[n].v = u
           Q(n) == g.rec[n].l = 1 /\ g.rec[n].v = u
<1>5. (P(k) <=> u = v) /\ \A n \in d : P(n) <=> Q(n)
  BY Zenon, <1>3, <1>4
<1>6. Marked(h, u) = {n \in d \cup {k} : P(n)} /\ Marked(g, u) = {n \in d : Q(n)}
  BY Zenon, <1>4 DEF Marked
<1> HIDE DEF P, Q, d, k
<1>7. /\ u = v => Marked(h, u) = Marked(g, u) \cup {k}
      /\ u # v => Marked(h, u) = Marked(g, u)
  BY <1>5, <1>6
<1> QED BY Zenon, <1>4, <1>7 DEF h, k

\* MERGE's matches are the labelled nodes with the value.
LEMMA Matching ==
    ASSUME GraphOK(graph), NEW v \in Nat, v # 0
    PROVE  MergeMatches(v) = <<>> <=> Marked(graph, v) = {}
<1> DEFINE S == Marked(graph, v)
           s == Ids(graph, S)
<1>1. S \subseteq DOMAIN graph.rec
  BY Zenon DEF Marked
<1>2. {n \in DOMAIN graph.rec : graph.rec[n].l = 1 /\ v # 0 /\ graph.rec[n].v = v} = S
  BY Zenon DEF Marked
<1>3. MergeMatches(v) = s
  BY Zenon, <1>2 DEF MergeMatches, NodesByProperty
<1> HIDE DEF S
<1>4. s \in Seq(S) /\ \A n \in S : \E i \in 1..Len(s) : s[i] = n
  BY <1>1, IdsAre
<1> HIDE DEF s
<1>5. s = <<>> => S = {}
  BY <1>4
<1>6. S = {} => s = <<>>
  BY <1>4
<1> QED BY Zenon, <1>3, <1>5, <1>6 DEF S

\* A row that is merged keeps that.
LEMMA Merges ==
    ASSUME InputOK, SoFarOK, stmt.write = "merge", MergeOK(graph, rows),
           NEW row \in RowsOver(graph), Deliver(row), UNCHANGED run
    PROVE  MergeOK(graph, rows)'
<1>1. stmt' = stmt /\ g0' = g0
  BY DEF run
<1>2. GraphOK(graph) /\ StatementOK(stmt) /\ rows \in Seq(RowsOver(graph)) /\ passed \in Nat
  BY Zenon DEF InputOK, SoFarOK
<1>3. ASSUME NEW why, Fail(why) PROVE MergeOK(graph, rows)'
  <2>1. graph' = g0 /\ rows' = <<>>
    BY Zenon, <1>3 DEF Fail
  <2>2. DOMAIN <<>> = {}
    OBVIOUS
  <2> QED BY Zenon, <2>1, <2>2, <1>1 DEF MergeOK, Completed
<1> DEFINE w == WriteRow(row)
           v == row.a.v
           all == rows \o [i \in 1..Kept(w.n) |-> w.row]
           result == SubSeq(all, 1, Least(Len(all), stmt.limit))
<1>4. CASE w.end = "ok" /\ graph' = w.graph /\ rows' = result
  <2>1. w = MergeOn(row)
    BY <1>2 DEF WriteRow
  <2>2. v \in Nat
    BY Zenon, <1>2, OfRow
  <2>3. w # Refused
    BY <1>4 DEF Refused
  <2>4. v # 0 /\ \/ MergeMatches(v) # <<>> /\ w = Written(graph, row, Len(MergeMatches(v)))
                 \/ MergeMatches(v) = <<>> /\ w = Written(CreateNode(graph, v), row, 1)
    BY Zenon, <2>1, <2>3 DEF MergeOn
  <2>6. w.row = row /\ \/ w.graph = graph /\ Marked(graph, v) # {}
                       \/ w.graph = CreateNode(graph, v) /\ Marked(graph, v) = {}
    <3>1. MergeMatches(v) = <<>> <=> Marked(graph, v) = {}
      BY Zenon, <2>2, <2>4, <1>2, Matching
    <3> HIDE DEF w, v
    <3>2. CASE MergeMatches(v) # <<>> /\ w = Written(graph, row, Len(MergeMatches(v)))
      <4>1. w.row = row /\ w.graph = graph
        BY <3>2 DEF Written
      <4> QED BY Zenon, <3>1, <3>2, <4>1
    <3>3. CASE MergeMatches(v) = <<>> /\ w = Written(CreateNode(graph, v), row, 1)
      <4>1. w.row = row /\ w.graph = CreateNode(graph, v)
        BY <3>3 DEF Written
      <4> QED BY Zenon, <3>1, <3>3, <4>1
    <3> QED BY Zenon, <2>4, <3>2, <3>3
  <2>7. w.n \in Nat
    BY Zenon, <1>2, <1>4, Writes DEF WriteFine
  <2>8. result \in Seq(RowsOver(graph)) /\ \A i \in 1..Len(result) : result[i] = row \/ \E j \in 1..Len(rows) : result[i] = rows[j]
    <3> DEFINE X == RowsOver(graph)
               n == Kept(w.n)
               l == stmt.limit
    <3>1. stmt.skip \in Nat /\ l \in Nat
      BY Zenon, <1>2 DEF StatementOK
    <3>2. n \in Nat
      <4> HIDE DEF w
      <4> QED BY <2>7, <3>1, <1>2 DEF Kept, Least
    <3>3. result = Through(rows, row, n, l)
      BY Zenon, <2>6 DEF Through
    <3> HIDE DEF X, n, l, result
    <3>4. rows \in Seq(X) /\ row \in X
      BY Zenon, <1>2 DEF X
    <3>5. Through(rows, row, n, l) \in Seq(X) /\ \A i \in 1..Len(Through(rows, row, n, l)) :
             Through(rows, row, n, l)[i] = row \/ \E j \in 1..Len(rows) : Through(rows, row, n, l)[i] = rows[j]
      BY <3>1, <3>2, <3>4, Limited
    <3> QED BY Zenon, <3>3, <3>5 DEF X
  <2>9. DOMAIN result = 1..Len(result) /\ DOMAIN rows = 1..Len(rows)
    <3> HIDE DEF result
    <3> QED BY <2>8, <1>2
  <2> HIDE DEF w, v, result
  <2>14. ASSUME NEW u
         PROVE  /\ u = v => Marked(CreateNode(graph, v), u) = Marked(graph, v) \cup {graph.next}
                /\ u # v => Marked(CreateNode(graph, v), u) = Marked(graph, u)
                /\ graph.next \in DOMAIN CreateNode(graph, v).rec
    BY Zenon, <2>2, <1>2, MarkedThen
  <2>10. ASSUME NEW u \in Nat PROVE Completed(w.graph, u) /\ (Marked(graph, u) # {} => Marked(w.graph, u) # {})
    <3>1. Completed(graph, u)
      BY Zenon DEF MergeOK
    <3>2. CASE w.graph = graph
      BY Zenon, <3>1, <3>2
    <3>3. CASE w.graph = CreateNode(graph, v) /\ Marked(graph, v) = {} /\ u # v
      <4>1. Marked(w.graph, u) = Marked(graph, u)
        BY Zenon, <3>3, <2>14
      <4>2. DOMAIN graph.rec \subseteq DOMAIN w.graph.rec
        BY <3>3 DEF CreateNode
      <4> QED BY Zenon, <3>1, <4>1, <4>2 DEF Completed
    <3>4. CASE w.graph = CreateNode(graph, v) /\ Marked(graph, v) = {} /\ u = v
      <4>1. Marked(w.graph, u) = {graph.next} /\ graph.next \in DOMAIN w.graph.rec
        BY Zenon, <3>4, <2>14
      <4>2. Marked(g0, u) = {}
        BY Zenon, <3>1, <3>4 DEF Completed
      <4> QED BY Zenon, <4>1, <4>2 DEF Completed
    <3> QED BY Zenon, <2>6, <3>2, <3>3, <3>4
  <2>11. Marked(w.graph, v) # {}
    <3>1. CASE w.graph = graph /\ Marked(graph, v) # {}
      BY Zenon, <3>1
    <3>2. CASE w.graph = CreateNode(graph, v)
      BY Zenon, <3>2, <2>14
    <3> QED BY Zenon, <2>6, <3>1, <3>2
  <2>12. ASSUME NEW i \in DOMAIN result PROVE Marked(w.graph, result[i].a.v) # {}
    <3>1. CASE result[i] = row
      BY Zenon, <3>1, <2>11 DEF v
    <3>2. CASE result[i] # row
      <4>1. PICK j \in 1..Len(rows) : result[i] = rows[j]
        BY Zenon, <3>2, <2>8, <2>9
      <4>2. Marked(graph, rows[j].a.v) # {}
        BY Zenon, <2>9 DEF MergeOK
      <4>3. rows[j].a.v \in Nat
        <5>1. rows[j] \in RowsOver(graph)
          BY <1>2
        <5> QED BY Zenon, <5>1, <1>2, OfRow
      <4> QED BY Zenon, <4>1, <4>2, <4>3, <2>10
    <3> QED BY Zenon, <3>1, <3>2
  <2>13. \A u \in Nat : Completed(w.graph, u)
    BY Zenon, <2>10
  <2> QED BY Zenon, <2>12, <2>13, <1>1, <1>4 DEF MergeOK, Completed
<1> QED BY Zenon, <1>3, <1>4 DEF Deliver

\* Of the steps, only a row that is delivered or a run that starts touches the graph
\* or the rows.
LEMMA MergeKeeps ==
    ASSUME PipelineInv, MergeInv, [Next]_vars
    PROVE  MergeInv'
<1>1. SUFFICES ASSUME stmt'.write = "merge" PROVE MergeOK(graph, rows)'
  BY Zenon DEF MergeInv
<1>2. InputOK /\ SoFarOK
  BY Zenon DEF PipelineInv
<1>3. ASSUME stmt' = stmt PROVE stmt.write = "merge" /\ MergeOK(graph, rows)
  BY Zenon, <1>1, <1>3 DEF MergeInv
<1>4. ASSUME graph' = g0, rows' = <<>>, g0' = g0 PROVE MergeOK(graph, rows)'
  <2>1. DOMAIN <<>> = {}
    OBVIOUS
  <2> QED BY Zenon, <2>1, <1>4 DEF MergeOK, Completed
<1>5. ASSUME NEW why, Fail(why) PROVE MergeOK(graph, rows)'
  <2>1. graph' = g0 /\ rows' = <<>> /\ g0' = g0
    BY <1>5 DEF Fail, run
  <2> QED BY Zenon, <2>1, <1>4
<1>6. ASSUME UNCHANGED <<run, graph, rows>> PROVE MergeOK(graph, rows)'
  <2>1. stmt' = stmt /\ g0' = g0 /\ graph' = graph /\ rows' = rows
    BY <1>6 DEF run
  <2>2. MergeOK(graph, rows)
    BY Zenon, <2>1, <1>3
  <2> QED BY Zenon, <2>1, <2>2 DEF MergeOK, Completed
<1>7. ASSUME NEW row \in RowsOver(graph), Deliver(row), status = "running" PROVE MergeOK(graph, rows)'
  <2>1. UNCHANGED <<run, outcomes>>
    BY Zenon, <1>2, <1>7, Delivers
  <2>2. UNCHANGED run /\ stmt' = stmt
    BY <2>1 DEF run
  <2> QED BY Zenon, <2>2, <1>2, <1>3, <1>7, Merges
<1>8. CASE UNCHANGED vars
  <2>1. UNCHANGED <<run, graph, rows>>
    BY <1>8 DEF vars
  <2> QED BY Zenon, <2>1, <1>6
<1>9. CASE NextSource
  <2>1. Fail("scan") \/ UNCHANGED <<run, graph, passed, rows, status, outcomes>>
    BY Zenon, <1>9 DEF NextSource
  <2>2. ASSUME UNCHANGED <<run, graph, passed, rows, status, outcomes>> PROVE UNCHANGED <<run, graph, rows>>
    BY <2>2
  <2> QED BY Zenon, <2>1, <2>2, <1>5, <1>6
<1>10. CASE NextRow
  <2> DEFINE b == Head(op.pending)
             row == Row(op.cur, Target(b))
  <2>1. status = "running" /\ op.pending # <<>>
    BY Zenon, <1>10 DEF NextRow, Running
  <2>2. \/ Fail("refused")
        \/ Readable(b) /\ Deliver(row)
        \/ UNCHANGED <<run, graph, passed, rows, status, outcomes>>
    BY Zenon, <1>10 DEF NextRow
  <2>3. ASSUME UNCHANGED <<run, graph, passed, rows, status, outcomes>> PROVE UNCHANGED <<run, graph, rows>>
    BY <2>3
  <2>4. ASSUME Readable(b) PROVE row \in RowsOver(graph)
    BY Zenon, <2>1, <2>4, ReadRow DEF PipelineInv
  <2> QED BY Zenon, <2>1, <2>2, <2>3, <2>4, <1>5, <1>6, <1>7
<1>11. CASE NextSorted
  <2>1. status = "running" /\ op.buffer # <<>> /\ Deliver(Head(op.buffer))
    BY Zenon, <1>11 DEF NextSorted, Running
  <2>2. op.buffer \in Seq(RowsOver(graph))
    BY Zenon, <1>2, Grown DEF PipelineInv, OpOK, InputOK, SoFarOK
  <2>3. Head(op.buffer) \in RowsOver(graph)
    <3> DEFINE X == RowsOver(graph)
               s == op.buffer
    <3> HIDE DEF X, s
    <3>1. s \in Seq(X) /\ s # <<>>
      BY Zenon, <2>1, <2>2 DEF X, s
    <3>2. Head(s) \in X
      BY <3>1
    <3> QED BY Zenon, <3>2 DEF X, s
  <2> QED BY Zenon, <2>1, <2>3, <1>7
<1>12. CASE Finish
  <2>1. UNCHANGED <<run, graph, op, visited, passed, rows, outcomes>>
    BY Zenon, <1>12 DEF Finish
  <2>2. UNCHANGED <<run, graph, rows>>
    BY <2>1
  <2> QED BY Zenon, <2>2, <1>6
<1>13. CASE RunAgain
  <2>1. graph' = g0 /\ rows' = <<>> /\ g0' = g0
    BY <1>13 DEF RunAgain
  <2> QED BY Zenon, <2>1, <1>4
<1> QED BY Zenon, <1>8, <1>9, <1>10, <1>11, <1>12, <1>13 DEF Next

\* However many rows ask MERGE for a value, there is one node with it when there was
\* none before the statement, and as many as there were when there were some
\* (mergeNode matches what earlier rows created).
THEOREM MergedOnce ==
    Spec => []MergeOnce
<1>1. ASSUME PipelineInv, MergeInv PROVE MergeOnce
  <2>1. SUFFICES ASSUME stmt.write = "merge", NEW i \in DOMAIN rows
                 PROVE  LET v == rows[i].a.v
                        IN Having(graph, v) = IF Having(g0, v) = 0 THEN 1 ELSE Having(g0, v)
    BY Zenon DEF MergeOnce
  <2> DEFINE v == rows[i].a.v
             old == Marked(g0, v)
             new == Marked(graph, v)
  <2>2. GraphOK(graph) /\ GraphOK(g0) /\ rows \in Seq(RowsOver(graph))
    BY Zenon, <1>1 DEF PipelineInv, InputOK, SoFarOK
  <2>3. v \in Nat
    <3>1. rows[i] \in RowsOver(graph)
      BY <2>1, <2>2
    <3> QED BY Zenon, <3>1, <2>2, OfRow
  <2>4. Completed(graph, v) /\ new # {}
    BY Zenon, <1>1, <2>1, <2>3 DEF MergeInv, MergeOK
  <2>5. Having(graph, v) = Cardinality(new) /\ Having(g0, v) = Cardinality(old)
    BY Zenon DEF Having, Marked
  <2>6. new = old \/ (old = {} /\ \E n : new = {n})
    BY Zenon, <2>4 DEF Completed
  <2>7. IsFiniteSet(old)
    <3> DEFINE k == g0.next - 1
    <3>1. g0.next \in Nat \ {0} /\ old \subseteq 1..k
      BY Zenon, <2>2 DEF GraphOK, Marked
    <3>2. k \in Int /\ 1 \in Int
      BY <3>1
    <3> HIDE DEF k, old
    <3>3. IsFiniteSet(1..k)
      BY Zenon, <3>2, FS_Interval
    <3> QED BY Zenon, <3>1, <3>3, FS_Subset
  <2> HIDE DEF old, new, v
  <2>8. Cardinality(old) = 0 <=> old = {}
    BY Zenon, <2>7, FS_EmptySet
  <2>9. CASE new = old
    <3>1. Cardinality(old) # 0
      BY Zenon, <2>4, <2>8, <2>9
    <3> QED BY Zenon, <2>5, <2>9, <3>1 DEF v
  <2>10. CASE old = {} /\ \E n : new = {n}
    <3>1. Cardinality(new) = 1
      BY Zenon, <2>10, FS_Singleton
    <3> QED BY Zenon, <2>5, <2>8, <2>10, <3>1 DEF v
  <2> QED BY Zenon, <2>6, <2>9, <2>10
<1>2. ASSUME Init PROVE MergeInv
  <2>1. graph = g0 /\ rows = <<>>
    BY Zenon, <1>2 DEF Init
  <2>2. DOMAIN <<>> = {}
    OBVIOUS
  <2> QED BY Zenon, <2>1, <2>2 DEF MergeInv, MergeOK, Completed
<1>3. PipelineInv /\ MergeInv /\ [Next]_vars => MergeInv'
  BY Zenon, MergeKeeps
<1> QED BY <1>1, <1>2, <1>3, PipelineKeeps, PTL DEF Spec

----------------------------------------------------------------------------
(* Integers never wrap around, whatever their width.                       *)

\* Division with remainder, as the standard modules define it.
LEMMA Division ==
    ASSUME NEW n \in Int, NEW d \in Nat \ {0}
    PROVE  n \div d \in Int /\ n % d \in 0..(d - 1) /\ n = d * (n \div d) + (n % d)
OBVIOUS

\* A product of a positive number and an integer other than zero is at least that
\* number away from zero.
LEMMA Apart ==
    ASSUME NEW d \in Nat \ {0}, NEW k \in Int, k # 0
    PROVE  d * k >= d \/ d * k <= -d
<1>1. CASE k >= 1
  <2>1. d * k = d + d * (k - 1) /\ d * (k - 1) >= 0
    BY <1>1
  <2> QED BY <2>1
<1>2. CASE k <= -1
  <2>1. d * k = -d + d * (k + 1) /\ d * (-(k + 1)) >= 0 /\ d * (k + 1) = -(d * (-(k + 1)))
    BY <1>2
  <2> QED BY <2>1
<1> QED BY <1>1, <1>2

\* The remainder is the only number below d that is a multiple of d away.
LEMMA Remainder ==
    ASSUME NEW d \in Nat \ {0}, NEW q \in Int, NEW r \in 0..(d - 1)
    PROVE  (d * q + r) % d = r
<1> DEFINE n == d * q + r
<1>1. n \in Int
  OBVIOUS
<1>2. n \div d \in Int /\ n % d \in 0..(d - 1) /\ n = d * (n \div d) + (n % d)
  BY Zenon, <1>1, Division
<1> HIDE DEF n
<1>3. PICK p \in Int, s \in 0..(d - 1) : p = n \div d /\ s = n % d /\ n = d * p + s
  BY Zenon, <1>2
<1>4. n = d * q + r
  BY Zenon DEF n
<1>5. d * (p - q) = r - s
  BY <1>3, <1>4
<1>6. p = q
  <2> SUFFICES ASSUME p # q PROVE FALSE
    BY Zenon
  <2>1. p - q \in Int /\ p - q # 0
    OBVIOUS
  <2>2. d * (p - q) >= d \/ d * (p - q) <= -d
    BY Zenon, <2>1, Apart
  <2> QED BY <2>2, <1>5
<1>7. r = s
  BY <1>5, <1>6
<1> QED BY Zenon, <1>3, <1>7 DEF n

\* What the machine keeps of a result is an integer of the width, and a multiple of
\* 2 * Half away from it; a result of the width is kept, one past either end comes
\* out at the other.
LEMMA Wrapped ==
    ASSUME NEW x \in Int
    PROVE  /\ Wrap(x) \in Int64
           /\ \E k \in Int : Wrap(x) = x - (2 * Half) * k
           /\ x \in Int64 => Wrap(x) = x
           /\ x \in Half..(3 * Half - 1) => Wrap(x) = x - 2 * Half
           /\ x \in (-3 * Half)..(-Half - 1) => Wrap(x) = x + 2 * Half
<1> DEFINE d == 2 * Half
<1>1. d \in Nat \ {0} /\ x + Half \in Int /\ Half \in Nat
  BY Width
<1>2. PICK q \in Int, r \in 0..(d - 1) : x + Half = d * q + r /\ (x + Half) % d = r
  BY Zenon, <1>1, Division
<1>3. Wrap(x) = r - Half
  BY Zenon, <1>2 DEF Wrap
<1>4. Wrap(x) \in Int64
  BY <1>1, <1>2, <1>3 DEF Int64, MinInt, MaxInt
<1>5. Wrap(x) = x - d * q
  BY <1>1, <1>2, <1>3
<1>6. ASSUME NEW t \in 0..(d - 1), NEW p \in {0, 1, -1}, x + Half = d * p + t
      PROVE  Wrap(x) = x - d * p
  <2>1. (d * p + t) % d = t
    BY <1>1, <1>6, Remainder
  <2> QED BY <1>1, <1>6, <2>1 DEF Wrap
<1>7. x \in Int64 => Wrap(x) = x
  <2> SUFFICES ASSUME x \in Int64 PROVE Wrap(x) = x
    BY Zenon
  <2>1. x + Half \in 0..(d - 1) /\ x + Half = d * 0 + (x + Half)
    BY <1>1 DEF Int64, MinInt, MaxInt
  <2>2. Wrap(x) = x - d * 0
    BY Zenon, <2>1, <1>6
  <2> QED BY <2>2, <1>1
<1>8. x \in Half..(3 * Half - 1) => Wrap(x) = x - 2 * Half
  <2> SUFFICES ASSUME x \in Half..(3 * Half - 1) PROVE Wrap(x) = x - 2 * Half
    BY Zenon
  <2>1. x - Half \in 0..(d - 1) /\ x + Half = d * 1 + (x - Half)
    BY <1>1
  <2>2. Wrap(x) = x - d * 1
    BY Zenon, <2>1, <1>6
  <2> QED BY <2>2, <1>1
<1>9. x \in (-3 * Half)..(-Half - 1) => Wrap(x) = x + 2 * Half
  <2> SUFFICES ASSUME x \in (-3 * Half)..(-Half - 1) PROVE Wrap(x) = x + 2 * Half
    BY Zenon
  <2>1. x + 3 * Half \in 0..(d - 1) /\ x + Half = d * (-1) + (x + 3 * Half)
    BY <1>1
  <2>2. Wrap(x) = x - d * (-1)
    BY Zenon, <2>1, <1>6
  <2> QED BY <2>2, <1>1
<1> QED BY Zenon, <1>4, <1>5, <1>7, <1>8, <1>9

-----------------------------------------------------------------------------
\* The outcome r of an operation is right for the mathematical result x.
RightAs(r, x) == IF r.ok THEN r.value = x /\ x \in Int64 ELSE x \notin Int64

\* a + b is refused exactly when it does not fit (addInt).
LEMMA AddRight ==
    ASSUME NEW a \in Int64, NEW b \in Int64
    PROVE  RightAs(addInt(a, b), a + b)
<1>1. a \in Int /\ b \in Int /\ Half \in Nat \ {0} /\ a + b \in Int
  BY Width DEF Int64, MinInt, MaxInt
<1>2. /\ a + b \in Int64 => Wrap(a + b) = a + b
      /\ a + b \in Half..(3 * Half - 1) => Wrap(a + b) = a + b - 2 * Half
      /\ a + b \in (-3 * Half)..(-Half - 1) => Wrap(a + b) = a + b + 2 * Half
  BY <1>1, Wrapped
<1> QED BY <1>1, <1>2 DEF RightAs, addInt, Value, Overflow, Negative, Int64, MinInt, MaxInt

\* a - b is refused exactly when it does not fit (intArithmetic).
LEMMA SubRight ==
    ASSUME NEW a \in Int64, NEW b \in Int64
    PROVE  RightAs(subInt(a, b), a - b)
<1>1. a \in Int /\ b \in Int /\ Half \in Nat \ {0} /\ a - b \in Int
  BY Width DEF Int64, MinInt, MaxInt
<1>2. /\ a - b \in Int64 => Wrap(a - b) = a - b
      /\ a - b \in Half..(3 * Half - 1) => Wrap(a - b) = a - b - 2 * Half
      /\ a - b \in (-3 * Half)..(-Half - 1) => Wrap(a - b) = a - b + 2 * Half
  BY Zenon, <1>1, Wrapped
<1> QED BY <1>1, <1>2 DEF RightAs, subInt, Value, Overflow, Negative, Int64, MinInt, MaxInt

\* A multiple is no smaller.
LEMMA Grows ==
    ASSUME NEW q \in Nat, NEW d \in Nat \ {0}
    PROVE  q <= d * q /\ d * q \in Nat
<1>1. \A e \in Nat : e * q \in Nat
  OBVIOUS
<1>2. d - 1 \in Nat /\ d * q = (d - 1) * q + q
  OBVIOUS
<1>3. (d - 1) * q \in Nat
  BY <1>1, <1>2
<1> QED BY <1>2, <1>3

\* The quotient leaves less than the divisor, and is no larger than the dividend.
LEMMA Quotient ==
    ASSUME NEW a \in Int, NEW b \in Int, b # 0
    PROVE  /\ Quo(a, b) \in Int
           /\ \E r \in Int : a = b * Quo(a, b) + r /\ Magnitude(r) < Magnitude(b)
           /\ Magnitude(Quo(a, b)) <= Magnitude(a)
<1> DEFINE n == Magnitude(a)
           d == Magnitude(b)
<1>1. n \in Nat /\ d \in Nat \ {0}
  BY DEF Magnitude
<1>2. PICK q \in Int, s \in 0..(d - 1) : q = n \div d /\ n = d * q + s
  <2>1. ASSUME NEW u \in Nat, NEW v \in Nat \ {0}
        PROVE  \E q \in Int, s \in 0..(v - 1) : q = u \div v /\ u = v * q + s
    BY <2>1, Division
  <2> HIDE DEF n, d
  <2> QED BY Zenon, <1>1, <2>1
<1>3. q \in Nat
  <2> SUFFICES ASSUME q <= -1 PROVE FALSE
    BY <1>2
  <2>1. d * q <= -d
    BY <1>1, <1>2, Apart
  <2> QED BY <2>1, <1>1, <1>2
<1>4. q <= n
  <2>1. q <= d * q /\ d * q \in Nat
    BY <1>1, <1>3, Grows
  <2> HIDE DEF n, d
  <2> QED BY <2>1, <1>1, <1>2, <1>3
<1>5. CASE Negative(a) = Negative(b)
  <2>1. Quo(a, b) = q
    BY Zenon, <1>2, <1>5 DEF Quo
  <2>2. CASE a >= 0 /\ b > 0
    <3>1. a = b * q + s
      BY <2>2, <1>2 DEF Magnitude
    <3>2. Magnitude(s) < Magnitude(b)
      BY <1>1, <1>2 DEF Magnitude
    <3>3. Magnitude(q) <= Magnitude(a)
      BY <1>1, <1>3, <1>4 DEF Magnitude
    <3> QED BY <2>1, <3>1, <3>2, <3>3, <1>2
  <2>3. CASE a < 0 /\ b < 0
    <3>1. -a = (-b) * q + s
      BY Zenon, <2>3, <1>2 DEF Magnitude
    <3>2. a = b * q + (-s)
      BY <3>1, <1>2
    <3>3. -s \in Int /\ Magnitude(-s) < Magnitude(b)
      BY <1>1, <1>2 DEF Magnitude
    <3>4. Magnitude(q) <= Magnitude(a)
      BY <1>1, <1>3, <1>4 DEF Magnitude
    <3> QED BY Zenon, <2>1, <3>2, <3>3, <3>4, <1>2
  <2> QED BY <1>5, <2>2, <2>3 DEF Negative
<1>6. CASE Negative(a) # Negative(b)
  <2>1. Quo(a, b) = -q
    BY Zenon, <1>2, <1>6 DEF Quo
  <2>2. CASE a >= 0 /\ b < 0
    <3>1. a = (-b) * q + s
      BY <2>2, <1>2 DEF Magnitude
    <3>2. a = b * (-q) + s
      BY <3>1, <1>2
    <3>3. Magnitude(s) < Magnitude(b)
      BY <1>1, <1>2 DEF Magnitude
    <3>4. Magnitude(-q) <= Magnitude(a)
      BY <1>1, <1>3, <1>4 DEF Magnitude
    <3> QED BY <2>1, <3>2, <3>3, <3>4, <1>2
  <2>3. CASE a < 0 /\ b > 0
    <3>1. -a = b * q + s
      BY <2>3, <1>2 DEF Magnitude
    <3>2. a = b * (-q) + (-s)
      <4>1. b * (-q) = -(b * q) /\ b * q \in Int
        BY <1>2
      <4> QED BY <4>1, <3>1, <1>2
    <3>3. -s \in Int /\ Magnitude(-s) < Magnitude(b)
      BY <1>1, <1>2 DEF Magnitude
    <3>4. Magnitude(-q) <= Magnitude(a)
      BY <1>1, <1>3, <1>4 DEF Magnitude
    <3> QED BY <2>1, <3>2, <3>3, <3>4, <1>2
  <2> QED BY <1>6, <2>2, <2>3 DEF Negative
<1> QED BY Zenon, <1>5, <1>6

\* a quotient that b divides exactly.
LEMMA ExactQuotient ==
    ASSUME NEW a \in Int, NEW b \in Int, b # 0
    PROVE  Quo(a * b, b) = a
<1>1. a * b \in Int
  OBVIOUS
<1>2. PICK q \in Int, r \in Int : q = Quo(a * b, b) /\ a * b = b * q + r /\ Magnitude(r) < Magnitude(b)
  BY Zenon, <1>1, Quotient
<1>3. b * (a - q) = r
  BY <1>2
<1>4. a = q
  <2> SUFFICES ASSUME a # q PROVE FALSE
    BY Zenon
  <2>1. a - q \in Int /\ q - a \in Int /\ a - q # 0 /\ q - a # 0
    OBVIOUS
  <2>2. CASE b > 0
    <3>1. b * (a - q) >= b \/ b * (a - q) <= -b
      BY <2>1, <2>2, Apart
    <3> QED BY <3>1, <1>2, <1>3, <2>2 DEF Magnitude
  <2>3. CASE b < 0
    <3>1. (-b) * (q - a) >= -b \/ (-b) * (q - a) <= b
      BY <2>1, <2>3, Apart
    <3>2. (-b) * (q - a) = b * (a - q)
      OBVIOUS
    <3> QED BY <3>1, <3>2, <1>2, <1>3, <2>3 DEF Magnitude
  <2> QED BY <2>2, <2>3
<1> QED BY Zenon, <1>2, <1>4

\* Half divided by b is Half again only when b is -1.
LEMMA OnlyMinusOne ==
    ASSUME NEW b \in Int64, b # 0, NEW r \in Int, Magnitude(r) < Magnitude(b), Half * (b + 1) = -r
    PROVE  b = -1
<1>1. b \in Int /\ Half \in Nat \ {0}
  BY Width DEF Int64, MinInt, MaxInt
<1>2. CASE b > 0
  <2>1. Half * b = b + (Half - 1) * b /\ (Half - 1) * b >= 0
    BY <1>1, <1>2
  <2>2. Half * (b + 1) = Half * b + Half /\ Half * b >= b
    BY <2>1, <1>1
  <2> QED BY <2>2, <1>1, <1>2 DEF Magnitude
<1>3. CASE b <= -2
  <2>1. PICK e \in Nat : e = -(b + 1) /\ e > 0
    BY <1>1, <1>3
  <2>2. Half * (b + 1) = -(Half * e)
    BY <2>1, <1>1
  <2> QED BY <2>1, <2>2, <1>1, <1>3 DEF Magnitude, Int64, MinInt, MaxInt
<1> QED BY <1>1, <1>2, <1>3

\* a * b is refused exactly when it does not fit: past the width, the product that
\* is left is at least 2 * Half away and b times a cannot be got back from it
\* (intArithmetic).
LEMMA MulRight ==
    ASSUME NEW a \in Int64, NEW b \in Int64
    PROVE  RightAs(mulInt(a, b), a * b)
<1> DEFINE c == Wrap(a * b)
<1>1. a \in Int /\ b \in Int /\ Half \in Nat \ {0} /\ a * b \in Int
  BY Width DEF Int64, MinInt, MaxInt
<1>2. c \in Int64 /\ c \in Int /\ (a * b \in Int64 => c = a * b)
  BY <1>1, Wrapped DEF Int64, MinInt, MaxInt
<1>3. PICK k \in Int : c = a * b - (2 * Half) * k
  BY Zenon, <1>1, Wrapped
<1>4. CASE a = 0 \/ b = 0
  <2>1. a * b = 0 /\ 0 \in Int64
    BY <1>4, <1>1 DEF Int64, MinInt, MaxInt
  <2> QED BY Zenon, <2>1, <1>4 DEF RightAs, mulInt, Value
<1>5. CASE a # 0 /\ b # 0 /\ a * b \in Int64
  <2>1. c = a * b /\ Quo(c, b) = a
    BY Zenon, <1>1, <1>2, <1>5, ExactQuotient
  <2>2. Wrap(Quo(c, b)) = a
    BY Zenon, <2>1, <1>1, Wrapped
  <2>3. ~(a = -1 /\ b = MinInt) /\ ~(b = -1 /\ a = MinInt)
    BY <1>1, <1>5 DEF Int64, MinInt, MaxInt
  <2> QED BY Zenon, <2>1, <2>2, <2>3, <1>5 DEF RightAs, mulInt, Value
<1>6. CASE a # 0 /\ b # 0 /\ a * b \notin Int64
  <2>1. k # 0
    BY <1>1, <1>2, <1>3, <1>6
  <2>2. PICK q \in Int, r \in Int : q = Quo(c, b) /\ c = b * q + r /\ Magnitude(r) < Magnitude(b) /\ Magnitude(q) <= Magnitude(c)
    BY Zenon, <1>1, <1>2, <1>6, Quotient
  <2>3. q # a
    <3> SUFFICES ASSUME q = a PROVE FALSE
      BY Zenon
    <3>1. (2 * Half) * k = -r
      <4>1. PICK w \in Int : w = (2 * Half) * k
        BY <1>1
      <4>2. PICK p \in Int : p = a * b /\ p = b * q
        BY <1>1
      <4> QED BY <4>1, <4>2, <1>3, <2>2, <1>2
    <3>2. (2 * Half) * k >= 2 * Half \/ (2 * Half) * k <= -(2 * Half)
      BY <1>1, <2>1, Apart
    <3>3. Magnitude(b) <= Half
      BY <1>1 DEF Magnitude, Int64, MinInt, MaxInt
    <3> QED BY <3>1, <3>2, <3>3, <1>1, <2>2 DEF Magnitude
  <2>4. Magnitude(q) <= Half
    BY <1>1, <1>2, <2>2 DEF Magnitude, Int64, MinInt, MaxInt
  <2>5. CASE q \in Int64
    <3>1. Wrap(Quo(c, b)) # a
      BY Zenon, <2>2, <2>3, <2>5, Wrapped
    <3> QED BY Zenon, <3>1, <1>6 DEF RightAs, mulInt, Overflow
  <2>6. CASE q \notin Int64
    <3>1. q = Half
      BY <2>4, <2>6, <1>1, <2>2 DEF Magnitude, Int64, MinInt, MaxInt
    <3>2. Wrap(q) = MinInt
      <4>1. q \in Half..(3 * Half - 1)
        BY <3>1, <1>1
      <4> QED BY <4>1, <3>1, <1>1, Wrapped DEF MinInt
    <3>3. CASE a # MinInt
      BY Zenon, <3>2, <3>3, <2>2, <1>6 DEF RightAs, mulInt, Overflow
    <3>4. CASE a = MinInt
      <4>1. c = MinInt
        BY <3>1, <2>2, <1>1, <1>2 DEF Magnitude, Int64, MinInt, MaxInt
      <4>2. b = -1
        <5>1. MinInt = b * Half + r /\ Magnitude(r) < Magnitude(b)
          BY Zenon, <4>1, <3>1, <2>2
        <5>2. Half * (b + 1) = -r
          BY <5>1, <1>1, <2>2 DEF MinInt
        <5> QED BY Zenon, <5>1, <5>2, <1>6, <2>2, OnlyMinusOne
      <4> QED BY Zenon, <4>2, <3>4, <1>6 DEF RightAs, mulInt, Overflow
    <3> QED BY Zenon, <3>3, <3>4
  <2> QED BY Zenon, <2>5, <2>6
<1> QED BY Zenon, <1>4, <1>5, <1>6

\* a / b is refused exactly when it does not fit, and a % b always fits
\* (intArithmetic).
LEMMA DivRight ==
    ASSUME NEW a \in Int64, NEW b \in Int64, b # 0
    PROVE  RightAs(divInt(a, b), Quo(a, b)) /\ RightAs(modInt(a, b), Rem(a, b))
<1>1. a \in Int /\ b \in Int /\ Half \in Nat \ {0}
  BY Width DEF Int64, MinInt, MaxInt
<1>2. PICK q \in Int, r \in Int : q = Quo(a, b) /\ a = b * q + r /\ Magnitude(r) < Magnitude(b) /\ Magnitude(q) <= Magnitude(a)
  BY Zenon, <1>1, Quotient
<1>3. Rem(a, b) = r
  <2>1. PICK p \in Int : p = b * q
    BY <1>1, <1>2
  <2> QED BY <2>1, <1>1, <1>2 DEF Rem
<1>4. RightAs(modInt(a, b), Rem(a, b))
  <2>1. r \in Int64
    BY <1>1, <1>2 DEF Magnitude, Int64, MinInt, MaxInt
  <2> QED BY Zenon, <2>1, <1>3 DEF RightAs, modInt, Value
<1>5. CASE a = MinInt /\ b = -1
  <2>1. a = q * (-1) + r /\ r = 0
    BY <1>1, <1>2, <1>5 DEF Magnitude
  <2>2. q = Half
    BY <2>1, <1>1, <1>2, <1>5 DEF MinInt
  <2>3. q \notin Int64
    BY <2>2, <1>1 DEF Int64, MinInt, MaxInt
  <2>4. RightAs(divInt(a, b), Quo(a, b))
    BY Zenon, <2>3, <1>2, <1>5 DEF RightAs, divInt, Overflow
  <2> QED BY Zenon, <2>4, <1>4
<1>6. CASE ~(a = MinInt /\ b = -1)
  <2>1. q \in Int64
    <3> SUFFICES ASSUME q \notin Int64 PROVE FALSE
      BY Zenon
    <3>1. q = Half /\ a = MinInt
      BY <1>1, <1>2 DEF Magnitude, Int64, MinInt, MaxInt
    <3>2. Half * (b + 1) = -r
      <4>1. PICK p \in Int : p = Half * b /\ p = b * q
        BY <1>1, <3>1
      <4> QED BY <4>1, <3>1, <1>1, <1>2 DEF MinInt
    <3> QED BY Zenon, <3>1, <3>2, <1>2, <1>6, OnlyMinusOne
  <2>2. Wrap(q) = q
    BY Zenon, <2>1, <1>2, Wrapped
  <2>3. RightAs(divInt(a, b), Quo(a, b))
    BY Zenon, <2>1, <2>2, <1>2, <1>6 DEF RightAs, divInt, Value
  <2> QED BY Zenon, <2>3, <1>4
<1> QED BY Zenon, <1>5, <1>6

\* -a and abs(a) are refused exactly when they do not fit (negateInt, fnAbs).
LEMMA NegRight ==
    ASSUME NEW a \in Int64
    PROVE  RightAs(negateInt(a), -a) /\ RightAs(fnAbs(a), Magnitude(a))
<1>1. a \in Int /\ Half \in Nat \ {0} /\ -a \in Int
  BY Width DEF Int64, MinInt, MaxInt
<1>2. -a \in Int64 => Wrap(-a) = -a
  BY Zenon, <1>1, Wrapped
<1>3. RightAs(negateInt(a), -a)
  BY <1>1, <1>2 DEF RightAs, negateInt, Value, Overflow, Int64, MinInt, MaxInt
<1> QED BY Zenon, <1>3, <1>1 DEF RightAs, fnAbs, Magnitude, Value

\* Every operation is refused exactly when its result does not fit.
LEMMA OperationRight ==
    ASSUME NEW o \in Ops, NEW a \in Int64, NEW b \in Int64, o \in {"/", "%"} => b # 0
    PROVE  RightAs(intArithmetic(o, a, b), Exact(o, a, b))
BY Zenon, AddRight, SubRight, MulRight, DivRight, NegRight DEF Ops, intArithmetic, Exact

\* Whatever the width, integers never wrap around: the value of an expression is the
\* one of mathematics, or it fails because a result does not fit (intArithmetic,
\* addInt, negateInt, fnAbs).
THEOREM ArithmeticExact == ArithmeticSpec => []NeverWraps
<1>1. ArithmeticInit => NeverWraps
  BY Zenon DEF ArithmeticInit, NeverWraps
<1>2. NeverWraps /\ [ArithmeticNext]_arithmeticVars => NeverWraps'
  <2> SUFFICES ASSUME NeverWraps, [ArithmeticNext]_arithmeticVars PROVE NeverWraps'
    BY Zenon
  <2>1. CASE UNCHANGED arithmeticVars
    BY Zenon, <2>1 DEF arithmeticVars, NeverWraps
  <2>2. ASSUME NEW o \in Ops, NEW n \in Int64, Apply(o, n)
        PROVE  NeverWraps'
    <3>1. calc = "ok" /\ exact = value /\ value \in Int64
      BY Zenon, <2>2 DEF Apply, NeverWraps
    <3>2. CASE o \in {"/", "%"} /\ n = 0
      BY Zenon, <2>2, <3>1, <3>2 DEF Apply, NeverWraps
    <3>3. CASE o \in {"/", "%"} => n # 0
      <4> DEFINE r == intArithmetic(o, value, n)
      <4>1. RightAs(r, Exact(o, value, n))
        BY Zenon, <3>1, <3>3, OperationRight
      <4>2. /\ exact' = Exact(o, value, n)
            /\ IF r.ok THEN value' = r.value /\ UNCHANGED calc
               ELSE calc' = "overflow" /\ UNCHANGED value
        BY Zenon, <2>2, <3>1, <3>3 DEF Apply
      <4> HIDE DEF r
      <4> QED BY Zenon, <4>1, <4>2, <3>1 DEF RightAs, NeverWraps
    <3> QED BY Zenon, <3>2, <3>3
  <2> QED BY Zenon, <2>1, <2>2 DEF ArithmeticNext
<1> QED BY <1>1, <1>2, PTL DEF ArithmeticSpec

----------------------------------------------------------------------------
(* Null means unknown, for lists of every length.                          *)

\* What the counts of a loop say of the p elements it has seen.
Counted(p, t, f, u) ==
    /\ t \in Nat /\ f \in Nat /\ u \in Nat
    /\ t > 0 <=> \E i \in 1..p : list[i] = T
    /\ t > 1 <=> \E i, j \in 1..p : i # j /\ list[i] = T /\ list[j] = T
    /\ f > 0 <=> \E i \in 1..p : list[i] = F
    /\ u > 0 <=> \E i \in 1..p : list[i] = N

LogicInv ==
    /\ kind \in Kinds /\ list \in Seq({T, F, N})
    /\ kind \in {"AND", "OR"} => Len(list) = 2
    /\ pos \in 0..Len(list)
    /\ Counted(pos, trues, falses, unknowns)
    /\ NullMeansUnknown

\* Two readings of the nulls: all true, all false.
Fill(x) == [i \in DOMAIN list |-> IF list[i] = N THEN x ELSE list[i]]

\* The reading in which only the null at place k is true.
Only(k) == [i \in DOMAIN list |-> IF i = k THEN T ELSE IF list[i] = N THEN F ELSE list[i]]

\* They are readings.
LEMMA Readings ==
    ASSUME list \in Seq({T, F, N})
    PROVE  /\ Fill(T) \in Completions /\ Fill(F) \in Completions
           /\ \A k \in DOMAIN list : list[k] = N => Only(k) \in Completions
<1>1. \A i \in DOMAIN list : list[i] \in {T, F, N}
  OBVIOUS
<1>2. T # N /\ F # N /\ T # F
  BY Zenon DEF T, F, N
<1>3. Fill(T) \in Completions
  BY Zenon, <1>1, <1>2 DEF Fill, Completions
<1>4. Fill(F) \in Completions
  BY Zenon, <1>1, <1>2 DEF Fill, Completions
<1>5. ASSUME NEW k \in DOMAIN list, list[k] = N
      PROVE  Only(k) \in Completions
  BY Zenon, <1>1, <1>2, <1>5 DEF Only, Completions
<1> QED BY Zenon, <1>3, <1>4, <1>5

\* A loop of any or IN is right about a list: one true element decides, a null one
\* leaves it open, and without either it is false.
LEMMA SomeRight ==
    ASSUME list \in Seq({T, F, N}), kind \in {"any", "IN", "OR"}
    PROVE  /\ (\E i \in DOMAIN list : list[i] = T) => Right(T)
           /\ (\A i \in DOMAIN list : list[i] = F) => Right(F)
           /\ (\A i \in DOMAIN list : list[i] # T) /\ (\E i \in DOMAIN list : list[i] = N) => Right(N)
<1> DEFINE OneTrue(c) == \E i \in DOMAIN c : c[i] = T
<1>1. \A c : Says(c) <=> OneTrue(c)
  BY Zenon DEF Says
<1>2. T # N /\ F # N /\ T # F /\ \A i \in DOMAIN list : list[i] \in {T, F, N}
  BY DEF T, F, N
<1>3. ASSUME \E i \in DOMAIN list : list[i] = T PROVE Right(T)
  BY Zenon, <1>1, <1>2, <1>3 DEF Right, Completions
<1>4. ASSUME \A i \in DOMAIN list : list[i] = F PROVE Right(F)
  BY Zenon, <1>1, <1>2, <1>4 DEF Right, Completions
<1>5. ASSUME \A i \in DOMAIN list : list[i] # T, \E i \in DOMAIN list : list[i] = N PROVE Right(N)
  <2>1. OneTrue(Fill(T)) /\ ~OneTrue(Fill(F))
    BY Zenon, <1>2, <1>5 DEF Fill
  <2> QED BY Zenon, <2>1, <1>1, <1>2, Readings DEF Right
<1> QED BY Zenon, <1>3, <1>4, <1>5

\* none is the opposite of any.
LEMMA NoneRight ==
    ASSUME list \in Seq({T, F, N}), kind = "none"
    PROVE  /\ (\E i \in DOMAIN list : list[i] = T) => Right(F)
           /\ (\A i \in DOMAIN list : list[i] = F) => Right(T)
           /\ (\A i \in DOMAIN list : list[i] # T) /\ (\E i \in DOMAIN list : list[i] = N) => Right(N)
<1> DEFINE No(c) == \A i \in DOMAIN c : c[i] # T
<1>1. \A c : Says(c) <=> No(c)
  BY Zenon DEF Says
<1>2. T # N /\ F # N /\ T # F /\ \A i \in DOMAIN list : list[i] \in {T, F, N}
  BY DEF T, F, N
<1>3. ASSUME \E i \in DOMAIN list : list[i] = T PROVE Right(F)
  BY Zenon, <1>1, <1>2, <1>3 DEF Right, Completions
<1>4. ASSUME \A i \in DOMAIN list : list[i] = F PROVE Right(T)
  BY Zenon, <1>1, <1>2, <1>4 DEF Right, Completions
<1>5. ASSUME \A i \in DOMAIN list : list[i] # T, \E i \in DOMAIN list : list[i] = N PROVE Right(N)
  <2>1. No(Fill(F)) /\ ~No(Fill(T))
    BY Zenon, <1>2, <1>5 DEF Fill
  <2> QED BY Zenon, <2>1, <1>1, <1>2, Readings DEF Right
<1> QED BY Zenon, <1>3, <1>4, <1>5

\* all, the equality of lists and AND: one false element decides.
LEMMA AllRight ==
    ASSUME list \in Seq({T, F, N}), kind \in {"all", "=", "AND"}
    PROVE  /\ (\E i \in DOMAIN list : list[i] = F) => Right(F)
           /\ (\A i \in DOMAIN list : list[i] = T) => Right(T)
           /\ (\A i \in DOMAIN list : list[i] # F) /\ (\E i \in DOMAIN list : list[i] = N) => Right(N)
<1> DEFINE All(c) == \A i \in DOMAIN c : c[i] = T
<1>1. \A c : Says(c) <=> All(c)
  BY Zenon DEF Says
<1>2. T # N /\ F # N /\ T # F /\ \A i \in DOMAIN list : list[i] \in {T, F, N}
  BY DEF T, F, N
<1>3. ASSUME \E i \in DOMAIN list : list[i] = F PROVE Right(F)
  BY Zenon, <1>1, <1>2, <1>3 DEF Right, Completions
<1>4. ASSUME \A i \in DOMAIN list : list[i] = T PROVE Right(T)
  BY Zenon, <1>1, <1>2, <1>4 DEF Right, Completions
<1>5. ASSUME \A i \in DOMAIN list : list[i] # F, \E i \in DOMAIN list : list[i] = N PROVE Right(N)
  <2>1. All(Fill(T)) /\ ~All(Fill(F))
    BY Zenon, <1>2, <1>5 DEF Fill
  <2> QED BY Zenon, <2>1, <1>1, <1>2, Readings DEF Right
<1> QED BY Zenon, <1>3, <1>4, <1>5

\* single: two true elements decide; with a null one and at most one true one it
\* stays open.
LEMMA SingleRight ==
    ASSUME list \in Seq({T, F, N}), kind = "single"
    PROVE  /\ (\E i, j \in DOMAIN list : i # j /\ list[i] = T /\ list[j] = T) => Right(F)
           /\ (\A i \in DOMAIN list : list[i] = F) => Right(F)
           /\ /\ \E i \in DOMAIN list : list[i] = T
              /\ ~\E i, j \in DOMAIN list : i # j /\ list[i] = T /\ list[j] = T
              /\ \A i \in DOMAIN list : list[i] # N
              => Right(T)
           /\ /\ ~\E i, j \in DOMAIN list : i # j /\ list[i] = T /\ list[j] = T
              /\ \E i \in DOMAIN list : list[i] = N
              => Right(N)
<1> DEFINE One(c) == \E i \in DOMAIN c : c[i] = T /\ \A j \in DOMAIN c : c[j] = T => j = i
<1>1. \A c : Says(c) <=> One(c)
  BY Zenon DEF Says
<1>2. T # N /\ F # N /\ T # F /\ \A i \in DOMAIN list : list[i] \in {T, F, N}
  BY DEF T, F, N
<1>3. ASSUME \E i, j \in DOMAIN list : i # j /\ list[i] = T /\ list[j] = T PROVE Right(F)
  BY Zenon, <1>1, <1>2, <1>3 DEF Right, Completions
<1>4. ASSUME \A i \in DOMAIN list : list[i] = F PROVE Right(F)
  BY Zenon, <1>1, <1>2, <1>4 DEF Right, Completions
<1>5. ASSUME \E i \in DOMAIN list : list[i] = T,
             ~\E i, j \in DOMAIN list : i # j /\ list[i] = T /\ list[j] = T,
             \A i \in DOMAIN list : list[i] # N
      PROVE  Right(T)
  BY <1>1, <1>2, <1>5 DEF Right, Completions
<1>6. ASSUME ~\E i, j \in DOMAIN list : i # j /\ list[i] = T /\ list[j] = T,
             \E i \in DOMAIN list : list[i] = N
      PROVE  Right(N)
  <2>1. PICK k \in DOMAIN list : list[k] = N
    BY Zenon, <1>6
  <2>2. CASE \E i \in DOMAIN list : list[i] = T
    <3>1. PICK m \in DOMAIN list : list[m] = T
      BY Zenon, <2>2
    <3>2. One(Fill(F))
      BY Zenon, <3>1, <1>2, <1>6 DEF Fill
    <3>3. ~One(Fill(T))
      BY Zenon, <3>1, <2>1, <1>2 DEF Fill
    <3> QED BY Zenon, <3>2, <3>3, <1>1, <1>2, Readings DEF Right
  <2>3. CASE ~\E i \in DOMAIN list : list[i] = T
    <3>1. One(Only(k))
      BY Zenon, <2>1, <2>3, <1>2 DEF Only
    <3>2. ~One(Fill(F))
      BY Zenon, <2>3, <1>2 DEF Fill
    <3> QED BY Zenon, <3>1, <3>2, <2>1, <1>1, <1>2, Readings DEF Right
  <2> QED BY Zenon, <2>2, <2>3
<1> QED BY Zenon, <1>3, <1>4, <1>5, <1>6

\* A loop that has seen the whole list, or enough of it, is right about all of it.
LEMMA LoopRight ==
    ASSUME list \in Seq({T, F, N}), kind \in Loops, NEW p \in 0..Len(list), NEW t, NEW f, NEW u,
           Counted(p, t, f, u), p = Len(list) \/ Stops(t, f)
    PROVE  Result(t, f, u) \in {T, F, N} /\ Right(Result(t, f, u))
<1>1. T # N /\ F # N /\ T # F /\ DOMAIN list = 1..Len(list) /\ 1..p \subseteq DOMAIN list
      /\ \A i \in DOMAIN list : list[i] \in {T, F, N}
  BY DEF T, F, N
<1>2. t \in Nat /\ f \in Nat /\ u \in Nat
  BY Zenon DEF Counted
<1>3. p = Len(list) => 1..p = DOMAIN list
  OBVIOUS
<1>4. t > 0 => \E i \in DOMAIN list : list[i] = T
  BY Zenon, <1>1 DEF Counted
<1>5. f > 0 => \E i \in DOMAIN list : list[i] = F
  BY Zenon, <1>1 DEF Counted
<1>6. t > 1 => \E i, j \in DOMAIN list : i # j /\ list[i] = T /\ list[j] = T
  BY Zenon, <1>1 DEF Counted
<1>7. ASSUME p = Len(list)
      PROVE  /\ t > 0 <=> \E i \in DOMAIN list : list[i] = T
             /\ f > 0 <=> \E i \in DOMAIN list : list[i] = F
             /\ u > 0 <=> \E i \in DOMAIN list : list[i] = N
             /\ t > 1 <=> \E i, j \in DOMAIN list : i # j /\ list[i] = T /\ list[j] = T
  BY Zenon, <1>3, <1>7 DEF Counted
<1>8. CASE kind \in {"any", "IN"}
  <2>1. CASE t > 0
    BY Zenon, <1>4, <1>8, <2>1, SomeRight DEF Result
  <2>2. CASE ~(t > 0)
    <3>1. p = Len(list)
      BY Zenon, <1>8, <2>2 DEF Stops
    <3>2. Result(t, f, u) = (IF u > 0 THEN N ELSE F)
      BY Zenon, <1>8, <2>2 DEF Result
    <3>3. Right(IF u > 0 THEN N ELSE F)
      BY Zenon, <1>1, <1>7, <1>8, <2>2, <3>1, SomeRight
    <3> QED BY Zenon, <3>2, <3>3
  <2> QED BY Zenon, <2>1, <2>2
<1>9. CASE kind = "none"
  <2>1. CASE t > 0
    BY Zenon, <1>4, <1>9, <2>1, NoneRight DEF Result
  <2>2. CASE ~(t > 0)
    <3>1. p = Len(list)
      BY Zenon, <1>9, <2>2 DEF Stops
    <3>2. Result(t, f, u) = (IF u > 0 THEN N ELSE T)
      BY Zenon, <1>9, <2>2 DEF Result
    <3>3. Right(IF u > 0 THEN N ELSE T)
      BY Zenon, <1>1, <1>7, <1>9, <2>2, <3>1, NoneRight
    <3> QED BY Zenon, <3>2, <3>3
  <2> QED BY Zenon, <2>1, <2>2
<1>10. CASE kind \in {"all", "="}
  <2>1. CASE f > 0
    BY Zenon, <1>5, <1>10, <2>1, AllRight DEF Result
  <2>2. CASE ~(f > 0)
    <3>1. p = Len(list)
      BY Zenon, <1>10, <2>2 DEF Stops
    <3>2. Result(t, f, u) = (IF u > 0 THEN N ELSE T)
      BY Zenon, <1>10, <2>2 DEF Result
    <3>3. Right(IF u > 0 THEN N ELSE T)
      BY Zenon, <1>1, <1>7, <1>10, <2>2, <3>1, AllRight
    <3> QED BY Zenon, <3>2, <3>3
  <2> QED BY Zenon, <2>1, <2>2
<1>11. CASE kind = "single"
  <2>1. CASE t > 1
    BY Zenon, <1>6, <1>11, <2>1, SingleRight DEF Result
  <2>2. CASE ~(t > 1)
    <3>1. p = Len(list)
      BY Zenon, <1>11, <2>2 DEF Stops
    <3>2. Result(t, f, u) = (IF u = 0 THEN (IF t = 1 THEN T ELSE F) ELSE N)
      BY Zenon, <1>11, <2>2 DEF Result, Bool
    <3>3. CASE u > 0
      BY <1>7, <1>11, <2>2, <3>1, <3>2, <3>3, SingleRight
    <3>4. CASE u = 0 /\ t = 1
      <4>1. \A i \in DOMAIN list : list[i] # N
        BY <1>7, <3>1, <3>4
      <4>2. \E i \in DOMAIN list : list[i] = T
        BY <1>7, <3>1, <3>4
      <4>3. ~\E i, j \in DOMAIN list : i # j /\ list[i] = T /\ list[j] = T
        BY Zenon, <1>7, <2>2, <3>1
      <4>4. Right(T)
        BY Zenon, <4>1, <4>2, <4>3, <1>11, SingleRight
      <4> QED BY Zenon, <4>4, <3>2, <3>4
    <3>5. CASE u = 0 /\ t = 0
      <4>1. \A i \in DOMAIN list : list[i] = F
        BY <1>1, <1>7, <3>1, <3>5
      <4> QED BY <4>1, <1>11, <3>2, <3>5, SingleRight
    <3> QED BY <3>3, <3>4, <3>5, <1>2, <2>2
  <2> QED BY Zenon, <2>1, <2>2
<1> QED BY Zenon, <1>8, <1>9, <1>10, <1>11 DEF Loops

\* One more element keeps the counts true of what has been seen (evalQuantifier).
LEMMA CountedStep ==
    ASSUME list \in Seq({T, F, N}), NEW p \in Nat, p < Len(list), NEW t, NEW f, NEW u, Counted(p, t, f, u)
    PROVE  Counted(p + 1, IF list[p + 1] = T THEN t + 1 ELSE t,
                          IF list[p + 1] = F THEN f + 1 ELSE f,
                          IF list[p + 1] = N THEN u + 1 ELSE u)
<1>1. 1..(p + 1) = (1..p) \cup {p + 1} /\ p + 1 \notin 1..p
  OBVIOUS
<1>2. T # N /\ F # N /\ T # F
  BY Zenon DEF T, F, N
<1>3. CASE list[p + 1] = T
  <2>1. t + 1 > 1 <=> t > 0
    BY DEF Counted
  <2>2. (\E i, j \in 1..(p + 1) : i # j /\ list[i] = T /\ list[j] = T) <=> \E i \in 1..p : list[i] = T
    BY Zenon, <1>1, <1>3
  <2> QED BY SMTT(30), <1>1, <1>2, <1>3, <2>1, <2>2 DEF Counted
<1>4. CASE list[p + 1] # T
  <2>1. (\E i, j \in 1..(p + 1) : i # j /\ list[i] = T /\ list[j] = T)
          <=> \E i, j \in 1..p : i # j /\ list[i] = T /\ list[j] = T
    BY Zenon, <1>1, <1>4
  <2> QED BY SMTT(30), <1>1, <1>2, <1>4, <2>1 DEF Counted
<1> QED BY Zenon, <1>3, <1>4

\* Null means unknown, no more and no less, in lists of every length: answers are
\* right about the whole list though the loops stop early (evalQuantifier, inList,
\* equality, boolOp).
THEOREM ThreeValued == LogicSpec => []NullMeansUnknown
<1>1. LogicInit => LogicInv
  <2> SUFFICES ASSUME LogicInit PROVE LogicInv
    BY Zenon
  <2>1. Counted(0, 0, 0, 0)
    BY DEF Counted
  <2> QED BY <2>1, Outcomes DEF LogicInit, LogicInv, NullMeansUnknown
<1>2. LogicInv /\ [LogicNext]_logicVars => LogicInv'
  <2> SUFFICES ASSUME LogicInv, [LogicNext]_logicVars PROVE LogicInv'
    BY Zenon
  <2>1. CASE NextElement
    <3> DEFINE v == list[pos + 1]
               t == IF v = T THEN trues + 1 ELSE trues
               f == IF v = F THEN falses + 1 ELSE falses
               u == IF v = N THEN unknowns + 1 ELSE unknowns
    <3>1. list \in Seq({T, F, N}) /\ kind \in Loops /\ pos \in Nat /\ pos < Len(list) /\ pos + 1 \in 0..Len(list)
      BY <2>1 DEF NextElement, LogicInv
    <3>2. Counted(pos + 1, t, f, u)
      BY Zenon, <3>1, CountedStep DEF LogicInv
    <3>3. /\ pos' = pos + 1 /\ trues' = t /\ falses' = f /\ unknowns' = u
          /\ answer = "pending" /\ answer' = IF Stops(t, f) THEN Result(t, f, u) ELSE answer
          /\ kind' = kind /\ list' = list
      BY Zenon, <2>1 DEF NextElement
    <3> HIDE DEF v, t, f, u
    <3>4. Counted(pos, trues, falses, unknowns)'
      BY Zenon, <3>2, <3>3 DEF Counted
    <3>5. CASE Stops(t, f)
      <4>1. answer' \in {T, F, N} /\ Right(answer')
        BY Zenon, <3>1, <3>2, <3>3, <3>5, LoopRight
      <4>2. Right(answer)'
        BY Zenon, <4>1, <3>3 DEF Right, Completions, Says
      <4> QED BY Zenon, <4>1, <4>2, <3>1, <3>3, <3>4 DEF LogicInv, NullMeansUnknown
    <3>6. CASE ~Stops(t, f)
      BY Zenon, <3>1, <3>3, <3>4, <3>6 DEF LogicInv, NullMeansUnknown
    <3> QED BY Zenon, <3>5, <3>6
  <2>2. CASE ListDone
    <3>1. /\ list \in Seq({T, F, N}) /\ kind \in Loops /\ pos \in 0..Len(list) /\ pos = Len(list)
          /\ Counted(pos, trues, falses, unknowns)
      BY Zenon, <2>2 DEF ListDone, LogicInv
    <3>2. /\ answer' = Result(trues, falses, unknowns)
          /\ UNCHANGED <<kind, list, pos, trues, falses, unknowns>>
      BY Zenon, <2>2 DEF ListDone
    <3>3. answer' \in {T, F, N} /\ Right(answer')
      BY Zenon, <3>1, <3>2, LoopRight
    <3>4. Right(answer)'
      BY Zenon, <3>3, <3>2 DEF Right, Completions, Says
    <3> QED BY Zenon, <3>2, <3>3, <3>4 DEF LogicInv, Counted, NullMeansUnknown
  <2>3. CASE BoolOp
    <3>1. list \in Seq({T, F, N}) /\ Len(list) = 2 /\ kind \in {"AND", "OR"} /\ DOMAIN list = {1, 2}
          /\ list[1] \in {T, F, N} /\ list[2] \in {T, F, N}
      BY <2>3 DEF BoolOp, LogicInv
    <3>2. UNCHANGED <<kind, list, pos, trues, falses, unknowns>>
      BY Zenon, <2>3 DEF BoolOp
    <3>3. T # N /\ F # N /\ T # F
      BY Zenon DEF T, F, N
    <3>4. CASE kind = "OR"
      <4>1. answer' = IF list[1] = T \/ list[2] = T THEN T ELSE IF list[1] = N \/ list[2] = N THEN N ELSE F
        BY Zenon, <2>3, <3>4 DEF BoolOp, Bool
      <4>2. answer' \in {T, F, N} /\ Right(answer')
        BY Zenon, <3>1, <3>3, <3>4, <4>1, SomeRight
      <4>3. Right(answer)'
        BY Zenon, <4>2, <3>2 DEF Right, Completions, Says
      <4> QED BY Zenon, <4>2, <4>3, <3>2 DEF LogicInv, Counted, NullMeansUnknown
    <3>5. CASE kind = "AND"
      <4>1. answer' = IF list[1] = F \/ list[2] = F THEN F ELSE IF list[1] = N \/ list[2] = N THEN N ELSE T
        BY Zenon, <2>3, <3>5 DEF BoolOp, Bool
      <4>2. answer' \in {T, F, N} /\ Right(answer')
        BY Zenon, <3>1, <3>3, <3>5, <4>1, AllRight
      <4>3. Right(answer)'
        BY Zenon, <4>2, <3>2 DEF Right, Completions, Says
      <4> QED BY Zenon, <4>2, <4>3, <3>2 DEF LogicInv, Counted, NullMeansUnknown
    <3> QED BY Zenon, <3>1, <3>4, <3>5
  <2>4. CASE UNCHANGED logicVars
    BY ZenonT(30), <2>4 DEF logicVars, LogicInv, Counted, NullMeansUnknown, Right, Completions, Says
  <2> QED BY Zenon, <2>1, <2>2, <2>3, <2>4 DEF LogicNext
<1>3. LogicInv => NullMeansUnknown
  BY Zenon DEF LogicInv
<1> QED BY <1>1, <1>2, <1>3, PTL DEF LogicSpec

=============================================================================
