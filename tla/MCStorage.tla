----------------------------- MODULE MCStorage -----------------------------
(* What lies under the graph layer: the bbolt adapter (Bolt), lookups in a  *)
(* property index (PropLookup), the index keys themselves (IndexCodec) and   *)
(* the catalog with the schema statements (Schema).  A behaviour is one of   *)
(* them; the others stay as they start.                                     *)
EXTENDS PropLookup, Schema, Bolt, IndexCodec

CONSTANTS Precision, Width

VARIABLE part

----------------------------------------------------------------------------
(* Numbers of a small width: integers from -2^Width, floats in halves with   *)
(* Precision significant bits; ties go to the even significand.              *)

Least == -(2 ^ Width)
Most == 2 ^ Width - 1
Exact == 2 ^ Precision
Largest == 2 ^ (Width + 2)
Halves == {h \in -Largest..Largest :
              \E e \in 0..(Width + 2) : h % (2 ^ e) = 0 /\ Abs(h) <= 2 ^ (Precision + e)}
EvenIn(h, e) == h % (2 ^ (e + 1)) = 0
Nearest(n) ==
    LET dist(h) == Abs(h - 2 * n)
        best == {h \in Halves : \A g \in Halves : dist(h) <= dist(g)}
    IN CHOOSE h \in best : \A g \in best : h = g \/ \E e \in 0..(Width + 2) : EvenIn(h, e) /\ ~EvenIn(g, e)
TiesToEven == [n \in Least..Most |-> Nearest(n)]

----------------------------------------------------------------------------
(* Lookups: any two values of every kind (of the negative numbers the       *)
(* extreme ones and those next to zero), asked about around zero and around *)
(* the largest exact integer.                                               *)

All == {v \in Ints \cup Floats : v.n >= -2 \/ v.n \in {MinInt, -Infinite}}
          \cup {StringOf(0), StringOf(1), Null}
Around == {IntOf(n) : n \in {0, maxExactInt, maxExactInt + 1, MaxInt}}
             \cup {FloatOf(h) : h \in {-1, 1, One * maxExactInt, -Infinite}}
             \cup {NegZero, NaN, StringOf(1)}

----------------------------------------------------------------------------
(* Bolt: one transaction that buffers 2s and deletions over a bucket of 1s *)
(* in three keys, or a reader with iterators beside a writer, on two keys  *)
(* and one value.                                                          *)

Ranges == {[lo |-> 1, hi |-> 3], [lo |-> 2, hi |-> 2]}

Values(f) == {f[k] : k \in Key} \cap Value
Keys(f) == {k \in Key : f[k] \notin {None, Unset}}
OneTxn == \A t \in Txn : Values(base[t]) \subseteq {1} /\ Values(pending[t]) \subseteq {2}
TwoTxns == /\ Keys(bucket) \subseteq {1, 2} /\ Values(bucket) \subseteq {1}
           /\ \A t \in Txn : Keys(pending[t]) \subseteq {1, 2} /\ Values(pending[t]) \subseteq {1}
Beside == \E t, u \in Txn : mode[t] = "rw" /\ iter[t].pc = "closed" /\ mode[u] = "ro"
BoltFocus == IF \E t \in Txn : mode[t] = "idle" THEN OneTxn ELSE TwoTxns /\ Beside

\* Of two nodes the first gets any value, the second one that is asked about.
LookupFocus == value[1] = Absent => value[2] = Absent
Focus == BoltFocus /\ (part = "lookup" => LookupFocus /\ value[2] \in Around \cup {Null, Absent})

----------------------------------------------------------------------------
(* Schema: one of the names given is the default name of an index.          *)

OneLabel == {<<"a">>}
OneType == {<<"t">>}
TwoKeys == {<<"c">>, <<"b", "c">>}
TwoNames == {<<"x">>, <<"index", "a", "c">>}

----------------------------------------------------------------------------
MCInit ==
    /\ part \in {"bolt", "lookup", "unique", "codec", "schema"}
    /\ Init /\ BoltInit /\ CodecInit /\ SchemaInit
    /\ constrained = (part = "unique")
    /\ part # "bolt" => bucket = Nothing

\* Under the constraint only the writes matter.
MCNext ==
    /\ UNCHANGED part
    /\ \/ part = "bolt" /\ BoltNext /\ UNCHANGED <<vars, codecVars, schemaVars>>
       \/ part = "lookup" /\ Next /\ UNCHANGED <<boltVars, codecVars, schemaVars>>
       \/ part = "unique" /\ (\E n \in Node, v \in Stored : Put(n, v)) /\ UNCHANGED <<boltVars, codecVars, schemaVars>>
       \/ part = "codec" /\ CodecNext /\ UNCHANGED <<vars, boltVars, schemaVars>>
       \/ part = "schema" /\ SchemaNext /\ UNCHANGED <<vars, boltVars, codecVars>>

MCSpec == MCInit /\ [][MCNext]_<<part, vars, boltVars, codecVars, schemaVars>>
=============================================================================
