----------------------------- MODULE IndexCodec -----------------------------
(***************************************************************************)
(* The order-preserving encoding of indexed values (storage/codec/value.go)*)
(* inside the `p` keys (storage/codec/key.go).  A key is a sequence of     *)
(* digits compared lexicographically; an 8-byte big-endian number is one   *)
(* digit, whose highest bit weighs SignBit, and a string is a sequence of  *)
(* bytes from Byte.                                                        *)
(***************************************************************************)
EXTENDS Integers, Sequences, FiniteSets

CONSTANTS SignBit,        \* 2^63 in the code
          Byte,           \* the bytes of strings
          MaxLen,         \* longest string
          Id,             \* node identifiers
          MaxEntries      \* entries put into the index

ASSUME CodecAssumption ==
    /\ SignBit \in Nat \ {0}
    /\ Byte \subseteq 0..255
    /\ MaxLen \in Nat /\ Id \subseteq Nat /\ MaxEntries \in Nat

tagNull == 0
tagBool == 1
tagInt == 2
tagFloat == 3
tagStr == 4
strEsc == 0
strFF == 255
strTerm == 0

Strings == UNION {[1..l -> Byte] : l \in 0..MaxLen}
Digit(S) == {<<x>> : x \in S}
\* A value's content is a sequence: nothing, one number, or the bytes.
Encodable == [kind : {"null"}, v : {<<>>}]
             \cup [kind : {"bool"}, v : Digit({0, 1})]
             \cup [kind : {"int"}, v : Digit((-SignBit)..(SignBit - 1))]
             \cup [kind : {"float"}, v : Digit(0..(2 * SignBit - 1))]
             \cup [kind : {"string"}, v : Strings]

----------------------------------------------------------------------------
(* Encoding.                                                               *)

Escaped(b) == IF b = strEsc THEN <<strEsc, strFF>> ELSE <<b>>

\* What the loop over s has appended after i bytes of it.
Appended(s) ==
    LET dst[i \in 0..Len(s)] == IF i = 0 THEN <<>> ELSE dst[i - 1] \o Escaped(s[i])
    IN dst

\* Mutant of appendOrderedString: 0x00 is not escaped.
appendOrderedString_Raw(s) == s \o <<strTerm, strTerm>>

\* 0x00 becomes 0x00 0xFF, and 0x00 0x00 ends the string.
appendOrderedString(s) == Appended(s)[Len(s)] \o <<strTerm, strTerm>>

\* All bits of a negative float are inverted, the sign of others is set.
floatDigit(bits) == IF bits >= SignBit THEN 2 * SignBit - 1 - bits ELSE bits + SignBit

\* Two's complement with the sign bit flipped.
intDigit(i) == i + SignBit

AppendIndexValue(x) ==
    CASE x.kind = "null" -> <<tagNull>>
      [] x.kind = "bool" -> <<tagBool, x.v[1]>>
      [] x.kind = "int" -> <<tagInt, intDigit(x.v[1])>>
      [] x.kind = "float" -> <<tagFloat, floatDigit(x.v[1])>>
      [] x.kind = "string" -> <<tagStr>> \o appendOrderedString(x.v)

AppendStringPrefix(s) == LET enc == <<tagStr>> \o appendOrderedString(s) IN SubSeq(enc, 1, Len(enc) - 2)

IndexKeyOf(x, n) == Append(AppendIndexValue(x), n)

----------------------------------------------------------------------------
(* Decoding, which finds the end of the value inside the key.              *)

\* A decoded value and the digits it takes; or the error.
Decoded(kind, v, size) == [end |-> "ok", kind |-> kind, v |-> v, size |-> size]
Malformed == [end |-> "malformed"]

\* A round of the loop of decodeOrderedString: it is at byte i of src, with b
\* read so far, until the terminator or an error.
Reading(end, i, b) == [end |-> end, i |-> i, b |-> b]
decodeRound(src, r) ==
    IF r.end # "open" THEN r
    ELSE IF r.i > Len(src) THEN Reading("malformed", r.i, r.b)
    ELSE IF src[r.i] # strEsc THEN Reading("open", r.i + 1, Append(r.b, src[r.i]))
    ELSE IF r.i + 1 > Len(src) THEN Reading("malformed", r.i, r.b)
    ELSE IF src[r.i + 1] = strTerm THEN Reading("ok", r.i + 2, r.b)
    ELSE IF src[r.i + 1] = strFF THEN Reading("open", r.i + 2, Append(r.b, strEsc))
    ELSE Reading("malformed", r.i, r.b)

\* The rounds: each but the last reads a byte or two.
Rounds(src) ==
    LET round[k \in 0..(Len(src) + 1)] == IF k = 0 THEN Reading("open", 1, <<>>) ELSE decodeRound(src, round[k - 1])
    IN round

decodeOrderedString(src) == Rounds(src)[Len(src) + 1]

floatBitsOf(d) == IF d >= SignBit THEN d - SignBit ELSE 2 * SignBit - 1 - d

DecodeIndexValue(src) ==
    CASE src[1] = tagNull -> Decoded("null", <<>>, 1)
      [] src[1] = tagBool -> Decoded("bool", <<IF src[2] # 0 THEN 1 ELSE 0>>, 2)
      [] src[1] = tagInt -> Decoded("int", <<src[2] - SignBit>>, 2)
      [] src[1] = tagFloat -> Decoded("float", <<floatBitsOf(src[2])>>, 2)
      [] src[1] = tagStr -> LET r == decodeOrderedString(Tail(src))
                            IN IF r.end = "ok" THEN Decoded("string", r.b, r.i) ELSE Malformed

\* ParsePropKey: the value and the node, and nothing left over.
ParsePropKey(key) ==
    LET d == DecodeIndexValue(key)
    IN IF d.end = "ok" /\ Len(key) = d.size + 1
       THEN [end |-> "ok", value |-> [kind |-> d.kind, v |-> d.v], node |-> key[Len(key)]]
       ELSE Malformed

----------------------------------------------------------------------------
(* An index that entries are put into.                                     *)

VARIABLES entries,        \* what was put: pairs <<value, node>>
          keys            \* the `p` keys

codecVars == <<entries, keys>>

CodecInit == entries = {} /\ keys = {}

PutKey(x, n) ==
    /\ Cardinality(entries) < MaxEntries
    /\ \A e \in entries : e[2] # n
    /\ entries' = entries \cup {<<x, n>>}
    /\ keys' = keys \cup {IndexKeyOf(x, n)}

CodecNext == \E x \in Encodable, n \in Id : PutKey(x, n)
CodecSpec == CodecInit /\ [][CodecNext]_codecVars

----------------------------------------------------------------------------
KindRank(x) == CASE x.kind = "null" -> 0 [] x.kind = "bool" -> 1 [] x.kind = "int" -> 2
                 [] x.kind = "float" -> 3 [] x.kind = "string" -> 4

\* t starts with s.
Starts(s, t) == Len(s) <= Len(t) /\ \A i \in 1..Len(s) : s[i] = t[i]

\* bytes.Compare(s, t) < 0.
Before(s, t) ==
    \/ Starts(s, t) /\ Len(s) < Len(t)
    \/ \E i \in 1..Len(s) : i <= Len(t) /\ s[i] < t[i] /\ \A j \in 1..(i - 1) : s[j] = t[j]

\* The value a float's bits stand for, up to monotone rescaling: -0.0 < 0.0.
Magnitude(bits) == IF bits >= SignBit THEN -1 - (bits - SignBit) ELSE bits

\* The logical order of two values: bands, then values.
Precedes(x, y) ==
    \/ KindRank(x) < KindRank(y)
    \/ /\ x.kind = y.kind
       /\ CASE x.kind = "null" -> FALSE
            [] x.kind = "bool" -> x.v[1] < y.v[1]
            [] x.kind = "int" -> x.v[1] < y.v[1]
            [] x.kind = "float" -> Magnitude(x.v[1]) < Magnitude(y.v[1])
            [] x.kind = "string" -> Before(x.v, y.v)

KeyTypes == \A k \in keys : \A i \in 1..Len(k) : k[i] \in Nat

\* The comment on AppendIndexValue: the byte order of index keys is the order
\* of the values, and of the nodes for equal ones, so a scan is sorted.
OrderPreserved ==
    \A e, f \in entries :
        Before(IndexKeyOf(e[1], e[2]), IndexKeyOf(f[1], f[2]))
            <=> Precedes(e[1], f[1]) \/ (e[1] = f[1] /\ e[2] < f[2])

\* A key says which value and which node it is for, wherever the value ends.
KeysParse == {ParsePropKey(k) : k \in keys} = {[end |-> "ok", value |-> e[1], node |-> e[2]] : e \in entries}

\* Looking for the keys that start with the encoding of a value finds the
\* nodes that have it and no others (PropPrefix), and with the encoding of a
\* string without its end those whose string starts with it.
PrefixesExact ==
    \A x \in Encodable :
        /\ {e \in entries : Starts(AppendIndexValue(x), IndexKeyOf(e[1], e[2]))} = {e \in entries : e[1] = x}
        /\ x.kind = "string" =>
               {e \in entries : Starts(AppendStringPrefix(x.v), IndexKeyOf(e[1], e[2]))}
                   = {e \in entries : e[1].kind = "string" /\ Starts(x.v, e[1].v)}

\* The byte order of index keys is the order of values (AppendIndexValue), a
\* key says which value and node it is for (ParsePropKey), and a prefix scan
\* finds exactly its entries (PropPrefix, AppendStringPrefix).
KeysExact == KeyTypes /\ OrderPreserved /\ KeysParse /\ PrefixesExact
=============================================================================
