------------------------------- MODULE Parser -------------------------------
(***************************************************************************)
(* The expression parser (query/parser/parser.go), by binding powers.  The  *)
(* tokens stand for kinds: "x" is an identifier, "1" a literal.  A parse     *)
(* gives a tree and the place of the next token, or fails.                   *)
(***************************************************************************)
EXTENDS Integers, Sequences, SequencesExt

CONSTANTS Inputs,   \* token sequences to parse
          Trees     \* expressions to write down and read back

VARIABLES toks,   \* the tokens of the source
          goal    \* the tree they were written from, if any

parserVars == <<toks, goal>>

None == <<>>
SyntaxError == [ok |-> FALSE, at |-> 0, tree |-> None]
Done(at, tree) == [ok |-> TRUE, at |-> at, tree |-> tree]

Tok(at) == IF at > Len(toks) THEN "EOF" ELSE toks[at]
expect(at, t, tree) == IF Tok(at) = t THEN Done(at + 1, tree) ELSE SyntaxError

infixBP == [t \in {"OR", "AND", "=", "+", "-", "*"} |->
               CASE t = "OR" -> 1 [] t = "AND" -> 2 [] t = "=" -> 4 [] t \in {"+", "-"} -> 5 [] t = "*" -> 6]
bpCompare == 4
bpNot == 3
bpUnaryMinus == 7

\* Words: no word is reserved, an operator's name can be a variable.
Idents == {"x", "OR", "AND", "IS", "IN", "NOT", "NULL", "WHERE", "CASE", "WHEN", "THEN", "ELSE", "END", "any", "DISTINCT"}

RECURSIVE parseExpr(_, _), parseLabels(_, _), Infix(_, _, _), parsePostfix(_, _), parsePrimary(_), Elements(_, _, _), Whens(_, _)

\* An optional part: keyword or sign, then an expression.
Clause(r, word) ==
    IF ~r.ok THEN SyntaxError
    ELSE IF Tok(r.at) # word THEN Done(r.at, Append(r.tree, None))
    ELSE LET e == parseExpr(r.at + 1, 0) IN IF e.ok THEN Done(e.at, Append(r.tree, e.tree)) ELSE SyntaxError

parsePrefix(at) ==
    IF Tok(at) \in {"NOT", "-"}
    THEN LET e == parseExpr(at + 1, IF Tok(at) = "NOT" THEN bpNot ELSE bpUnaryMinus)
         IN IF e.ok THEN Done(e.at, <<IF Tok(at) = "NOT" THEN "NOT" ELSE "neg", e.tree>>) ELSE SyntaxError
    ELSE LET e == parsePrimary(at) IN IF e.ok THEN parsePostfix(e.at, e.tree) ELSE SyntaxError

parseExpr(at, minBP) == LET e == parsePrefix(at) IN IF e.ok THEN Infix(e.at, e.tree, minBP) ELSE SyntaxError

\* Mutant of RightBP: operators of one level group to the right.
RightBP_Same(bp) == bp

\* The right operand takes only tighter operators.
RightBP(bp) == bp + 1

Binary(at, op, left, bp, minBP) ==
    LET e == parseExpr(at + 1, RightBP(bp)) IN IF e.ok THEN Infix(e.at, <<op, left, e.tree>>, minBP) ELSE SyntaxError

\* IS NULL, IS NOT NULL, IN (with STARTS WITH, ENDS WITH and CONTAINS), then the
\* operators of one token.
Infix(at, left, minBP) ==
    IF minBP <= bpCompare /\ Tok(at) = "IS" /\ Tok(at + 1) = "NULL" THEN Infix(at + 2, <<"IS NULL", left>>, minBP)
    ELSE IF minBP <= bpCompare /\ Tok(at) = "IS" /\ Tok(at + 1) = "NOT" /\ Tok(at + 2) = "NULL"
    THEN Infix(at + 3, <<"IS NOT NULL", left>>, minBP)
    ELSE IF minBP <= bpCompare /\ Tok(at) = "IN" THEN Binary(at, "IN", left, bpCompare, minBP)
    ELSE IF Tok(at) \in DOMAIN infixBP /\ infixBP[Tok(at)] >= minBP THEN Binary(at, Tok(at), left, infixBP[Tok(at)], minBP)
    ELSE Done(at, left)

\* [index], [from..to], [from..] and [..to]
parseSubscript(at, left) ==
    LET from == IF Tok(at + 1) = ".." THEN Done(at + 1, None) ELSE parseExpr(at + 1, 0)
        to == IF Tok(from.at + 1) = "]" THEN Done(from.at + 1, None) ELSE parseExpr(from.at + 1, 0)
    IN IF ~from.ok THEN SyntaxError
       ELSE IF Tok(from.at) # ".." THEN expect(from.at, "]", <<"[]", left, from.tree>>)
       ELSE IF ~to.ok THEN SyntaxError ELSE expect(to.at, "]", <<"..", left, from.tree, to.tree>>)

\* A label predicate ends the postfix operators.
parseLabels(at, tree) ==
    IF Tok(at) # ":" THEN Done(at, tree)
    ELSE IF Tok(at + 1) \in Idents THEN parseLabels(at + 2, Append(tree, <<Tok(at + 1)>>)) ELSE SyntaxError

parsePostfix(at, left) ==
    CASE Tok(at) = "[" -> (LET r == parseSubscript(at, left) IN IF r.ok THEN parsePostfix(r.at, r.tree) ELSE SyntaxError)
      [] Tok(at) = ":" -> parseLabels(at, <<":", left>>)
      [] Tok(at) = "." -> IF Tok(at + 1) \in Idents THEN parsePostfix(at + 2, <<".", left, <<Tok(at + 1)>>>>) ELSE SyntaxError
      [] OTHER -> Done(at, left)

\* Expressions up to a closing sign, separated by commas; at least one.
Elements(at, tree, close) ==
    LET e == parseExpr(at, 0)
    IN IF ~e.ok THEN SyntaxError
       ELSE IF Tok(e.at) = "," THEN Elements(e.at + 1, Append(tree, e.tree), close)
       ELSE expect(e.at, close, Append(tree, e.tree))

\* variable IN list
parseInClause(at, kind) ==
    IF Tok(at) \notin Idents \/ Tok(at + 1) # "IN" THEN SyntaxError
    ELSE LET e == parseExpr(at + 2, 0) IN IF e.ok THEN Done(e.at, <<kind, <<Tok(at)>>, e.tree>>) ELSE SyntaxError

parseListComprehension(at) ==
    LET r == Clause(Clause(parseInClause(at + 1, "each"), "WHERE"), "|")
    IN IF r.ok THEN expect(r.at, "]", r.tree) ELSE SyntaxError

parseListLiteral(at) ==
    IF Tok(at + 1) \in Idents /\ Tok(at + 2) = "IN" THEN parseListComprehension(at)
    ELSE IF Tok(at + 1) = "]" THEN Done(at + 2, <<"list">>)
    ELSE Elements(at + 1, <<"list">>, "]")

\* any, all, none and single over a list, or a call.
parseFunctionCall(at) ==
    IF Tok(at) = "any" /\ Tok(at + 2) \in Idents /\ Tok(at + 3) = "IN"
    THEN LET in == parseInClause(at + 2, "any")
             r == Clause(in, "WHERE")
         IN IF in.ok /\ Tok(in.at) = "WHERE" /\ r.ok THEN expect(r.at, ")", r.tree) ELSE SyntaxError
    ELSE LET distinct == Tok(at + 2) = "DISTINCT"
             from == IF distinct THEN at + 3 ELSE at + 2
             call == <<IF distinct THEN "f distinct" ELSE "f", <<Tok(at)>>>>
         IN CASE Tok(from) = "*" -> expect(from + 1, ")", Append(call, <<"*">>))
              [] Tok(from) = ")" -> Done(from + 1, call)
              [] OTHER -> Elements(from, call, ")")

\* One WHEN after another; at least one.
Whens(at, tree) ==
    LET cond == parseExpr(at + 1, 0)
        then == parseExpr(cond.at + 1, 0)
        both == tree \o <<cond.tree, then.tree>>
    IN IF ~cond.ok \/ Tok(cond.at) # "THEN" \/ ~then.ok THEN SyntaxError
       ELSE IF Tok(then.at) = "WHEN" THEN Whens(then.at, both)
       ELSE LET r == Clause(Done(then.at, both), "ELSE") IN IF r.ok THEN expect(r.at, "END", r.tree) ELSE SyntaxError

parseCase(at) ==
    LET operand == IF Tok(at + 1) = "WHEN" THEN Done(at + 1, None) ELSE parseExpr(at + 1, 0)
    IN IF operand.ok /\ Tok(operand.at) = "WHEN" THEN Whens(operand.at, <<"case", operand.tree>>) ELSE SyntaxError

parsePrimary(at) ==
    LET t == Tok(at)
    IN CASE t = "1" -> Done(at + 1, <<"1">>)
         [] t = "(" -> (LET e == parseExpr(at + 1, 0) IN IF e.ok THEN expect(e.at, ")", e.tree) ELSE SyntaxError)
         [] t = "[" -> parseListLiteral(at)
         [] t = "NULL" -> Done(at + 1, <<t>>)
         [] t = "CASE" -> parseCase(at)
         [] t \in Idents \ {"NULL", "CASE"} /\ Tok(at + 1) = "(" -> parseFunctionCall(at)
         [] t \in Idents \ {"NULL", "CASE"} /\ Tok(at + 1) # "(" -> Done(at + 1, <<t>>)
         [] OTHER -> SyntaxError

\* A whole expression: nothing may be left over (Parse).
Parsed == LET e == parseExpr(1, 0) IN IF e.ok /\ e.at = Len(toks) + 1 THEN e ELSE SyntaxError

-----------------------------------------------------------------------------
(* How an expression is written: with parentheses only where an operand      *)
(* binds less tightly than its place, operators of one level from the left.  *)

Level(tree) ==
    IF Len(tree) = 1 THEN 9
    ELSE CASE tree[1] = "OR" -> 1 [] tree[1] = "AND" -> 2 [] tree[1] = "NOT" -> 3
           [] tree[1] \in {"=", "IN", "IS NULL", "IS NOT NULL"} -> 4
           [] tree[1] \in {"+", "-"} -> 5 [] tree[1] = "*" -> 6 [] tree[1] = "neg" -> 7
           [] tree[1] = ":" -> 8 [] OTHER -> 9

RECURSIVE Write(_)

Operand(tree, level) == IF Level(tree) < level THEN <<"(">> \o Write(tree) \o <<")">> ELSE Write(tree)
Commas(trees) == FlattenSeq([i \in DOMAIN trees |-> (IF i = 1 THEN <<>> ELSE <<",">>) \o Write(trees[i])])
Optional(word, tree) == IF tree = None THEN <<>> ELSE word \o Write(tree)

\* [x IN ...] would be a comprehension.
Listed(tokens) == IF Len(tokens) > 1 /\ tokens[1] \in Idents /\ tokens[2] = "IN" THEN <<"(">> \o tokens \o <<")">> ELSE tokens

Write(tree) ==
    LET e == tree[2]
        n == Len(tree)
    IN CASE n = 1 /\ tree[1] # "list" -> tree
         [] tree[1] = "NOT" /\ n = 2 -> <<"NOT">> \o Operand(e, 3)
         [] tree[1] = "neg" -> <<"-">> \o Operand(e, 7)
         [] tree[1] = "IS NULL" -> Operand(e, 4) \o <<"IS", "NULL">>
         [] tree[1] = "IS NOT NULL" -> Operand(e, 4) \o <<"IS", "NOT", "NULL">>
         [] tree[1] \in {"OR", "AND", "=", "IN", "+", "-", "*"} /\ n = 3 ->
                Operand(e, Level(tree)) \o <<tree[1]>> \o Operand(tree[3], Level(tree) + 1)
         [] tree[1] = "." -> Operand(e, 9) \o <<".">> \o tree[3]
         [] tree[1] = ":" -> Operand(e, 9) \o FlattenSeq([i \in 1..n - 2 |-> <<":">> \o tree[i + 2]])
         [] tree[1] = "[]" -> Operand(e, 9) \o <<"[">> \o Write(tree[3]) \o <<"]">>
         [] tree[1] = ".." -> Operand(e, 9) \o <<"[">> \o Optional(<<>>, tree[3]) \o <<"..">> \o Optional(<<>>, tree[4]) \o <<"]">>
         [] tree[1] = "list" /\ n = 1 -> <<"[", "]">>
         [] tree[1] = "list" /\ n > 1 ->
                <<"[">> \o Listed(Write(e)) \o (IF n > 2 THEN <<",">> ELSE <<>>) \o Commas(SubSeq(tree, 3, n)) \o <<"]">>
         [] tree[1] = "each" -> <<"[">> \o e \o <<"IN">> \o Write(tree[3]) \o Optional(<<"WHERE">>, tree[4]) \o Optional(<<"|">>, tree[5]) \o <<"]">>
         [] tree[1] = "any" -> <<"any", "(">> \o e \o <<"IN">> \o Write(tree[3]) \o <<"WHERE">> \o Write(tree[4]) \o <<")">>
         [] tree[1] \in {"f", "f distinct"} ->
                e \o <<"(">> \o (IF tree[1] = "f" THEN <<>> ELSE <<"DISTINCT">>) \o Commas(SubSeq(tree, 3, n)) \o <<")">>
         [] tree[1] = "case" ->
                <<"CASE">> \o Optional(<<>>, e) \o <<"WHEN">> \o Write(tree[3]) \o <<"THEN">> \o Write(tree[4])
                    \o (IF n > 5 THEN <<"WHEN">> \o Write(tree[5]) \o <<"THEN">> \o Write(tree[6]) ELSE <<>>)
                    \o Optional(<<"ELSE">>, tree[n]) \o <<"END">>

ParserInit == \/ toks \in Inputs /\ goal = None
              \/ goal \in Trees /\ toks = Write(goal)

\* What was parsed is written down, to be read again.
Rewrite == /\ goal = None /\ Parsed.ok
           /\ goal' = Parsed.tree /\ toks' = Write(Parsed.tree)

ParserNext == Rewrite

ParserSpec == ParserInit /\ [][ParserNext]_parserVars

\* An expression with its parentheses left out.
Flat(tokens) == SelectSeq(tokens, LAMBDA t : t \notin {"(", ")"})

\* A tree groups as the levels say and loses nothing: an expression written with
\* the fewest parentheses is read back as itself, and whatever is accepted
\* consists of all the tokens of the source in their order (parseExpr, infixBP,
\* parsePrefix, parsePostfix, parsePrimary).
ReadsBack ==
    /\ goal # None => Parsed.ok /\ Parsed.tree = goal
    /\ goal = None /\ Parsed.ok => Flat(Write(Parsed.tree)) = Flat(toks)
=============================================================================
