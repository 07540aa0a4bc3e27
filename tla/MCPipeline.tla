----------------------------- MODULE MCPipeline -----------------------------
(* The layers of a query side by side: its text (Parser), its names (Scopes),*)
(* integers (Arithmetic), three-valued logic (Logic), grouping, DISTINCT,     *)
(* UNION and ORDER BY (Results), and the rows of a statement as it writes     *)
(* (Pipeline).  A behaviour is one of them; the others stay as they start.   *)
EXTENDS Pipeline, Parser, Scopes, Arithmetic, Logic

CONSTANTS Parts,                   \* the layers that run
          Queries, MaxRows, MaxSum  \* Results

VARIABLES part,
          query, input, side, seen, groups, order, out, phase

resultVars == <<query, input, side, seen, groups, order, out, phase>>

Res == INSTANCE Results WITH arm <- side, status <- phase

----------------------------------------------------------------------------
(* Pipeline: small graphs and the statements asked of them.                 *)

NoLimit == 99
Graph(rec, edge) == [rec |-> rec, edge |-> edge, next |-> Cardinality(DOMAIN rec) + 1]

\* Up to three nodes with any label and value, no edges.
Plain == UNION {{Graph(rec, {}) : rec \in [1..k -> [l : 0..1, v : 0..2]]} : k \in 1..3}

\* Three labelled nodes and every set of edges among them.
Linked == {Graph([n \in 1..3 |-> Rec(1, n - 1)], edge) : edge \in SUBSET ((1..3) \X (1..3))}

Statement(sources, matches, optional, barrier, writes, limits) ==
    [source : sources, match : matches, optional : optional, barrier : barrier,
     write : writes, skip : {0}, limit : limits]
Skipping(statements) == {[s EXCEPT !.skip = 1] : s \in statements}

Sources == {"all", "label"}
Writes == {"markA", "setB", "dropA", "create", "deleteB", "detachA", "detachB"}

\* The index may not change: reads, writes behind a barrier, optional matches.
Indifferent ==
    Statement(Sources, {"join"}, BOOLEAN, BOOLEAN, {"none"}, {0, 1, 2, NoLimit})
        \cup Skipping(Statement(Sources, {"join"}, {TRUE}, BOOLEAN, {"none", "create"}, {1, NoLimit}))
        \cup Statement(Sources, {"join"}, {FALSE}, {TRUE}, Writes, {1, NoLimit})
        \cup Statement(Sources, {"join"}, {TRUE}, BOOLEAN, Writes, {1, NoLimit})
IndexOrNot == {<<[indexed |-> FALSE, cap |-> 0], [indexed |-> TRUE, cap |-> 0]>>}

\* Writes streamed row by row.
Streamed ==
    Statement(Sources, {"join"}, {FALSE}, {FALSE}, Writes, {1, NoLimit})
        \cup Statement(Sources, {"none"}, {FALSE}, {FALSE}, {"markA", "create", "dropA", "detachA", "merge"}, {1, NoLimit})
Alone == {<<[indexed |-> i, cap |-> 0]>> : i \in BOOLEAN}

\* Relationships followed while nodes are deleted.
Followed == Statement({"all"}, {"expand"}, BOOLEAN, BOOLEAN, {"none", "setA", "setB", "deleteB", "detachA", "detachB"}, {NoLimit})
Plainly == {<<[indexed |-> FALSE, cap |-> 0]>>}
CapOrNot == {<<[indexed |-> FALSE, cap |-> 0], [indexed |-> FALSE, cap |-> c]>> : c \in {1, 2}}
Capped == Skipping(Statement({"label"}, {"expand"}, {FALSE}, {FALSE}, {"setB"}, {NoLimit}))
              \cup Statement(Sources, {"expand"}, {FALSE}, {FALSE}, {"none", "setB", "detachB"}, {2, NoLimit})
CappedScans == Statement(Sources, {"none"}, {FALSE}, {FALSE}, {"create", "dropA", "merge"}, {0, 1, NoLimit})

Case(graphs, statements, settings) == [graphs |-> graphs, statements |-> statements, settings |-> settings]
Sound == {Case(Plain, Indifferent, IndexOrNot), Case(Plain, Streamed, Alone),
          Case(Plain, CappedScans, CapOrNot),
          Case(Linked, Capped, CapOrNot), Case(Linked, Followed, Plainly)}

\* Statements whose outcome is not what a comment or a test says.
StreamedCreate == Statement({"label"}, {"join"}, {FALSE}, {FALSE}, {"create"}, {NoLimit})
AliasSet == Statement({"label"}, {"join"}, {FALSE}, {FALSE}, {"markA"}, {NoLimit})
LinkedDetach == Statement({"label"}, {"expand"}, {FALSE}, {FALSE}, {"detachB"}, {NoLimit})
CreateJoined == {Case(Plain, StreamedCreate, IndexOrNot)}
SetAliased == {Case(Plain, AliasSet, Plainly)}
DetachAhead == {Case(Linked, LinkedDetach, Plainly)}

----------------------------------------------------------------------------
(* Parser: every short sequence of tokens, and every expression of two       *)
(* operators, one inside the other.                                          *)

Tokens == {"x", "NOT", "-", "*", "=", "AND", "IS", "NULL", "IN", "(", ")", "[", "]"}
Short == UNION {[1..n -> Tokens] : n \in 1..4}
            \cup [1..5 -> {"x", "NOT", "-", "*", "=", "(", ")"}]

X == <<"x">>
Maybe(S) == S \cup {<<>>}
Operators(S) ==
    {<<o, e>> : o \in {"NOT", "neg", "IS NULL", "IS NOT NULL"}, e \in S}
        \cup {<<o, e, f>> : o \in {"OR", "AND", "=", "IN", "+", "-", "*"}, e \in S, f \in S}
        \cup {<<o, e, X>> : o \in {".", ":"}, e \in S} \cup {<<":", e, X, <<"AND">>>> : e \in S}
Constructs(S) ==
    {<<"list">>, <<"f", X>>, <<"f", X, <<"*">>>>}
        \cup {<<"[]", e, f>> : e \in S, f \in S} \cup {<<"..", e, f, g>> : e \in S, f \in Maybe(S), g \in Maybe(S)}
        \cup {<<"list", e>> : e \in S} \cup {<<"list", e, f>> : e \in S, f \in S}
        \cup {<<"f", X, e, f>> : e \in S, f \in S} \cup {<<"f distinct", X, e>> : e \in S}
        \cup {<<"any", X, e, f>> : e \in S, f \in S}
        \cup {<<"each", X, e, f, g>> : e \in S, f \in Maybe(S), g \in Maybe(S)}
        \cup {<<"case", d, e, f, g>> : d \in Maybe(S), e \in S, f \in S, g \in Maybe(S)}
        \cup {<<"case", d, e, f, X, X, g>> : d \in Maybe(S), e \in S, f \in S, g \in Maybe(S)}
Nested == Operators({X} \cup Operators({X}) \cup Constructs({X}))
             \cup Constructs({X, <<"NOT", X>>, <<"IN", X, X>>})
             \cup Operators(Operators({X, <<"+", X, <<"1">>>>}))

----------------------------------------------------------------------------
(* Scopes: clauses over the names a, b, r and p, with x local to expressions. *)

NoExpr == [reads |-> {}, local |-> Anon, inner |-> {}]
Var(name) == [NoExpr EXCEPT !.reads = {name}]
Each(names, body) == [reads |-> names, local |-> "x", inner |-> body]
El(name, props) == [var |-> name, props |-> props]
PathOf(elems) == [shortest |-> FALSE, path |-> Anon, elems |-> elems]
Bare == PathOf(<<El("a", {})>>)
Seeked == {PathOf(<<El("b", {Var("a")})>>), PathOf(<<El("b", {Each({"a"}, {"x"})})>>)}
Chains == {PathOf(<<El("a", {}), El(Anon, {}), El("b", {})>>),
           PathOf(<<El("a", {}), El("r", {Var("b")}), El(Anon, {})>>),
           PathOf(<<El(Anon, {}), El(Anon, {Each({}, {"x", "a"})}), El("b", {})>>)}
Shortest == [shortest |-> TRUE, path |-> "p", elems |-> <<El("a", {}), El("r", {}), El("b", {})>>]

MatchOf(parts, wheres) == [parts : parts, where : wheres, optional : BOOLEAN]
Singles == {<<p>> : p \in {Bare} \cup Seeked \cup Chains}
SomeMatches ==
    MatchOf(Singles \cup {<<Bare, p>> : p \in Seeked} \cup {<<p, Bare>> : p \in Seeked} \cup (Chains \X Chains), {{}})
        \cup MatchOf({<<p>> : p \in Chains}, {{[of |-> "b", value |-> Var("a")]}, {[of |-> "r", value |-> Each({}, {"x", "b"})]}})
        \cup MatchOf({<<Shortest>>} \cup ({Shortest} \X Chains), {{}})
        \cup MatchOf({<<Shortest>>}, {{[of |-> "r", value |-> Var("a")]}})
SomeCreates == [parts : Singles]
SomeMerges == [parts : Singles, sets : {{Var("b")}}]
SomeUpdates == {Var("r"), Var("p"), Each({"b"}, {"x", "a"})}
SomeUnwinds == [expr : {NoExpr, Each({"a"}, {"x"})}, alias : {"b"}]

ItemOf(expr, bare, text, alias) == [expr |-> expr, bare |-> bare, text |-> text, alias |-> alias]
Items == {ItemOf(Var("a"), TRUE, "a", Anon), ItemOf(Var("a"), FALSE, "a.k", Anon),
          ItemOf(Var("b"), TRUE, "b", "a"), ItemOf(Var("r"), TRUE, "r", "r")}
Ending(sort, count, where) ==
    [star : BOOLEAN, items : {S \in SUBSET Items : Cardinality(S) <= 2}, sort : sort, count : count, where : where]
SomeProjections ==
    Ending({{}, {[expr |-> Var("a"), text |-> "a.k"]}}, {{}}, {{}})
        \cup Ending({{}}, {{Var("a")}}, {{}}) \cup Ending({{}}, {{}}, {{Each({"a"}, {"x"})}})

----------------------------------------------------------------------------
(* Logic and Results: lists of at most four outcomes; rows of two columns.   *)

ShortLists == UNION {[1..n -> {"true", "false", "null"}] : n \in 0..4}

\* The values of Results: their kind and number.
Datum(type, n) == [kind |-> type, n |-> n]
Missing == Datum("null", 0)
NotANumber == Datum("nan", 0)
Int1 == Datum("int", 1)
Int2 == Datum("int", 2)
Float1 == Datum("float", 1)
One == Datum("string", 1)
Ones == {Datum("ints", 1), Datum("strings", 1)}
RowsOf(ks, vs) == [k : ks, v : vs]
Grouped == {RowsOf({Int1, Float1, Missing}, {Int2, Missing}), RowsOf({Int1, One}, {Int1, Float1, Int2})}
Whole == {RowsOf({Missing}, {Int1, Int2, Float1, One, Missing, NotANumber}),
          RowsOf({Missing}, {Int2, Datum("int", -1)} \cup Ones)}
Aggs == {"count", "sum", "avg", "min", "max", "collect"}
SomeQueries ==
    [op : {"aggregate"}, keyed : {TRUE}, agg : Aggs, distinct : BOOLEAN, rows : Grouped]
        \cup [op : {"aggregate"}, keyed : {FALSE}, agg : Aggs, distinct : BOOLEAN, rows : Whole]
        \cup [op : {"aggregate"}, keyed : BOOLEAN, agg : {"star"}, distinct : {FALSE}, rows : Grouped]
        \cup [op : {"distinct"}, rows : {RowsOf({Int1, Float1, One}, {Missing, NotANumber}), RowsOf({Int1} \cup Ones, {Int1, Int2})}]
        \cup [op : {"union"}, dedup : BOOLEAN, rows : {RowsOf({Int1, Float1}, {One, Missing} \cup Ones)}]
        \cup [op : {"sort"}, keys : {<<"k">>}, desc : {<<FALSE>>, <<TRUE>>},
              rows : {RowsOf({Int1, Float1, Int2}, {Int1, Int2}), RowsOf({Int1, Int2, One, Missing, NotANumber}, {Int1})}]
        \cup [op : {"sort"}, keys : {<<"k", "v">>}, desc : {<<FALSE, TRUE>>},
              rows : {RowsOf({Int1, Float1, Int2, Missing}, {Int1, Int2})}]

----------------------------------------------------------------------------
Layers == {"text", "names", "integers", "logic", "results", "rows"}

\* A layer that does not run is at one of its initial states.
Off(layer) ==
    CASE layer = "text" -> toks = <<>> /\ goal = <<>>
      [] layer = "names" -> ScopesInit
      [] layer = "integers" -> value = 0 /\ exact = 0 /\ calc = "ok"
      [] layer = "logic" -> kind = "any" /\ list = <<>> /\ LogicInit
      [] layer = "results" -> query = [op |-> "union", dedup |-> FALSE, rows |-> {}] /\ Res!Start
      [] layer = "rows" -> /\ stmt = [source |-> "all", match |-> "none", optional |-> FALSE, barrier |-> FALSE, write |-> "none", skip |-> 0, limit |-> NoLimit]
                           /\ g0 = Graph(<<Rec(1, 0)>>, {}) /\ setting = [indexed |-> FALSE, cap |-> 0] /\ todo = <<>>
                           /\ graph = g0 /\ op = Build(g0)
                           /\ visited = <<>> /\ passed = 0 /\ rows = <<>> /\ status = "running" /\ outcomes = <<>>
On(layer) ==
    CASE layer = "text" -> ParserInit
      [] layer = "names" -> ScopesInit
      [] layer = "integers" -> ArithmeticInit
      [] layer = "logic" -> LogicInit
      [] layer = "results" -> Res!Init
      [] layer = "rows" -> Init

MCInit == /\ part \in Parts
          /\ \A layer \in Layers : IF part = layer THEN On(layer) ELSE Off(layer)

MCNext ==
    /\ UNCHANGED part
    /\ \/ part = "text" /\ ParserNext /\ UNCHANGED <<scopesVars, arithmeticVars, logicVars, resultVars, vars>>
       \/ part = "names" /\ ScopesNext /\ UNCHANGED <<parserVars, arithmeticVars, logicVars, resultVars, vars>>
       \/ part = "integers" /\ ArithmeticNext /\ UNCHANGED <<parserVars, scopesVars, logicVars, resultVars, vars>>
       \/ part = "logic" /\ LogicNext /\ UNCHANGED <<parserVars, scopesVars, arithmeticVars, resultVars, vars>>
       \/ part = "results" /\ Res!Next /\ UNCHANGED <<parserVars, scopesVars, arithmeticVars, logicVars, vars>>
       \/ part = "rows" /\ Next /\ UNCHANGED <<parserVars, scopesVars, arithmeticVars, logicVars, resultVars>>

MCSpec == MCInit /\ [][MCNext]_<<part, parserVars, scopesVars, arithmeticVars, logicVars, resultVars, vars>>

----------------------------------------------------------------------------
(* The properties of the modules (see there), where one layer runs.          *)

\* An index and a row cap change nothing of what a statement returns and writes,
\* except that it may stop at the cap (scanOp, joinOp, limits).
SettingsOnly == AccessPathOnly /\ CapOnly

\* Each group's aggregate is about all its rows and no others; DISTINCT and UNION
\* keep one row of each, ORDER BY all rows in the order of the keys
\* (aggregateOp.load, project, unionOp, sortOp).
ResultsExact == Res!GroupsExact /\ Res!RowsExact
=============================================================================
