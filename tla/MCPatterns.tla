----------------------------- MODULE MCPatterns -----------------------------
(* How patterns are answered: MATCH through a plan (Planner), relationships *)
(* of variable length (Trails) and shortest paths (ShortestPath).  The      *)
(* question is chosen at the start; the variables of the other two stay off.*)
EXTENDS Planner

CONSTANTS MaxEdge, varExpandMaxDepth

VARIABLES question, edge, from, dir, hops, d, frontier, hits, done, spec, fwd, bwd, paths

trailVars == <<from, dir, hops, d, frontier, hits>>
searchVars == <<spec, fwd, bwd, paths>>

HopRanges == {<<-1, -1>>, <<0, -1>>, <<2, -1>>, <<-1, 2>>, <<0, 0>>, <<0, 1>>, <<2, 2>>, <<3, 3>>}

T == INSTANCE Trails WITH MaxEdge <- 3, Node <- 1..3, Dirs <- {"out", "in", "both"}, LoopDirs <- {"out", "in"}, Hops <- HopRanges
\* Renaming nodes makes any two distinct ends 1 and 2.
S == INSTANCE ShortestPath WITH Node <- 1..4, HopBounds <- {-1, 0, 2, 3}, Ends <- {<<1, 2>>, <<1, 1>>}

----------------------------------------------------------------------------
(* Two graphs, patterns of up to three nodes, mixes of four indexes.         *)

N(labels, k, j) == [labels |-> labels, k |-> k, j |-> j]
E(src, dst, type, w) == [src |-> src, dst |-> dst, type |-> type, w |-> w]

\* Nodes with and without labels and properties; a self-loop, an edge each
\* way between two nodes, two types, a relationship without w.
Mixed == [node |-> <<N({"L"}, 1, 1), N({"L", "M"}, 1, 2), N({"M"}, 2, 1), N({"L"}, 0, 1)>>,
          edge |-> <<E(1, 2, "T", 1), E(2, 1, "T", 2), E(2, 2, "T", 1), E(2, 3, "U", 1), E(3, 4, "T", 0)>>]
Sparse == [node |-> <<N({"L", "M"}, 2, 2), N({"L"}, 2, 0), N({}, 1, 1)>>,
           edge |-> <<E(1, 1, "U", 2), E(1, 2, "T", 1), E(3, 2, "T", 1)>>]
Graphs == {Mixed, Sparse}

Prop(k, e) == [key |-> k, val |-> e]
NoProps == <<>>
Node(x, labels, props) == [name |-> x, labels |-> labels, props |-> props]
Rel(x, types, way, props) == [name |-> x, types |-> types, dir |-> way, props |-> props]
Part(nodes, rels) == [nodes |-> nodes, rels |-> rels]
Query(parts, where) == [parts |-> parts, where |-> where]

Starts == {Node("a", <<"L">>, NoProps), Node("a", <<>>, <<Prop("k", Const(1))>>),
           Node("a", <<"M", "L">>, <<Prop("j", Const(1)), Prop("k", Const(1))>>)}
Ends == {Node("b", <<>>, NoProps), Node("b", <<"L">>, <<Prop("k", Const(1))>>), Node("b", <<"M">>, <<Prop("k", Ref("a", "k"))>>),
         Node("a", <<"L">>, NoProps)}
Weighted == <<Prop("w", Const(1))>>
Rels == UNION {{Rel("r", <<"T">>, way, NoProps), Rel("r", <<"T">>, way, Weighted), Rel("r", <<>>, way, Weighted),
                Rel("r", <<"T", "U">>, way, NoProps)} : way \in {"out", "in", "both"}}
Wheres == {<<>>, <<Pred("a", "k", "=", Const(1))>>, <<Pred("a", "k", ">", Const(1)), Pred("r", "w", "=", Const(1))>>,
           <<Pred("r", "w", "=", Ref("a", "j"))>>}

Single == {Query(<<Part(<<s, e>>, <<r>>)>>, w) : s \in Starts, e \in Ends, r \in Rels, w \in Wheres}

Then == {Node("c", <<>>, NoProps), Node("a", <<>>, NoProps), Node("c", <<"L">>, <<Prop("k", Const(2))>>)}
Chain == {Query(<<Part(<<s, Node("b", <<>>, NoProps), c>>, <<r, Rel("q", <<"T">>, way, p)>>)>>, w) :
              s \in Starts, c \in Then, r \in {x \in Rels : x.types = <<"T">> /\ x.dir # "in"}, way \in {"out", "both"},
              p \in {NoProps, Weighted}, w \in {<<>>, <<Pred("q", "w", "=", Const(1))>>}}

\* Two parts: the second is independent, correlated, or starts from a bound node.
Seconds == {Part(<<Node("b", <<"L">>, <<Prop("k", Ref("a", "k"))>>)>>, <<>>),
            Part(<<Node("b", <<"M", "L">>, NoProps)>>, <<>>),
            Part(<<Node("b", <<"M">>, NoProps), Node("a", <<"L">>, NoProps)>>, <<Rel("r", <<"T">>, "both", NoProps)>>),
            Part(<<Node("b", <<>>, NoProps), Node("c", <<>>, NoProps)>>, <<Rel("r", <<"T">>, "out", <<Prop("w", Ref("a", "j"))>>)>>)}
Joined == {<<>>, <<Pred("a", "k", "=", Ref("b", "k"))>>, <<Pred("b", "k", ">", Ref("a", "k"))>>,
           <<Pred("b", "j", "=", Ref("a", "k")), Pred("a", "j", "=", Const(1))>>}
Two == {Query(<<Part(<<s>>, <<>>), p>>, w) : s \in Starts, p \in Seconds, w \in Joined}

Usual == {<<"L", "k">>, <<"L", "j">>, <<"T", "w">>}
Indexes == SUBSET Usual \cup {{<<"M", "k">>}, Usual \cup {<<"M", "k">>}}

----------------------------------------------------------------------------
Patterns == Single \cup Chain \cup Two

TrailsOff == from = 0 /\ dir = "" /\ hops = <<>> /\ d = 0 /\ frontier = <<>> /\ hits = <<>>
SearchOff == spec = <<>> /\ fwd = <<>> /\ bwd = <<>> /\ paths = {}
PlanOff ==
    /\ data = Sparse /\ query = Query(<<>>, <<>>) /\ catalog = {}
    /\ part = 1 /\ plan = <<>> /\ bound = {} /\ consumed = {} /\ residual = <<>> /\ phase = "off" /\ rows = <<>>

MCInit ==
    \/ question = "match" /\ Init /\ TrailsOff /\ SearchOff /\ edge = <<>> /\ done = FALSE
    \/ question = "trails" /\ T!Init /\ PlanOff /\ SearchOff
    \/ question = "shortest" /\ S!Init /\ PlanOff /\ TrailsOff

MCNext ==
    /\ UNCHANGED question
    /\ \/ question = "match" /\ Next /\ UNCHANGED <<trailVars, searchVars, edge, done>>
       \/ question = "trails" /\ T!Next /\ UNCHANGED <<vars, searchVars>>
       \/ question = "shortest" /\ S!Next /\ UNCHANGED <<vars, trailVars>>

MCSpec == MCInit /\ [][MCNext]_<<question, vars, trailVars, searchVars, edge, done>>

----------------------------------------------------------------------------
(* The properties of the three modules (see there).                        *)

\* Whatever indexes there are, operators bind what they use and the rows of
\* the plan are the matches of the pattern (planMatch).
PlansExact == question = "match" => TypeOK /\ PlanExact

\* The rows of a variable-length pattern are its trails, and "each path
\* produces one output row" (varExpand.bfs), self-loops aside when the pattern
\* is undirected.
TrailsExact == question = "trails" => T!TypeOK /\ T!TrailsExact /\ T!OneRowPerTrail

\* The bidirectional search returns exactly the shortest paths, or one of
\* them when one is asked for (ShortestPaths).
ShortestExact == question = "shortest" => S!TypeOK /\ S!ShortestExact
=============================================================================
