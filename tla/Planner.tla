------------------------------ MODULE Planner ------------------------------
(***************************************************************************)
(* query/plan for the MATCH of a read: the parts of a pattern are planned   *)
(* one after another into operators (an anchor found by scan or by index,   *)
(* then an expand per relationship), the WHERE conjuncts an index seek does *)
(* not settle become a filter, and the operators are run in order.  The     *)
(* rows have to be the matches of the pattern whatever indexes there are.   *)
(* Shortest-path parts, variable lengths and OPTIONAL MATCH are left out.   *)
(***************************************************************************)
EXTENDS Integers, Sequences, FiniteSets, SequencesExt, TLC

CONSTANTS Data,         \* graphs: [node, edge]
          Queries,      \* [parts, where]
          Catalogs      \* sets of <<label or type, key>> that are indexed

VARIABLES data, query, catalog,
          part,         \* the part to plan next
          plan,         \* the operators so far
          bound,        \* variables they bind
          consumed,     \* conjuncts of WHERE settled by a seek
          residual,     \* predicates left for the filter
          phase,        \* "plan", "run" or "done"
          rows          \* rows of the operators run so far

input == <<data, query, catalog>>
vars == <<input, part, plan, bound, consumed, residual, phase, rows>>

-----------------------------------------------------------------------------
(* Values: a constant, or a property of a variable.  0 is null.            *)

Const(v) == [var |-> "", key |-> "", val |-> v]
Ref(x, k) == [var |-> x, key |-> k, val |-> 0]

\* "w" is the property of relationships, the other keys are those of nodes.
PropOf(id, key) == IF key = "w" THEN data.edge[id].w ELSE data.node[id][key]

Value(e, r) == IF e.var = "" THEN e.val
               ELSE IF e.var \in DOMAIN r THEN PropOf(r[e.var], e.key) ELSE 0

\* The value can be computed before the node is found.
seekable(e) == e.var = "" \/ e.var \in bound

Pred(x, key, op, e) == [var |-> x, key |-> key, op |-> op, val |-> e]
LabelPred(x, l) == [var |-> x, key |-> l, op |-> ":", val |-> Const(0)]

Holds(p, r) ==
    LET have == PropOf(r[p.var], p.key)
        want == Value(p.val, r)
    IN CASE p.op = ":" -> p.key \in data.node[r[p.var]].labels
         [] p.op = "=" -> have # 0 /\ have = want
         [] p.op = ">" -> have # 0 /\ want # 0 /\ have > want

-----------------------------------------------------------------------------
(* The readings of a WHERE conjunct.                                       *)

Where == query.where

\* x.key = value, on either side of the conjunct: <<key, value, conjunct>>.
asEqualities(x) ==
    FlattenSeq([i \in DOMAIN Where |->
        IF Where[i].op # "=" THEN <<>>
        ELSE (IF Where[i].var = x THEN <<[key |-> Where[i].key, val |-> Where[i].val, conj |-> i]>> ELSE <<>>)
              \o (IF Where[i].val.var = x
                  THEN <<[key |-> Where[i].val.key, val |-> Ref(Where[i].var, Where[i].key), conj |-> i]>>
                  ELSE <<>>)])

\* x.key > value.
asRange(x) == SelectSeq(Where, LAMBDA p : p.op = ">" /\ p.var = x)

-----------------------------------------------------------------------------
(* Access methods of a pattern node [name, labels, props], of a            *)
(* relationship [name, types, dir, props].  Props are in key order.        *)

Scan(x, how, label, key, e) ==
    [op |-> "scan", var |-> x, how |-> how, label |-> label, key |-> key, val |-> e]

\* An anchor: score, operator, conjunct (0: none) and inline key it settles.
Anchor(score, scan, conj, inline) == [score |-> score, scan |-> scan, conj |-> conj, inline |-> inline]

HasIndex(l, k) == <<l, k>> \in catalog

Seeks(nd, l) ==
    LET inline == SelectSeq(nd.props, LAMBDA p : HasIndex(l, p.key) /\ seekable(p.val))
        where == SelectSeq(asEqualities(nd.name), LAMBDA q : HasIndex(l, q.key) /\ seekable(q.val))
    IN [i \in DOMAIN inline |-> Anchor(4, Scan(nd.name, "seek", l, inline[i].key, inline[i].val), 0, inline[i].key)]
           \o [i \in DOMAIN where |-> Anchor(4, Scan(nd.name, "seek", l, where[i].key, where[i].val), where[i].conj, "")]

\* The predicates of a range scan stay in the filter.
rangeScan(nd, l) ==
    LET ranges == SelectSeq(asRange(nd.name), LAMBDA p : HasIndex(l, p.key) /\ seekable(p.val))
    IN [i \in DOMAIN ranges |-> Anchor(3, Scan(nd.name, "range", l, ranges[i].key, ranges[i].val), 0, "")]

\* The first of: an equality seek, a range scan, a label scan, all nodes.
scoreNode(nd) ==
    Head(FlattenSeq([i \in DOMAIN nd.labels |-> Seeks(nd, nd.labels[i])])
            \o FlattenSeq([i \in DOMAIN nd.labels |-> rangeScan(nd, nd.labels[i])])
            \o (IF nd.labels # <<>> THEN <<Anchor(2, Scan(nd.name, "label", nd.labels[1], "", Const(0)), 0, "")>> ELSE <<>>)
            \o <<Anchor(1, Scan(nd.name, "all", "", "", Const(0)), 0, "")>>)

\* The node to start from: the first with the best access method.
chooseAnchor(nodes) ==
    CHOOSE i \in DOMAIN nodes :
        \A j \in DOMAIN nodes : LET si == scoreNode(nodes[i]).score
                                    sj == scoreNode(nodes[j]).score
                                IN si > sj \/ (si = sj /\ i <= j)

\* Relationship seeks, used when no node has an equality seek.
relAnchors(p) ==
    LET single == {i \in DOMAIN p.rels : Len(p.rels[i].types) = 1}
        seek(i, key, e) == [op |-> "relseek", at |-> i, rel |-> p.rels[i].name, dir |-> p.rels[i].dir,
                            from |-> p.nodes[i].name, to |-> p.nodes[i + 1].name,
                            type |-> p.rels[i].types[1], key |-> key, val |-> e]
        usable(i, q) == HasIndex(p.rels[i].types[1], q.key) /\ seekable(q.val)
        of(i) == LET inline == SelectSeq(p.rels[i].props, LAMBDA q : usable(i, q))
                     where == SelectSeq(asEqualities(p.rels[i].name), LAMBDA q : usable(i, q))
                 IN [n \in DOMAIN inline |-> [seek |-> seek(i, inline[n].key, inline[n].val), conj |-> 0]]
                        \o [n \in DOMAIN where |-> [seek |-> seek(i, where[n].key, where[n].val), conj |-> where[n].conj]]
    IN IF scoreNode(p.nodes[chooseAnchor(p.nodes)]).score = 4 THEN <<>>
       ELSE FlattenSeq([i \in DOMAIN p.rels |-> IF i \in single THEN of(i) ELSE <<>>])

-----------------------------------------------------------------------------
(* Planning a part.                                                        *)

flip(dir) == CASE dir = "out" -> "in" [] dir = "in" -> "out" [] dir = "both" -> "both"

Expand(from, rel, to, dir) ==
    [op |-> "expand", from |-> from.name, rel |-> rel.name, to |-> to.name, types |-> rel.types, dir |-> dir]

\* Mutant of emitExpand: a target that is bound already is bound again.
emitExpand_Rebinds(expands, before) == [i \in DOMAIN expands |-> expands[i] @@ [toBound |-> FALSE]]

\* An expand to a variable bound by then only checks it.
emitExpand(expands, before) ==
    [i \in DOMAIN expands |->
        expands[i] @@ [toBound |-> expands[i].to \in before \cup {expands[j].to : j \in 1..i - 1}]]

\* Expands to the right from relationship i on, then to the left from j on.
Outwards(p, i, j, before) ==
    emitExpand([n \in 1..Len(p.rels) - i + 1 |->
                   LET m == i + n - 1 IN Expand(p.nodes[m], p.rels[m], p.nodes[m + 1], p.rels[m].dir)]
               \o [n \in 1..j |->
                   LET m == j - n + 1 IN Expand(p.nodes[m + 1], p.rels[m], p.nodes[m], flip(p.rels[m].dir))],
               before)

\* What the anchor (node `at`, found by label and inline key) leaves to check.
residualPredicates(p, at, label, inline) ==
    FlattenSeq([i \in DOMAIN p.nodes |->
        LET nd == p.nodes[i]
            rest == SelectSeq(nd.labels, LAMBDA l : ~(i = at /\ l = label))
            props == SelectSeq(nd.props, LAMBDA q : ~(i = at /\ q.key = inline))
        IN [n \in DOMAIN rest |-> LabelPred(nd.name, rest[n])]
               \o [n \in DOMAIN props |-> Pred(nd.name, props[n].key, "=", props[n].val)]])
    \o FlattenSeq([i \in DOMAIN p.rels |->
        [n \in DOMAIN p.rels[i].props |-> Pred(p.rels[i].name, p.rels[i].props[n].key, "=", p.rels[i].props[n].val)]])

\* A leaf whose value depends on the incoming row runs once per row (Apply);
\* otherwise it is the right side of a CartesianProduct.
joined(leaf) == leaf @@ [apply |-> plan # <<>> /\ leaf.val.var # ""]

Names(p) == {p.nodes[i].name : i \in DOMAIN p.nodes} \cup {p.rels[i].name : i \in DOMAIN p.rels}

\* Adds the operators of part p, the conjunct they settle, the predicates left.
Add(p, ops, conj, preds) ==
    /\ plan' = plan \o ops
    /\ bound' = bound \cup Names(p)
    /\ consumed' = consumed \cup (conj \ {0})
    /\ residual' = residual \o preds

FromBound(p, i) == Add(p, Outwards(p, i, i - 1, bound), {}, residualPredicates(p, 0, "", ""))

planFromRel(p, a) ==
    Add(p, <<joined(a.seek)>> \o Outwards(p, a.seek.at + 1, a.seek.at - 1, bound \cup {a.seek.from, a.seek.to}),
        {a.conj}, residualPredicates(p, 0, "", ""))

FromNode(p, i, a) ==
    Add(p, <<joined(a.scan)>> \o Outwards(p, i, i - 1, bound \cup {p.nodes[i].name}),
        {a.conj}, residualPredicates(p, i, a.scan.label, a.inline))

planPart ==
    /\ phase = "plan" /\ part <= Len(query.parts)
    /\ LET p == query.parts[part]
           starts == {i \in DOMAIN p.nodes : p.nodes[i].name \in bound}
           i == chooseAnchor(p.nodes)
       IN \/ starts # {} /\ FromBound(p, CHOOSE n \in starts : \A m \in starts : n <= m)
          \/ starts = {} /\ relAnchors(p) # <<>> /\ planFromRel(p, Head(relAnchors(p)))
          \/ starts = {} /\ relAnchors(p) = <<>> /\ FromNode(p, i, scoreNode(p.nodes[i]))
    /\ part' = part + 1
    /\ UNCHANGED <<input, phase, rows>>

\* The filter: what the parts left, and the conjuncts no seek settled.
planMatch ==
    /\ phase = "plan" /\ part > Len(query.parts)
    /\ LET open == SelectSeq([n \in DOMAIN Where |-> n], LAMBDA n : n \notin consumed)
       IN plan' = Append(plan, [op |-> "filter", preds |-> residual \o [n \in DOMAIN open |-> Where[open[n]]]])
    /\ phase' = "run"
    /\ UNCHANGED <<input, part, bound, consumed, residual, rows>>

-----------------------------------------------------------------------------
(* Running the operators.  Rows are a sequence: duplicates count.          *)

Seq1N(n) == [i \in 1..n |-> i]
Nodes == Seq1N(Len(data.node))
Edges == Seq1N(Len(data.edge))

\* The ids a node scan returns for the incoming row r.
ScanIds(o, r) ==
    LET row == IF o.apply THEN r ELSE <<>>
        want == Value(o.val, row)
    IN SelectSeq(Nodes, LAMBDA n :
           LET nd == data.node[n]
           IN CASE o.how = "all"   -> TRUE
                [] o.how = "label" -> o.label \in nd.labels
                [] o.how = "seek"  -> o.label \in nd.labels /\ want # 0 /\ nd[o.key] = want
                [] o.how = "range" -> o.label \in nd.labels /\ want # 0 /\ nd[o.key] > want)

\* Edges as <<edge, one end, other end>>: outgoing of the first end, incoming.
Oriented(e, dir) ==
    (IF dir \in {"out", "both"} THEN <<<<e, data.edge[e].src, data.edge[e].dst>>>> ELSE <<>>)
        \o (IF dir \in {"in", "both"} THEN <<<<e, data.edge[e].dst, data.edge[e].src>>>> ELSE <<>>)

\* relSeek: a row per edge and orientation, self-loops only for (a)-[r]-(a).
SeekRows(o, r) ==
    LET want == Value(o.val, IF o.apply THEN r ELSE <<>>)
        ids == SelectSeq(Edges, LAMBDA e : data.edge[e].type = o.type /\ want # 0 /\ data.edge[e].w = want)
        hits == SelectSeq(FlattenSeq([i \in DOMAIN ids |-> Oriented(ids[i], o.dir)]),
                          LAMBDA h : o.from = o.to => h[2] = h[3])
    IN [i \in DOMAIN hits |-> (o.rel :> hits[i][1]) @@ (o.from :> hits[i][2]) @@ (o.to :> hits[i][3]) @@ r]

\* expand: the edges at the row's From node, of the types asked for (each named
\* once); a bound To only lets its own pass.
ExpandRows(o, r) ==
    LET fits == SelectSeq(Edges, LAMBDA e : o.types = <<>> \/ data.edge[e].type \in ToSet(o.types))
        hits == SelectSeq(FlattenSeq([i \in DOMAIN fits |-> Oriented(fits[i], o.dir)]),
                          LAMBDA h : h[2] = r[o.from] /\ (o.toBound => h[3] = r[o.to]))
    IN [i \in DOMAIN hits |-> (o.rel :> hits[i][1]) @@ (o.to :> hits[i][3]) @@ r]

RowsOf(o, r) ==
    CASE o.op = "scan"    -> LET ids == ScanIds(o, r) IN [i \in DOMAIN ids |-> (o.var :> ids[i]) @@ r]
      [] o.op = "relseek" -> SeekRows(o, r)
      [] o.op = "expand"  -> ExpandRows(o, r)
      [] o.op = "filter"  -> IF \A n \in DOMAIN o.preds : Holds(o.preds[n], r) THEN <<r>> ELSE <<>>

RunOp ==
    /\ phase = "run" /\ plan # <<>>
    /\ rows' = FlattenSeq([i \in DOMAIN rows |-> RowsOf(Head(plan), rows[i])])
    /\ plan' = Tail(plan)
    /\ phase' = IF Tail(plan) = <<>> THEN "done" ELSE "run"
    /\ UNCHANGED <<input, part, bound, consumed, residual>>

Init ==
    /\ data \in Data /\ query \in Queries /\ catalog \in Catalogs
    /\ part = 1 /\ plan = <<>> /\ bound = {} /\ consumed = {} /\ residual = <<>>
    /\ phase = "plan" /\ rows = <<<<>>>>

Next == planPart \/ planMatch \/ RunOp

Spec == Init /\ [][Next]_vars

-----------------------------------------------------------------------------
(* What a plan promises.                                                   *)

NodeNames == UNION {{q.nodes[i].name : i \in DOMAIN q.nodes} : q \in ToSet(query.parts)}
RelNames == UNION {{q.rels[i].name : i \in DOMAIN q.rels} : q \in ToSet(query.parts)}

Binds(o) == CASE o.op = "scan" -> {o.var}
              [] o.op = "relseek" -> {o.rel, o.from, o.to}
              [] o.op = "expand" -> {o.rel, o.to}

\* Type invariant: the planner's bound variables are those its operators bind;
\* rows bind pattern variables, at the end all of them (planner.bind, binding).
TypeOK ==
    /\ phase \in {"plan", "run", "done"}
    /\ bound \subseteq NodeNames \cup RelNames
    /\ phase = "plan" => bound = UNION {Binds(o) : o \in ToSet(plan)}
    /\ consumed \subseteq DOMAIN Where
    /\ \A r \in ToSet(rows) : DOMAIN r \subseteq NodeNames \cup RelNames
    /\ phase = "done" => \A r \in ToSet(rows) : DOMAIN r = NodeNames \cup RelNames

Joins(rel, from, to, f) ==
    LET e == data.edge[f[rel.name]]
    IN /\ rel.types = <<>> \/ e.type \in ToSet(rel.types)
       /\ \/ rel.dir \in {"out", "both"} /\ <<e.src, e.dst>> = <<f[from.name], f[to.name]>>
          \/ rel.dir \in {"in", "both"} /\ <<e.dst, e.src>> = <<f[from.name], f[to.name]>>
       /\ \A q \in ToSet(rel.props) : Holds(Pred(rel.name, q.key, "=", q.val), f)

\* f assigns nodes and relationships to the variables as the pattern asks.
IsMatch(f) ==
    /\ \A p \in ToSet(query.parts) :
         /\ \A nd \in ToSet(p.nodes) :
              /\ ToSet(nd.labels) \subseteq data.node[f[nd.name]].labels
              /\ \A q \in ToSet(nd.props) : Holds(Pred(nd.name, q.key, "=", q.val), f)
         /\ \A i \in DOMAIN p.rels : Joins(p.rels[i], p.nodes[i], p.nodes[i + 1], f)
    /\ \A c \in ToSet(Where) : Holds(c, f)

Matches == {f \in {g @@ h : g \in [NodeNames -> DOMAIN data.node], h \in [RelNames -> DOMAIN data.edge]} : IsMatch(f)}

\* An undirected relationship goes over a self-loop both ways: two rows each.
Ways(f) ==
    LET loops == {<<p, i>> \in (DOMAIN query.parts) \X (1..2) :
                    /\ i \in DOMAIN query.parts[p].rels
                    /\ query.parts[p].rels[i].dir = "both"
                    /\ LET e == data.edge[f[query.parts[p].rels[i].name]] IN e.src = e.dst}
    IN 2 ^ Cardinality(loops)

\* The rows of the plan are the matches of the pattern, each as often as its
\* undirected relationships allow, whatever indexes the catalog has
\* (planMatch, planPart, relAnchor: an index only narrows the candidates).
PlanExact ==
    phase = "done" =>
        /\ ToSet(rows) \subseteq Matches
        /\ \A f \in Matches : Cardinality({i \in DOMAIN rows : rows[i] = f}) = Ways(f)
=============================================================================
