--------------------------- MODULE DependencyGraph ---------------------------
(***************************************************************************)
(* The dependency graph of one form (depgraph.py): how it is built from    *)
(* the parsed module and from what its code says, and the two bounded      *)
(* walks of the explorer.                                                  *)
(*                                                                         *)
(* A node is <<kind, name>>.  A form is the record                         *)
(*   [blocks    : Seq([name, tables, items : Seq([name, lov, ...])]),      *)
(*    groups    : Seq([name, tables]),   lovs : Seq([name, group]),        *)
(*    relations : Seq([name, detail]),                                     *)
(*    others    : Seq([kind, name, edge, external]),                       *)
(*    units     : Seq(unit), the triggers before the program units]        *)
(* and a unit holds what plsql.analyze reads off its text:                 *)
(*   [kind, name, parent, builtins, literals : Seq([builtin, kind, value]), *)
(*    items, globals, tables, calls : Seq(name),                           *)
(*    packages : Seq([name, call]), ...]                                   *)
(***************************************************************************)
EXTENDS Integers, Sequences, FiniteSets, SequencesExt

CONSTANTS None,           \* no name, no task, no risk
          LiteralTargets, \* built-ins whose first argument names an object
          MaxDepth, MaxResults

ASSUME GraphAssumption == MaxDepth \in Nat \ {0} /\ MaxResults \in Nat \ {0}

\* What the parser and the analysis of code list.
IsList(s) == s \in Seq(Range(s))
IsUnit(u) ==
  /\ IsList(u.literals) /\ IsList(u.items) /\ IsList(u.globals)
  /\ IsList(u.tables) /\ IsList(u.packages) /\ IsList(u.calls)
IsForm(form) ==
  /\ IsList(form.blocks) /\ \A b \in Range(form.blocks) : IsList(b.tables) /\ IsList(b.items)
  /\ IsList(form.groups) /\ \A r \in Range(form.groups) : IsList(r.tables)
  /\ IsList(form.lovs) /\ IsList(form.relations) /\ IsList(form.others)
  /\ IsList(form.units) /\ \A u \in Range(form.units) : IsUnit(u)

EmptyGraph == [nodes |-> <<>>, edges |-> <<>>]

Plain == [external |-> FALSE, missing |-> FALSE, task |-> None, risk |-> None, unresolved |-> {}]
Or(a, b) == IF a = None THEN b ELSE a

\* DepGraph.add_node: facts accumulate; "missing" is cleared by whatever
\* names the node without it.
AddNode(g, id, n) ==
  LET known == IF id \in DOMAIN g.nodes THEN g.nodes[id] ELSE n IN
  [g EXCEPT !.nodes = [x \in DOMAIN g.nodes \cup {id} |->
     IF x # id THEN g.nodes[x]
     ELSE [external |-> known.external \/ n.external, missing |-> known.missing /\ n.missing,
           task |-> Or(known.task, n.task), risk |-> Or(known.risk, n.risk),
           unresolved |-> known.unresolved \cup n.unresolved]]]

\* DepGraph.add_edge: both ends exist, and the same evidence counts once.
AddEdge(g, e) ==
  IF e.src = e.dst \/ ~({e.src, e.dst} \subseteq DOMAIN g.nodes) \/ Contains(g.edges, e) THEN g
  ELSE [g EXCEPT !.edges = Append(@, e)]

-----------------------------------------------------------------------------
(* Building *)

\* One mention of a node: from where, by which edge, on which evidence, and
\* whether what mentions it vouches for it: "declared", "missing", or
\* "reference" - missing unless the graph already holds it.
Mention(id, src, edge, evidence, standing, node) ==
  [id |-> id, src |-> src, edge |-> edge, evidence |-> evidence, standing |-> standing, node |-> node]

Outside == [Plain EXCEPT !.external = TRUE]
Declares(src, id) == Mention(id, src, "contains", "", "declared", Plain)
Uses(src, id, edge, evidence) == Mention(id, src, edge, evidence, "declared", Outside)
Map(Op(_), s) == [i \in DOMAIN s |-> Op(s[i])]

See(g, m) ==
  LET missing == m.standing = "missing" \/ (m.standing = "reference" /\ m.id \notin DOMAIN g.nodes)
      known == AddNode(g, m.id, [m.node EXCEPT !.missing = missing])
  IN IF m.src = None THEN known
     ELSE AddEdge(known, [src |-> m.src, dst |-> m.id, kind |-> m.edge, evidence |-> m.evidence])

Root == <<"module", "">>

BlockMentions(b) ==
  LET id == <<"block", b.name>>
      query(t) == Uses(id, <<"table", t>>, "queries", "block")
      item(i) ==
        LET iid == <<"item", i.name>> IN
        <<Declares(id, iid)>> \o
          IF i.lov = None THEN <<>>
          ELSE <<Mention(<<"lov", i.lov>>, iid, "uses", "LOV property", "missing", Plain)>>
  IN <<Declares(Root, id)>> \o Map(query, b.tables) \o FlattenSeq(Map(item, b.items))

GroupMentions(r) ==
  LET id == <<"record_group", r.name>>
      query(t) == Uses(id, <<"table", t>>, "queries", "record group query")
  IN <<Declares(Root, id)>> \o Map(query, r.tables)

LovMentions(l) ==
  LET id == <<"lov", l.name>> IN
  <<Declares(Root, id)>> \o
    IF l.group = None THEN <<>>
    ELSE <<Mention(<<"record_group", l.group>>, id, "uses", "LOV record group", "missing", Plain)>>

RelationMentions(form, r) ==
  LET id == <<"relation", r.name>>
      declared == \E i \in DOMAIN form.blocks : form.blocks[i].name = r.detail
  IN <<Declares(Root, id)>> \o
       IF r.detail = None THEN <<>>
       ELSE <<Mention(<<"block", r.detail>>, id, "relates", "detail block",
                      IF declared THEN "declared" ELSE "missing", Plain)>>

\* Attached libraries, alerts, parameters, reports and the menu.
OtherMention(o) ==
  Mention(<<o.kind, o.name>>, Root, o.edge, "", "declared", [Plain EXCEPT !.external = o.external])

\* build with include_code false: what the module declares.
StructureMentions(form) ==
  LET relation(r) == RelationMentions(form, r) IN
  <<Mention(Root, None, "", "", "declared", Plain)>>
    \o FlattenSeq(Map(BlockMentions, form.blocks)) \o FlattenSeq(Map(GroupMentions, form.groups))
    \o FlattenSeq(Map(LovMentions, form.lovs)) \o FlattenSeq(Map(relation, form.relations))
    \o Map(OtherMention, form.others)

\* _LITERAL_EDGES: the node and the edge a captured literal stands for.
LiteralEdge ==
  [block |-> <<"block", "navigates">>, item |-> <<"item", "references">>,
   form |-> <<"form", "opens">>, lov |-> <<"lov", "uses">>, alert |-> <<"alert", "uses">>,
   record_group |-> <<"record_group", "uses">>, relation |-> <<"relation", "uses">>,
   timer |-> <<"timer", "uses">>, report |-> <<"report", "runs">>, menu |-> <<"menu", "uses">>,
   menu_item |-> <<"menu", "uses">>, os_command |-> <<"external", "runs">>,
   user_exit |-> <<"external", "runs">>, url |-> <<"external", "runs">>]

OwnKinds == {"block", "item", "lov", "record_group", "alert", "relation"}  \* missing when absent
ExternalKinds == {"form", "library", "package", "external", "global", "menu", "table", "report"}

NodeOf(u) == <<u.kind, u.name>>

\* Built-ins that name an object which no literal resolved.
UnresolvedTargets(u) ==
  {b \in DOMAIN u.builtins \cap LiteralTargets :
     \A i \in DOMAIN u.literals : u.literals[i].builtin # b}

\* What the text of a unit refers to, in the order it is read.
References(form, u) ==
  LET me == NodeOf(u)
      units == {form.units[i].name : i \in {j \in DOMAIN form.units : form.units[j].kind = "program_unit"}}
      literal(l) ==
        LET target == LiteralEdge[l.kind] IN
        IF l.kind \notin DOMAIN LiteralEdge THEN <<>>
        ELSE <<Mention(<<target[1], l.value>>, me, target[2], l.builtin,
                       IF target[1] \in OwnKinds THEN "reference" ELSE "declared",
                       [Plain EXCEPT !.external = target[1] \in ExternalKinds])>>
      item(i) == Mention(<<"item", i>>, me, "references", "bind", "reference", Plain)
      shared(v) == Uses(me, <<"global", v>>, "shares", "bind")
      table(t) == Uses(me, <<"table", t>>, "queries", "SQL")
      package(p) == Uses(me, <<"package", p.name>>, "calls", p.call)
      call(c) == IF c \in units
                 THEN Mention(<<"program_unit", c>>, me, "calls", "call", "declared", Plain)
                 ELSE Mention(<<"procedure", c>>, me, "calls", "call", "missing", Outside)
  IN FlattenSeq(Map(literal, u.literals)) \o Map(item, u.items) \o Map(shared, u.globals)
       \o Map(table, u.tables) \o Map(package, u.packages) \o Map(call, u.calls)

\* Program units are known before any code is read.
Registered(form) ==
  LET unit(u) == IF u.kind = "program_unit" THEN <<Mention(NodeOf(u), None, "", "", "declared", Plain)>>
                 ELSE <<>>
  IN FlattenSeq(Map(unit, form.units))

\* The code of one unit is read.  task and risk: what the queue and the analysis
\* say of each unit, by kind and name.
Read(form, task, risk, g, u) ==
  LET me == NodeOf(u)
      node == [Plain EXCEPT !.task = task[me], !.risk = risk[me],
                            !.unresolved = UnresolvedTargets(u)]
      parent == IF u.parent \in DOMAIN g.nodes THEN u.parent ELSE Root
  IN FoldLeft(See, See(g, Mention(me, parent, "contains", "", "declared", node)),
              References(form, u))

\* Build, in the order of the code: the structure, every program unit, and
\* then the code of each unit.
Build(form, task, risk) ==
  LET read(g, u) == Read(form, task, risk, g, u)
  IN FoldLeft(read, FoldLeft(See, EmptyGraph, StructureMentions(form) \o Registered(form)),
              form.units)

\* DepGraph.from_dict of to_dict.
Reload(g) ==
  FoldLeft(AddEdge, [nodes |-> g.nodes, edges |-> <<>>], g.edges)

-----------------------------------------------------------------------------
(* Reading *)

\* An edge followed forward, or against its direction: from where to where.
Near(e, forward) == IF forward THEN e.src ELSE e.dst
Far(e, forward) == IF forward THEN e.dst ELSE e.src

\* DepGraph._walk: breadth first, never a node twice, at most MaxDepth levels;
\* the limit on the results is looked at between two nodes of the queue.
Clamp(asked) == IF asked < 1 THEN 1 ELSE IF asked > MaxDepth THEN MaxDepth ELSE asked

DiscoverAgain(w, x, level) ==  \* slip: a node is found once more at every end of an edge
  [w EXCEPT !.out = Append(@, [id |-> x, depth |-> level]),
            !.queue = Append(@, [id |-> x, depth |-> level])]

Discover(w, x, level) ==
  IF x \in w.seen THEN w
  ELSE [seen |-> w.seen \cup {x}, out |-> Append(w.out, [id |-> x, depth |-> level]),
        queue |-> Append(w.queue, [id |-> x, depth |-> level])]

\* The edges of the node at the head of the queue, in the order they were found.
Follow(w, e, here, forward) ==
  IF Near(e, forward) = here.id THEN Discover(w, Far(e, forward), here.depth + 1) ELSE w

Visit(g, w, forward, depth) ==
  LET here == Head(w.queue)
      rest == [w EXCEPT !.queue = Tail(@)]
      follow(v, e) == Follow(v, e, here, forward)
  IN IF here.depth >= depth THEN rest ELSE FoldLeft(follow, rest, g.edges)

\* One turn of the loop, unless it has ended.
Turn(g, w, forward, depth) ==
  IF w.queue = <<>> \/ Len(w.out) >= MaxResults THEN w ELSE Visit(g, w, forward, depth)

Walk(g, start, forward, asked) ==
  LET next(w, i) == Turn(g, w, forward, Clamp(asked))
      begin == [seen |-> {start}, out |-> <<>>, queue |-> <<[id |-> start, depth |-> 0]>>]
  IN FoldLeft(next, begin, [i \in 1 .. Cardinality(DOMAIN g.nodes) |-> i]).out

\* depends_on and impact.
DependsOn(g, x, depth) == Walk(g, x, TRUE, depth)
Impact(g, x, depth) == Walk(g, x, FALSE, depth)

\* by_task: the nodes a task of the queue is found at.
ByTask(g, t) == {x \in DOMAIN g.nodes : g.nodes[x].task = t}

\* summary, without the hubs.
Summary(g) ==
  [nodes |-> Cardinality(DOMAIN g.nodes), edges |-> Len(g.edges),
   external |-> Cardinality({x \in DOMAIN g.nodes : g.nodes[x].external}),
   missing |-> Cardinality({x \in DOMAIN g.nodes : g.nodes[x].missing}),
   unresolved |-> MapThenSumSet(LAMBDA x : Cardinality(g.nodes[x].unresolved), DOMAIN g.nodes)]
=============================================================================
