----------------------------- MODULE UnitReview -----------------------------
(***************************************************************************)
(* The analyses, the dependency graph, the test specifications and the     *)
(* reviewed code of one conversion session (workbench.py over store.py):   *)
(* what a process brings up to date when it opens the session, unit by     *)
(* unit, and what reviewers and the model add while it serves.             *)
(*                                                                         *)
(* Several processes may have the session file open, of several releases   *)
(* of the program, with the converted XML at hand or not, and each may     *)
(* stop anywhere.  A step is one SQLite statement or transaction: what was *)
(* read by one step is old in the next.                                    *)
(***************************************************************************)
EXTENDS DependencyGraph, UnitAnalysis

CONSTANTS
  Process,
  Forms,         \* the forms a session may be of, by name (DependencyGraph)
  Bounds         \* of each form: processes at a time, openings, answers and runs
                 \* recorded, opinions of the model, decisions on code

\* analyze_task and classify, of every unit under every release.
Rows == [f \in DOMAIN Forms |-> [e \in Engine |->
           [u \in DOMAIN Forms[f].units |-> Analyze(e, Forms[f].units[u])]]]

\* The rows unit_analysis may hold: what opinions make of them included.
AnalysisRow ==
  LET ruled == UNION {Range(Rows[f][e]) : f \in DOMAIN Forms, e \in Engine} IN
  [engine : Engine, risk : {r.risk : r \in ruled},
   behavior : [value : Range(Behaviors), notes : SUBSET ({"AI"} \cup UNION {r.behavior.notes : r \in ruled})]]

ASSUME ReviewAssumption ==
  /\ Bounds \in [DOMAIN Forms -> [processes : Nat, opens : Nat, answers : Nat, opinions : Nat,
                                  reviews : Nat]]
  /\ \A f \in DOMAIN Forms : IsForm(Forms[f])
  /\ None \notin AnalysisRow

VARIABLES
  form,       \* the form the session is of; it never changes
  analysis,   \* unit_analysis: the row of each unit, or None
  cases,      \* test_case: the rows of each unit, by kind and title
  code,       \* proposal and decision: how many proposals a unit has, and
              \* its latest decision or None
  saved,      \* the graph of module_meta, or None
  proc,       \* each process: see Down
  spent       \* how much of each bound is used

vars == <<form, analysis, cases, code, saved, proc, spent>>

Form == Forms[form]
Unit == DOMAIN Form.units
Bound == Bounds[form]
Reading == [fresh |-> {}, existing |-> <<>>]

\* A process: where its opening stands, whether requests are served, its
\* release, whether it has the XML, the units it still has to do, the analysis
\* and the cases it read, its graph and the opinion it is folding in.
\* alone is a history: nobody else had the session open since it started.
Down == [pc |-> "down", ready |-> FALSE, alone |-> FALSE, engine |-> None, sheet |-> FALSE,
         todo |-> {}, read |-> Reading, graph |-> None, opinion |-> None]
Up == {p \in Process : proc[p].pc # "down"}

Init ==
  /\ form \in DOMAIN Forms
  /\ analysis = [u \in Unit |-> None]
  /\ cases = [u \in Unit |-> <<>>]
  /\ code = [u \in Unit |-> [proposals |-> 0, decision |-> None]]
  /\ saved = None
  /\ proc = [p \in Process |-> Down]
  /\ spent = [opens |-> 0, answers |-> 0, opinions |-> 0, reviews |-> 0]

-----------------------------------------------------------------------------
(* What the code computes *)

\* Units are taken in the order of the form.
Foremost(u, S) == u \in S /\ \A v \in S : u <= v

\* stale_task_ids: never analysed, or by another release.
StaleUnits(e) == {u \in Unit : analysis[u] = None \/ analysis[u].engine # e}

\* stale_test_task_ids: no case, or one written by another release.
UnspecifiedUnits(e) ==
  {u \in Unit : cases[u] = <<>> \/ \E id \in DOMAIN cases[u] : cases[u][id].engine # e}

\* items_of: the item metadata of the XML, if it is at hand.
Metadata(p) ==
  LET items == FlattenSeq([i \in DOMAIN Form.blocks |-> Form.blocks[i].items]) IN
  IF ~proc[p].sheet THEN <<>>
  ELSE [n \in {items[i].name : i \in DOMAIN items} |->
          items[CHOOSE i \in DOMAIN items : items[i].name = n]]

\* refresh_graph: the tasks by kind and name - the last of them - and the risk
\* of that task.
TaskOf(n) == Max({u \in Unit : NodeOf(Form.units[u]) = n})
UnitNodes == {NodeOf(Form.units[u]) : u \in Unit}
GraphNow ==
  Build(Form, [n \in UnitNodes |-> TaskOf(n)],
        [n \in UnitNodes |-> IF analysis[TaskOf(n)] = None THEN None ELSE analysis[TaskOf(n)].risk])

NewCase(e) == [state |-> "pending", run |-> "not_run", engine |-> e]

\* save_test_cases: the rows of a unit after it was specified again.
Vanished(read) == {id \in DOMAIN read.existing \ read.fresh : read.existing[id] = "pending"}

RespecifyAfresh(now, read, e) ==  \* slip: what is written again starts over
  [id \in (DOMAIN now \cup read.fresh) \ Vanished(read) |->
     IF id \in read.fresh THEN NewCase(e) ELSE now[id]]

Respecify(now, read, e) ==
  LET added == read.fresh \ DOMAIN read.existing IN
  [id \in (DOMAIN now \cup added) \ Vanished(read) |->
     IF id \in added THEN NewCase(e)
     ELSE IF id \in read.fresh THEN [now[id] EXCEPT !.engine = e] ELSE now[id]]

-----------------------------------------------------------------------------
(* Opening a session *)

\* One field after another of process p.
Becomes(p, state) == proc' = [proc EXCEPT ![p] = state]

\* A process comes up; what is stale is read once.
Open(p, e, sheet) ==
  /\ proc[p] = Down /\ Cardinality(Up) < Bound.processes /\ spent.opens < Bound.opens
  /\ proc' = [q \in Process |->
       IF q # p THEN [proc[q] EXCEPT !.alone = FALSE]
       ELSE [Down EXCEPT !.pc = "analyse", !.alone = Up = {}, !.engine = e, !.sheet = sheet,
                         !.todo = StaleUnits(e)]]
  /\ spent' = [spent EXCEPT !.opens = @ + 1]
  /\ UNCHANGED <<form, code, analysis, cases, saved>>

\* open_module of the file that is open: analyses and graph again, not the
\* tests.  A conversion that is running refuses it.
Reopen(p, sheet) ==
  /\ proc[p].pc = "idle" /\ proc[p].opinion = None /\ spent.opens < Bound.opens
  /\ Becomes(p, [proc[p] EXCEPT !.pc = "analyse", !.sheet = sheet, !.todo = StaleUnits(proc[p].engine)])
  /\ spent' = [spent EXCEPT !.opens = @ + 1]
  /\ UNCHANGED <<form, code, analysis, cases, saved>>

\* refresh_analysis: one unit, one commit.
Examine(p) ==
  /\ proc[p].pc = "analyse"
  /\ \E u \in Unit :
       /\ Foremost(u, proc[p].todo)
       /\ analysis' = [analysis EXCEPT ![u] = Rows[form][proc[p].engine][u]]
       /\ Becomes(p, [proc[p] EXCEPT !.todo = @ \ {u}])
  /\ UNCHANGED <<form, code, cases, saved, spent>>

\* Where an opening goes after its graph: a process that serves is done.
AfterGraph(s, graph) ==
  [s EXCEPT !.pc = IF s.ready THEN "idle" ELSE "specify", !.graph = graph,
            !.todo = IF s.ready THEN {} ELSE UnspecifiedUnits(s.engine)]

\* refresh_graph without the XML: the graph saved with the session.
LoadGraph(p) ==
  /\ proc[p].pc = "analyse" /\ proc[p].todo = {} /\ ~proc[p].sheet
  /\ Becomes(p, AfterGraph(proc[p], IF saved = None THEN None ELSE Reload(saved)))
  /\ UNCHANGED <<form, code, analysis, cases, saved, spent>>

\* refresh_graph with the XML: the risks are read, then the graph is built.
BuildGraph(p) ==
  /\ proc[p].pc = "analyse" /\ proc[p].todo = {} /\ proc[p].sheet
  /\ Becomes(p, [proc[p] EXCEPT !.pc = "save", !.graph = GraphNow])
  /\ UNCHANGED <<form, code, analysis, cases, saved, spent>>

SaveGraph(p) ==
  /\ proc[p].pc = "save"
  /\ saved' = proc[p].graph
  /\ Becomes(p, AfterGraph(proc[p], proc[p].graph))
  /\ UNCHANGED <<form, code, analysis, cases, spent>>

\* refresh_tests: the analysis of the next unit is read and its cases written...
Specify(p) ==
  /\ proc[p].pc = "specify"
  /\ \E u \in Unit :
       /\ Foremost(u, proc[p].todo)
       /\ Becomes(p, [proc[p] EXCEPT !.pc = "compare",
                        !.read.fresh = Generate(Form.units[u], analysis[u], Metadata(p))])
  /\ UNCHANGED <<form, code, analysis, cases, saved, spent>>

\* ... the rows there are are read ...
Compare(p) ==
  /\ proc[p].pc = "compare"
  /\ \E u \in Unit :
       /\ Foremost(u, proc[p].todo)
       /\ Becomes(p, [proc[p] EXCEPT !.pc = "write",
                        !.read.existing = [id \in DOMAIN cases[u] |-> cases[u][id].state]])
  /\ UNCHANGED <<form, code, analysis, cases, saved, spent>>

\* ... and one transaction writes what changed.  A case somebody else inserted
\* since is a duplicate key, and the process does not come up.
Write(p) ==
  /\ proc[p].pc = "write"
  /\ \E u \in Unit :
       LET read == proc[p].read
           twice == (read.fresh \ DOMAIN read.existing) \cap DOMAIN cases[u]
       IN /\ Foremost(u, proc[p].todo)
          /\ IF twice # {}
             THEN Becomes(p, Down) /\ UNCHANGED cases
             ELSE /\ cases' = [cases EXCEPT ![u] = Respecify(@, read, proc[p].engine)]
                  /\ Becomes(p, [proc[p] EXCEPT !.pc = "specify", !.todo = @ \ {u}, !.read = Reading])
  /\ UNCHANGED <<form, code, analysis, saved, spent>>

\* The server's requests begin.
Serve(p) ==
  /\ proc[p].pc = "specify" /\ proc[p].todo = {}
  /\ Becomes(p, [proc[p] EXCEPT !.pc = "idle", !.ready = TRUE])
  /\ UNCHANGED <<form, code, analysis, cases, saved, spent>>

-----------------------------------------------------------------------------
(* While it serves *)

\* A reviewer changes one column group of a case by its id.
ChangeCase(p, u, id, row) ==
  /\ proc[p].ready /\ spent.answers < Bound.answers
  /\ cases' = [cases EXCEPT ![u][id] = row]
  /\ spent' = [spent EXCEPT !.answers = @ + 1]
  /\ UNCHANGED <<form, code, analysis, saved, proc>>

\* decide_test_case
DecideTestCase(p, u, id, state) ==
  ChangeCase(p, u, id, [cases[u][id] EXCEPT !.state = state])

\* record_test_run
RecordTestRun(p, u, id) ==
  ChangeCase(p, u, id, [cases[u][id] EXCEPT !.run = "pass"])

\* The texts a reviewer can send: an empty editor, one of the proposals - the
\* tab may show an older one - or his own.
Blank == <<>>
Own == <<"own">>
Proposed(i) == <<"proposal", i>>
Texts(u) == {Blank, Own} \cup {Proposed(i) : i \in 1 .. code[u].proposals}

\* view: the decision's text, or else the latest proposal's.
FinalText(text, proposals) ==
  IF text # Blank THEN text ELSE IF proposals = 0 THEN Blank ELSE Proposed(proposals)
FinalCode(u) ==
  LET d == code[u].decision IN FinalText(IF d = None THEN Blank ELSE d.text, code[u].proposals)

\* set_decision: with what the engine says of the unit at that moment.  read is
\* a history: the code the session had for the unit once this was decided.
Decision(u, state, text) ==
  [state |-> state, text |-> text, facts |-> analysis[u],
   read |-> FinalText(text, code[u].proposals)]

\* /api/decision: whatever is on record, the last decision counts.
Decide(p, u, state, text) ==
  /\ proc[p].ready /\ spent.reviews < Bound.reviews
  /\ code' = [code EXCEPT ![u].decision = Decision(u, state, text)]
  /\ spent' = [spent EXCEPT !.reviews = @ + 1]
  /\ UNCHANGED <<form, analysis, cases, saved, proc>>

\* What an export of the session would contain.
Exported ==
  LET approved == {u \in Unit : code[u].decision # None /\ code[u].decision.state = "approved"} IN
  [u \in approved |-> FinalCode(u)]

\* The conversion thread has the model's answer about u: it saves the proposal,
\* and _merge_behavior reads the analysis ...
TakeOpinion(p, u, value) ==
  /\ proc[p].ready /\ proc[p].opinion = None /\ spent.opinions < Bound.opinions
  /\ analysis[u] # None
  /\ code' = [code EXCEPT ![u].proposals = @ + 1]
  /\ Becomes(p, [proc[p] EXCEPT !.opinion = [unit |-> u, row |-> analysis[u], value |-> value]])
  /\ spent' = [spent EXCEPT !.opinions = @ + 1]
  /\ UNCHANGED <<form, analysis, cases, saved>>

\* ... and writes it if the answer became more cautious.
FoldOpinion(p) ==
  /\ proc[p].opinion # None
  /\ LET o == proc[p].opinion
         merged == Merge(o.row.behavior, o.value)
     IN analysis' = IF merged = o.row.behavior THEN analysis
                    ELSE [analysis EXCEPT ![o.unit] = [o.row EXCEPT !.behavior = merged]]
  /\ Becomes(p, [proc[p] EXCEPT !.opinion = None])
  /\ UNCHANGED <<form, code, cases, saved, spent>>

\* The process stops, whatever it is doing; a transaction is rolled back.
Stop(p) ==
  /\ p \in Up
  /\ Becomes(p, Down)
  /\ UNCHANGED <<form, code, analysis, cases, saved, spent>>

-----------------------------------------------------------------------------
Opening(p) ==
  \/ \E e \in Engine, sheet \in BOOLEAN : Open(p, e, sheet)
  \/ \E sheet \in BOOLEAN : Reopen(p, sheet)
  \/ Examine(p) \/ LoadGraph(p) \/ BuildGraph(p) \/ SaveGraph(p)
  \/ Specify(p) \/ Compare(p) \/ Write(p) \/ Serve(p)
  \/ Stop(p)

Serving(p) ==
  \E u \in Unit :
    \/ \E id \in DOMAIN cases[u] :
         \/ \E state \in {"pending", "accepted"} : DecideTestCase(p, u, id, state)
         \/ RecordTestRun(p, u, id)
    \/ \E state \in {"approved", "needs_work"}, text \in Texts(u) : Decide(p, u, state, text)
    \/ \E value \in Range(Behaviors) : TakeOpinion(p, u, value)

Next == \E p \in Process : Opening(p) \/ Serving(p) \/ FoldOpinion(p)

Spec == Init /\ [][Next]_vars

-----------------------------------------------------------------------------
(* Properties *)

\* One release's answer, and never less cautious than its rules.
AboveRules(u, row) ==
  LET rules == Rows[form][row.engine][u] IN
  /\ row.risk = rules.risk
  /\ RankIn(Behaviors, row.behavior.value) >= RankIn(Behaviors, rules.behavior.value)
  /\ rules.behavior.notes \subseteq row.behavior.notes

\* Whatever models and releases wrote over each other, the analysis on record
\* of a unit is one release's, and never less cautious than its rules: the
\* risk is theirs, and the behaviour is theirs or worse, with every doubt they
\* had.  So is what a decision on its code was taken against.  (merge_ai: "It
\* is never allowed to say this is fine after all"; set_decision)
RulesAreTheFloor ==
  \A u \in Unit :
    /\ analysis[u] # None => AboveRules(u, analysis[u])
    /\ code[u].decision # None => AboveRules(u, code[u].decision.facts)

\* Writing a specification again changes no answer: while nobody serves, no
\* case changes its state or its run, and an answered case is never removed by
\* a process that has the session for itself.  (save_test_cases)
AnswersOutliveRegeneration ==
  [][\A u \in Unit : \A id \in DOMAIN cases[u] :
       /\ cases[u][id].state # "pending" /\ (\A p \in Up : proc[p].alone) => id \in DOMAIN cases'[u]
       /\ (\A p \in Process : ~proc[p].ready) /\ id \in DOMAIN cases'[u] =>
            cases'[u][id].state = cases[u][id].state /\ cases'[u][id].run = cases[u][id].run]_vars

\* Reference definition of a walk: the nodes within n edges, and the distance.
Neighbours(g, x, forward) ==
  {Far(e, forward) : e \in {d \in Range(g.edges) : Near(d, forward) = x}}
Within(g, x, forward) ==
  LET ball[n \in 0 .. MaxDepth] ==
        IF n = 0 THEN {x}
        ELSE ball[n - 1] \cup UNION {Neighbours(g, y, forward) : y \in ball[n - 1]}
  IN ball

NearestFirst(g, x, forward, asked) ==
  LET walk == Walk(g, x, forward, asked)
      ball == Within(g, x, forward)
      found == {walk[i].id : i \in DOMAIN walk}
      Nearer(y, n) == y \in ball[n]
  IN /\ Cardinality(found) = Len(walk)
     /\ found \subseteq ball[Clamp(asked)] \ {x}
     /\ \A i \in DOMAIN walk : Nearer(walk[i].id, walk[i].depth) /\ ~Nearer(walk[i].id, walk[i].depth - 1)
     /\ Len(walk) < MaxResults => found = ball[Clamp(asked)] \ {x}
     /\ \A y \in ball[Clamp(asked)] \ (found \cup {x}), i \in DOMAIN walk : ~Nearer(y, walk[i].depth - 1)

\* What a form declares, of the kinds that can be missing.
Named(kind, s) == {<<kind, s[i].name>> : i \in DOMAIN s}
Declared ==
  Named("block", Form.blocks) \cup Named("lov", Form.lovs) \cup Named("record_group", Form.groups)
    \cup Named("relation", Form.relations)
    \cup (UNION {Named("item", Form.blocks[i].items) : i \in DOMAIN Form.blocks})
    \cup {<<Form.others[i].kind, Form.others[i].name>> : i \in DOMAIN Form.others}

\* What a session shows of a graph is true, and a session opened from its file
\* alone shows the same.  Walks, both ways and of any depth: no node twice,
\* each at its distance, all of them within the depth unless the limit was
\* reached, and then nothing that is left out is nearer than what is shown.
\* Summary: nothing the form declares counts as missing, in whatever order it is
\* referred to and declared.  (_walk, add_node, summary)
GraphIsTrue(g) ==
  /\ Reload(g) = g
  /\ \A x \in DOMAIN g.nodes, forward \in BOOLEAN, asked \in {0, 2, MaxDepth + 1} :
       NearestFirst(g, x, forward, asked)
  /\ Summary(g).missing <= Cardinality(DOMAIN g.nodes \ Declared)
  /\ \A x \in Declared : x \in DOMAIN g.nodes /\ ~g.nodes[x].missing

\* Every graph that is saved with a session is true.
SavedGraphIsTrue == [][saved' # saved => GraphIsTrue(saved')]_vars

\* The record of a run of a case survives every regeneration by a process that
\* has the session for itself.  ("a regeneration must not erase a run")
RunsOutliveRegeneration ==
  [][\A u \in Unit : \A id \in DOMAIN cases[u] :
       cases[u][id].run # "not_run" /\ (\A p \in Up : proc[p].alone) => id \in DOMAIN cases'[u]]_vars

\* Only approved code is exported: what an export ships for a unit is the code
\* the session had for it when its reviewer approved it.  ("Only approved code enters the application")
OnlyApprovedCodeIsExported ==
  \A u \in DOMAIN Exported : Exported[u] = code[u].decision.read
=============================================================================
