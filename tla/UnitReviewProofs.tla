--------------------------- MODULE UnitReviewProofs ---------------------------
(***************************************************************************)
(* The analyses, the test specifications and the dependency graph of a     *)
(* session, for any forms, releases, processes and bounds: no analysis is  *)
(* less cautious than the rules of its release, specifying a unit again    *)
(* loses no answer, and every graph a session has is true.                 *)
(*                                                                         *)
(* The argument: types (Typed); then what the rows on record and the       *)
(* opinions in hand say against the rules, which needs that whoever serves *)
(* has left no unit without an analysis (Floors); then what a process that *)
(* is about to write cases knows of the rows there are (Regeneration).     *)
(* What the model's answers and the rules make of a row are lemmas about   *)
(* Merge and Analyze.                                                      *)
(*                                                                         *)
(* The graph: FoldLeft is shown to go through values (Steps), so that what *)
(* every step keeps the fold keeps, by the least step that would not.  A   *)
(* walk keeps Searching: the queue is the part of what was found that is   *)
(* not yet visited, found once each, at its distance, nearer first, and    *)
(* whatever was visited has all its neighbours found.  Building keeps      *)
(* IsGraph and whatever is Settled, and the structure settles all a form   *)
(* declares.  GraphsAreSound carries both through the steps of a session.  *)
(***************************************************************************)
EXTENDS UnitReview, FiniteSetTheorems, SequenceTheorems, WellFoundedInduction, TLAPS

Values == {"PRESERVED", "UNCERTAIN", "CHANGED"}

\* How cautious an answer is (BEHAVIORS, behavior.py).
LEMMA Ranks ==
  /\ Range(Behaviors) = Values
  /\ RankIn(Behaviors, "PRESERVED") = 1
  /\ RankIn(Behaviors, "UNCERTAIN") = 2
  /\ RankIn(Behaviors, "CHANGED") = 3
<1> USE DEF Behaviors
<1>0. DOMAIN Behaviors = 1..3
  OBVIOUS
<1>1. Range(Behaviors) = Values
  BY <1>0 DEF Range, Values
<1>2. RankIn(Behaviors, "PRESERVED") = 1
  BY <1>0 DEF RankIn
<1>3. RankIn(Behaviors, "UNCERTAIN") = 2
  BY <1>0 DEF RankIn
<1>4. RankIn(Behaviors, "CHANGED") = 3
  BY <1>0 DEF RankIn
<1> QED
  BY <1>1, <1>2, <1>3, <1>4

\* What the rules of a release say of a unit is a row, above itself.  (analyze_task)
LEMMA RulesAreRows ==
  ASSUME NEW f \in DOMAIN Forms, NEW e \in Engine, NEW u \in DOMAIN Forms[f].units
  PROVE  /\ Rows[f][e][u] \in AnalysisRow
         /\ Rows[f][e][u].engine = e
<1> DEFINE x == Forms[f].units[u]
           r == Rows[f][e][u]
           ruled == UNION {Range(Rows[g][d]) : g \in DOMAIN Forms, d \in Engine}
<1>1. r = [engine |-> e, risk |-> Risk(e, x), behavior |-> Classify(e, x)]
  BY DEF Rows, Analyze
<1>2. r \in Range(Rows[f][e])
  BY DEF Range, Rows
<1>3. r \in ruled
  BY <1>2
<1>4. /\ Classify(e, x).value \in Values
      /\ Classify(e, x) = [value |-> Classify(e, x).value, notes |-> Classify(e, x).notes]
  BY DEF Classify, Values
<1> HIDE DEF ruled, x, r
<1>5. r.risk \in {s.risk : s \in ruled} /\ r.behavior.notes \subseteq UNION {s.behavior.notes : s \in ruled}
  BY <1>3
<1>6. r.behavior \in [value : Range(Behaviors), notes : SUBSET ({"AI"} \cup UNION {s.behavior.notes : s \in ruled})]
  BY <1>1, <1>4, <1>5, Ranks
<1>7. r \in AnalysisRow
  BY <1>1, <1>5, <1>6 DEF AnalysisRow, ruled
<1> QED
  BY <1>1, <1>7 DEF r

-----------------------------------------------------------------------------
(* The inductive invariant *)

Places == {"down", "analyse", "save", "specify", "compare", "write", "idle"}

Case == [state : {"pending", "accepted"}, run : {"not_run", "pass"}, engine : Engine]

\* A process: its graph and what it read may be anything.
ProcessTyped(s) ==
  /\ s \in [pc : Places, ready : BOOLEAN, alone : BOOLEAN, engine : Engine \cup {None}, sheet : BOOLEAN,
            todo : SUBSET Unit, read : {s.read}, graph : {s.graph}, opinion : {s.opinion}]
  /\ s.read \in [fresh : {s.read.fresh}, existing : {s.read.existing}]
  /\ s.pc # "down" => s.engine \in Engine

Typed ==
  /\ form \in DOMAIN Forms
  /\ analysis \in [Unit -> AnalysisRow \cup {None}]
  /\ cases = [u \in Unit |-> cases[u]] /\ \A u \in Unit : cases[u] \in [DOMAIN cases[u] -> Case]
  /\ code = [u \in Unit |-> code[u]]
  /\ \A u \in Unit : code[u] \in [proposals : Nat, decision : {code[u].decision}]
  /\ proc = [p \in Process |-> proc[p]] /\ \A p \in Process : ProcessTyped(proc[p])

\* An opinion that is being folded in is about a row above its rules.
OpinionIsSound(o) ==
  o # None =>
    \E u \in Unit, row \in AnalysisRow, value \in Values :
      o = [unit |-> u, row |-> row, value |-> value] /\ AboveRules(u, row)

\* Whoever is past its analyses, or serves, leaves no unit without one.
Unexamined == {u \in Unit : analysis[u] = None}
ExaminedBy(s) ==
  /\ s.ready \/ s.pc \notin {"down", "analyse"} => Unexamined = {}
  /\ s.pc = "analyse" => Unexamined \subseteq s.todo

Floors ==
  /\ RulesAreTheFloor
  /\ \A p \in Process : OpinionIsSound(proc[p].opinion) /\ ExaminedBy(proc[p])

\* A process that is alone has the session for itself, and one that writes
\* its first specifications does not serve; what it read is what there is.
StatesOf(rows) == [id \in DOMAIN rows |-> rows[id].state]
Regenerates(p) ==
  /\ proc[p].alone => \A q \in Process \ {p} : proc[q].pc = "down"
  /\ proc[p].pc \in {"down", "specify", "compare", "write"} => ~proc[p].ready
  /\ proc[p].pc = "down" => ~proc[p].alone
  /\ proc[p].alone /\ proc[p].pc = "write" =>
       \A u \in Unit : Foremost(u, proc[p].todo) => proc[p].read.existing = StatesOf(cases[u])

Regeneration == \A p \in Process : Regenerates(p)

IInv == Typed /\ Floors /\ Regeneration

-----------------------------------------------------------------------------
(* Types *)

\* The rows and the typing of a process speak of the form, which never changes.
LEMMA SameForm ==
  ASSUME form' = form
  PROVE  /\ Unit' = Unit /\ Form' = Form
         /\ \A s : ProcessTyped(s)' <=> ProcessTyped(s)
  BY DEF Unit, Form, ProcessTyped

\* Exactly one process changes.
LEMMA Updates ==
  ASSUME Typed, form' = form, NEW p \in Process, NEW s, ProcessTyped(s), Becomes(p, s)
  PROVE  /\ proc' = [q \in Process |-> proc'[q]]
         /\ proc'[p] = s /\ \A q \in Process \ {p} : proc'[q] = proc[q]
         /\ \A q \in Process : ProcessTyped(proc'[q])
<1> DEFINE P(q) == ProcessTyped(q)
<1>1. \A q \in Process : P(proc[q])
  BY DEF Typed
<1>2. proc = [q \in Process |-> proc[q]] /\ proc' = [proc EXCEPT ![p] = s]
  BY DEF Typed, Becomes
<1>3. P(s)
  OBVIOUS
<1> HIDE DEF P
<1>4. /\ proc' = [q \in Process |-> proc'[q]]
      /\ proc'[p] = s /\ \A q \in Process \ {p} : proc'[q] = proc[q]
  BY <1>2
<1>5. \A q \in Process : P(proc'[q])
  BY <1>1, <1>3, <1>4
<1> QED
  BY <1>4, <1>5 DEF P

\* A process that is down is well typed.
LEMMA DownTyped == ProcessTyped(Down)
  BY DEF Down, Reading, ProcessTyped, Places

\* What each step of an opening makes of its process.
LEMMA OpeningTyped ==
  ASSUME Typed, form' = form, NEW p \in Process
  PROVE  /\ \A sheet \in BOOLEAN : proc[p].pc = "idle" =>
              ProcessTyped([proc[p] EXCEPT !.pc = "analyse", !.sheet = sheet, !.todo = StaleUnits(proc[p].engine)])
         /\ \A u \in Unit : ProcessTyped([proc[p] EXCEPT !.todo = @ \ {u}])
         /\ \A graph : proc[p].pc = "analyse" => ProcessTyped([proc[p] EXCEPT !.pc = "save", !.graph = graph])
         /\ \A graph : proc[p].pc # "down" => ProcessTyped(AfterGraph(proc[p], graph))
         /\ proc[p].pc = "specify" => ProcessTyped([proc[p] EXCEPT !.pc = "idle", !.ready = TRUE])
         /\ \A u \in Unit : proc[p].pc = "write" =>
              ProcessTyped([proc[p] EXCEPT !.pc = "specify", !.todo = @ \ {u}, !.read = Reading])
         /\ \A o : ProcessTyped([proc[p] EXCEPT !.opinion = o])
<1> DEFINE s == proc[p]
<1>1. ProcessTyped(s)
  BY DEF Typed
<1>2. StaleUnits(s.engine) \in SUBSET Unit /\ UnspecifiedUnits(s.engine) \in SUBSET Unit
  BY DEF StaleUnits, UnspecifiedUnits
<1> HIDE DEF s
<1> USE DEF ProcessTyped, Places
<1>3. \A sheet \in BOOLEAN : s.pc = "idle" =>
              ProcessTyped([s EXCEPT !.pc = "analyse", !.sheet = sheet, !.todo = StaleUnits(s.engine)])
  BY <1>1, <1>2
<1>4. \A u \in Unit : ProcessTyped([s EXCEPT !.todo = @ \ {u}])
  BY <1>1
<1>5. \A graph : s.pc = "analyse" => ProcessTyped([s EXCEPT !.pc = "save", !.graph = graph])
  BY <1>1
<1>6. \A graph : s.pc # "down" => ProcessTyped(AfterGraph(s, graph))
  <2> SUFFICES ASSUME NEW graph, s.pc # "down" PROVE ProcessTyped(AfterGraph(s, graph))
    OBVIOUS
  <2> DEFINE where == IF s.ready THEN "idle" ELSE "specify"
             units == IF s.ready THEN {} ELSE UnspecifiedUnits(s.engine)
  <2>1. where \in Places /\ where # "down" /\ units \in SUBSET Unit
    BY <1>2
  <2>2. AfterGraph(s, graph) = [s EXCEPT !.pc = where, !.graph = graph, !.todo = units]
    BY DEF AfterGraph
  <2> HIDE DEF where, units
  <2> QED
    BY <1>1, <2>1, <2>2
<1>7. s.pc = "specify" => ProcessTyped([s EXCEPT !.pc = "idle", !.ready = TRUE])
  BY <1>1
<1>8. \A u \in Unit : s.pc = "write" =>
        ProcessTyped([s EXCEPT !.pc = "specify", !.todo = @ \ {u}, !.read = Reading])
  BY <1>1 DEF Reading
<1>9. \A o : ProcessTyped([s EXCEPT !.opinion = o])
  BY <1>1
<1> QED
  BY ONLY <1>3, <1>4, <1>5, <1>6, <1>7, <1>8, <1>9 DEF s

\* The row an opinion leaves.  (_merge_behavior)
Folded(row, value) == [row EXCEPT !.behavior = Merge(row.behavior, value)]

\* Folding an opinion in leaves a row of the same release and risk, whose
\* behaviour is no better and whose doubts are all still there.  (merge_ai)
LEMMA Merging ==
  ASSUME NEW row \in AnalysisRow, NEW value \in Values, NEW r, r = Folded(row, value)
  PROVE  /\ r \in AnalysisRow /\ r.engine = row.engine /\ r.risk = row.risk
         /\ RankIn(Behaviors, r.behavior.value) >= RankIn(Behaviors, row.behavior.value)
         /\ row.behavior.notes \subseteq r.behavior.notes
<1> DEFINE doubts == {"AI"} \cup UNION {s.behavior.notes : s \in UNION {Range(Rows[f][e]) : f \in DOMAIN Forms, e \in Engine}}
           risks == {s.risk : s \in UNION {Range(Rows[f][e]) : f \in DOMAIN Forms, e \in Engine}}
           b == row.behavior
           m == Merge(b, value)
<1>1. AnalysisRow = [engine : Engine, risk : risks, behavior : [value : Values, notes : SUBSET doubts]]
  BY Ranks DEF AnalysisRow
<1>2. "AI" \in doubts
  OBVIOUS
<1> HIDE DEF doubts, risks
<1>3. b \in [value : Values, notes : SUBSET doubts]
  BY <1>1
<1>4. r = [engine |-> row.engine, risk |-> row.risk, behavior |-> m]
  BY <1>1 DEF Folded
<1> HIDE DEF b
<1>5. \A v \in Values : RankIn(Behaviors, v) \in Int
  BY Ranks DEF Values
<1>6. m \in [value : Values, notes : SUBSET doubts] /\ b.notes \subseteq m.notes
      /\ RankIn(Behaviors, m.value) >= RankIn(Behaviors, b.value)
  <2>1. CASE RankIn(Behaviors, value) <= RankIn(Behaviors, b.value)
    <3>1. m = b
      BY <2>1 DEF Merge
    <3> QED
      BY <1>3, <1>5, <3>1
  <2>2. CASE ~(RankIn(Behaviors, value) <= RankIn(Behaviors, b.value))
    <3> DEFINE notes == IF value = "CHANGED" THEN b.notes ELSE b.notes \cup {"AI"}
    <3>1. m = [value |-> value, notes |-> notes]
      BY <2>2 DEF Merge
    <3>2. notes \in SUBSET doubts /\ b.notes \subseteq notes
      BY <1>2, <1>3
    <3> HIDE DEF notes, m
    <3>3. RankIn(Behaviors, value) >= RankIn(Behaviors, b.value)
      BY <2>2, <1>3, <1>5
    <3> QED
      BY <3>1, <3>2, <3>3
  <2> QED
    BY <2>1, <2>2
<1> HIDE DEF m
<1>7. row.engine \in Engine /\ row.risk \in risks
  BY <1>1
<1>8. r \in AnalysisRow
  BY <1>1, <1>4, <1>6, <1>7
<1> QED
  BY <1>4, <1>6, <1>8 DEF b

\* Being above the rules is a matter of the release, the risk and the behaviour.
LEMMA StillAbove ==
  ASSUME form \in DOMAIN Forms, NEW u \in Unit, NEW row \in AnalysisRow, NEW r \in AnalysisRow,
         AboveRules(u, row), r.engine = row.engine, r.risk = row.risk,
         RankIn(Behaviors, r.behavior.value) >= RankIn(Behaviors, row.behavior.value),
         row.behavior.notes \subseteq r.behavior.notes
  PROVE  AboveRules(u, r)
<1> DEFINE rules == Rows[form][row.engine][u]
<1>1. \A x \in AnalysisRow : x.engine \in Engine /\ x.behavior.value \in Values
  BY Ranks DEF AnalysisRow
<1>2. rules \in AnalysisRow
  BY <1>1, RulesAreRows DEF Unit, Form
<1>3. \A v \in Values : RankIn(Behaviors, v) \in Int
  BY Ranks DEF Values
<1>4. AboveRules(u, row) <=>
        /\ row.risk = rules.risk
        /\ RankIn(Behaviors, row.behavior.value) >= RankIn(Behaviors, rules.behavior.value)
        /\ rules.behavior.notes \subseteq row.behavior.notes
  BY DEF AboveRules
<1>5. AboveRules(u, r) <=>
        /\ r.risk = rules.risk
        /\ RankIn(Behaviors, r.behavior.value) >= RankIn(Behaviors, rules.behavior.value)
        /\ rules.behavior.notes \subseteq r.behavior.notes
  BY DEF AboveRules
<1> HIDE DEF rules
<1>6. /\ RankIn(Behaviors, r.behavior.value) \in Int /\ RankIn(Behaviors, row.behavior.value) \in Int
      /\ RankIn(Behaviors, rules.behavior.value) \in Int
  BY <1>1, <1>2, <1>3
<1> QED
  BY <1>4, <1>5, <1>6

\* The rules are above themselves.
LEMMA RulesAreAbove ==
  ASSUME form \in DOMAIN Forms, NEW e \in Engine, NEW u \in Unit
  PROVE  /\ Rows[form][e][u] \in AnalysisRow
         /\ AboveRules(u, Rows[form][e][u])
<1> DEFINE rules == Rows[form][e][u]
<1>1. rules \in AnalysisRow /\ rules.engine = e
  BY RulesAreRows DEF Unit, Form
<1>2. rules.behavior.value \in Values
  BY <1>1, Ranks DEF AnalysisRow
<1>3. RankIn(Behaviors, rules.behavior.value) \in Int
  BY <1>2, Ranks DEF Values
<1>4. Rows[form][rules.engine][u] = rules
  BY <1>1
<1>5. AboveRules(u, rules)
  <2> HIDE DEF rules
  <2> QED
    BY <1>3, <1>4 DEF AboveRules
<1> QED
  BY <1>1, <1>5

\* A unit specified again keeps well-typed cases.  (save_test_cases)
LEMMA CasesRespecified ==
  ASSUME NEW now, now \in [DOMAIN now -> Case], NEW read, NEW e \in Engine
  PROVE  LET r == Respecify(now, read, e) IN r \in [DOMAIN r -> Case]
<1> DEFINE added == read.fresh \ DOMAIN read.existing
           domain == (DOMAIN now \cup added) \ Vanished(read)
           Cell(id) == IF id \in added THEN NewCase(e)
                       ELSE IF id \in read.fresh THEN [now[id] EXCEPT !.engine = e] ELSE now[id]
<1>1. Respecify(now, read, e) = [id \in domain |-> Cell(id)]
  BY DEF Respecify
<1>2. \A id \in domain : Cell(id) \in Case
  <2> SUFFICES ASSUME NEW id \in domain PROVE Cell(id) \in Case
    OBVIOUS
  <2>1. CASE id \in added
    BY <2>1 DEF NewCase, Case
  <2>2. CASE id \notin added
    <3>1. now[id] \in Case
      BY <2>2
    <3>2. [now[id] EXCEPT !.engine = e] \in Case
      BY <3>1 DEF Case
    <3> QED
      BY <2>2, <3>1, <3>2
  <2> QED
    BY <2>1, <2>2
<1> HIDE DEF domain, Cell
<1> QED
  BY <1>1, <1>2

LEMMA TypedInitially == ASSUME Init PROVE Typed
<1>1. \A p \in Process : proc[p] = Down
  BY DEF Init
<1>2. \A p \in Process : ProcessTyped(proc[p])
  BY <1>1, DownTyped
<1> QED
  BY <1>2 DEF Init, Typed

\* A step that leaves the tables of cases and code alone, and changes at most
\* the analyses and the processes in a typed way.
LEMMA TypedFrame ==
  ASSUME Typed, form' = form, cases' = cases, code' = code,
         analysis' \in [Unit -> AnalysisRow \cup {None}],
         proc' = [q \in Process |-> proc'[q]], \A q \in Process : ProcessTyped(proc'[q])
  PROVE  Typed'
<1>1. /\ Unit' = Unit /\ \A s : ProcessTyped(s)' <=> ProcessTyped(s)
  BY SameForm
<1>2. \A q \in Process : ProcessTyped(proc[q])'
  <2> SUFFICES ASSUME NEW q \in Process PROVE ProcessTyped(proc[q])'
    OBVIOUS
  <2>1. PICK s : s = proc'[q]
    OBVIOUS
  <2>2. ProcessTyped(s)'
    BY <1>1, <2>1
  <2> QED
    BY <2>1, <2>2 DEF ProcessTyped
<1> QED
  BY <1>1, <1>2 DEF Typed

\* A process writes the analysis of a unit: its rules' row.
LEMMA ExamineTyped ==
  ASSUME Typed, NEW p \in Process, Examine(p)
  PROVE  Typed'
<1>1. form' = form /\ cases' = cases /\ code' = code
  BY DEF Examine
<1>2. PICK u \in Unit : /\ analysis' = [analysis EXCEPT ![u] = Rows[form][proc[p].engine][u]]
                        /\ Becomes(p, [proc[p] EXCEPT !.todo = @ \ {u}])
  BY DEF Examine
<1>3. proc[p].engine \in Engine
  BY DEF Examine, Typed, ProcessTyped
<1>4. Rows[form][proc[p].engine][u] \in AnalysisRow
  BY <1>3, RulesAreAbove DEF Typed
<1>5. analysis' \in [Unit -> AnalysisRow \cup {None}]
  BY <1>2, <1>4 DEF Typed
<1>6. ProcessTyped([proc[p] EXCEPT !.todo = @ \ {u}])
  BY <1>1, OpeningTyped
<1> QED
  BY <1>1, <1>2, <1>5, <1>6, Updates, TypedFrame

\* The steps of an opening that only change their process.
LEMMA OpeningStepTyped ==
  ASSUME Typed, NEW p \in Process, NEW s, ProcessTyped(s), Becomes(p, s),
         UNCHANGED <<form, analysis, cases, code>>
  PROVE  Typed'
<1>1. analysis' \in [Unit -> AnalysisRow \cup {None}]
  BY DEF Typed
<1> QED
  BY <1>1, Updates, TypedFrame

LEMMA OpenTyped ==
  ASSUME Typed, NEW p \in Process, NEW e \in Engine, NEW sheet \in BOOLEAN, Open(p, e, sheet)
  PROVE  Typed'
<1> DEFINE opened == [Down EXCEPT !.pc = "analyse", !.alone = Up = {}, !.engine = e, !.sheet = sheet,
                                  !.todo = StaleUnits(e)]
<1>1. UNCHANGED <<form, analysis, cases, code>>
  BY DEF Open
<1>2. /\ proc' = [q \in Process |-> proc'[q]]
      /\ proc'[p] = opened /\ \A q \in Process \ {p} : proc'[q] = [proc[q] EXCEPT !.alone = FALSE]
  BY DEF Open
<1>3. StaleUnits(e) \in SUBSET Unit /\ (Up = {}) \in BOOLEAN
  BY DEF StaleUnits
<1>4. ProcessTyped(opened)
  BY <1>3 DEF ProcessTyped, Places, Down, Reading
<1>5. \A q \in Process : ProcessTyped(proc[q])
  BY DEF Typed
<1>6. \A s : ProcessTyped(s) => ProcessTyped([s EXCEPT !.alone = FALSE])
  BY DEF ProcessTyped, Places
<1> HIDE DEF opened
<1>7. \A q \in Process : ProcessTyped(proc'[q])
  BY <1>2, <1>4, <1>5, <1>6
<1>8. analysis' \in [Unit -> AnalysisRow \cup {None}]
  BY <1>1 DEF Typed
<1> QED
  BY <1>1, <1>2, <1>7, <1>8, TypedFrame

\* What a process has read changes, and where it is.
LEMMA ReadsTyped ==
  ASSUME Typed, NEW p \in Process, NEW x
  PROVE  /\ proc[p].pc = "specify" => ProcessTyped([proc[p] EXCEPT !.pc = "compare", !.read.fresh = x])
         /\ proc[p].pc = "compare" => ProcessTyped([proc[p] EXCEPT !.pc = "write", !.read.existing = x])
<1> DEFINE s == proc[p]
           f == [s EXCEPT !.pc = "compare", !.read = [fresh |-> x, existing |-> s.read.existing]]
           w == [s EXCEPT !.pc = "write", !.read = [fresh |-> s.read.fresh, existing |-> x]]
<1>1. ProcessTyped(s)
  BY DEF Typed
<1> HIDE DEF s
<1>2. [s EXCEPT !.pc = "compare", !.read.fresh = x] = f /\ [s EXCEPT !.pc = "write", !.read.existing = x] = w
  <2>1. /\ [s.read EXCEPT !.fresh = x] = [fresh |-> x, existing |-> s.read.existing]
        /\ [s.read EXCEPT !.existing = x] = [fresh |-> s.read.fresh, existing |-> x]
    BY <1>1 DEF ProcessTyped
  <2> QED
    BY <2>1
<1>3. /\ s.pc = "specify" => ProcessTyped(f)
      /\ s.pc = "compare" => ProcessTyped(w)
  BY <1>1 DEF ProcessTyped, Places
<1> QED
  BY ONLY <1>2, <1>3 DEF s

\* Nothing but cases or code changes, in a typed way.
LEMMA TablesFrame ==
  ASSUME Typed, form' = form, analysis' = analysis, proc' = [q \in Process |-> proc'[q]],
         \A q \in Process : ProcessTyped(proc'[q]),
         cases' = [u \in Unit |-> cases'[u]], \A u \in Unit : cases'[u] \in [DOMAIN cases'[u] -> Case],
         code' = [u \in Unit |-> code'[u]],
         \A u \in Unit : code'[u] \in [proposals : Nat, decision : {code'[u].decision}]
  PROVE  Typed'
<1>1. /\ Unit' = Unit /\ \A s : ProcessTyped(s)' <=> ProcessTyped(s)
  BY SameForm
<1>2. \A q \in Process : ProcessTyped(proc[q])'
  <2> SUFFICES ASSUME NEW q \in Process PROVE ProcessTyped(proc[q])'
    OBVIOUS
  <2>1. PICK s : s = proc'[q]
    OBVIOUS
  <2>2. ProcessTyped(s)'
    BY <1>1, <2>1
  <2> QED
    BY <2>1, <2>2 DEF ProcessTyped
<1> QED
  BY <1>1, <1>2 DEF Typed

\* The transaction that writes what changed.
LEMMA WriteTyped ==
  ASSUME Typed, NEW p \in Process, Write(p)
  PROVE  Typed'
<1>1. UNCHANGED <<form, analysis, code>> /\ proc[p].pc = "write"
  BY DEF Write
<1>2. PICK u \in Unit :
        \/ Becomes(p, Down) /\ UNCHANGED cases
        \/ /\ cases' = [cases EXCEPT ![u] = Respecify(@, proc[p].read, proc[p].engine)]
           /\ Becomes(p, [proc[p] EXCEPT !.pc = "specify", !.todo = @ \ {u}, !.read = Reading])
  BY DEF Write
<1>3. CASE Becomes(p, Down) /\ UNCHANGED cases
  BY <1>1, <1>3, DownTyped, OpeningStepTyped
<1>4. CASE /\ cases' = [cases EXCEPT ![u] = Respecify(@, proc[p].read, proc[p].engine)]
           /\ Becomes(p, [proc[p] EXCEPT !.pc = "specify", !.todo = @ \ {u}, !.read = Reading])
  <2> DEFINE r == Respecify(cases[u], proc[p].read, proc[p].engine)
             s == [proc[p] EXCEPT !.pc = "specify", !.todo = @ \ {u}, !.read = Reading]
  <2>1. proc[p].engine \in Engine
    BY <1>1 DEF Typed, ProcessTyped
  <2>2. cases[u] \in [DOMAIN cases[u] -> Case] /\ cases = [v \in Unit |-> cases[v]]
    BY DEF Typed
  <2>3. r \in [DOMAIN r -> Case]
    BY <2>1, <2>2, CasesRespecified
  <2>4. cases' = [cases EXCEPT ![u] = r]
    BY <1>4
  <2>5. ProcessTyped(s)
    BY <1>1, OpeningTyped
  <2>6. Becomes(p, s)
    BY <1>4
  <2> HIDE DEF r, s
  <2>7. /\ proc' = [q \in Process |-> proc'[q]]
        /\ \A q \in Process : ProcessTyped(proc'[q])
    BY <1>1, <2>5, <2>6, Updates
  <2>8. /\ cases' = [v \in Unit |-> cases'[v]] /\ cases'[u] = r
        /\ \A v \in Unit \ {u} : cases'[v] = cases[v]
    BY <2>2, <2>4
  <2>9. \A v \in Unit : cases'[v] \in [DOMAIN cases'[v] -> Case]
    <3> SUFFICES ASSUME NEW v \in Unit PROVE cases'[v] \in [DOMAIN cases'[v] -> Case]
      OBVIOUS
    <3>1. CASE v = u
      BY <2>3, <2>8, <3>1
    <3>2. CASE v # u
      BY <2>8, <3>2 DEF Typed
    <3> QED
      BY <3>1, <3>2
  <2>10. code' = [v \in Unit |-> code'[v]] /\ \A v \in Unit : code'[v] \in [proposals : Nat, decision : {code'[v].decision}]
    BY <1>1 DEF Typed
  <2> QED
    BY <1>1, <2>7, <2>8, <2>9, <2>10, TablesFrame
<1> QED
  BY <1>2, <1>3, <1>4

\* An answer or a run is recorded.
LEMMA ChangeCaseTyped ==
  ASSUME Typed, NEW p \in Process, NEW u \in Unit, NEW id \in DOMAIN cases[u], NEW row \in Case,
         ChangeCase(p, u, id, row)
  PROVE  Typed'
<1>1. UNCHANGED <<form, analysis, code, proc>> /\ cases' = [cases EXCEPT ![u][id] = row]
  BY DEF ChangeCase
<1>2. cases[u] \in [DOMAIN cases[u] -> Case] /\ cases = [v \in Unit |-> cases[v]]
  BY DEF Typed
<1> DEFINE r == [cases[u] EXCEPT ![id] = row]
<1>3. r \in [DOMAIN r -> Case]
  BY <1>2
<1>4. cases' = [cases EXCEPT ![u] = r]
  BY <1>1
<1> HIDE DEF r
<1>5. /\ cases' = [v \in Unit |-> cases'[v]] /\ cases'[u] = r
      /\ \A v \in Unit \ {u} : cases'[v] = cases[v]
  BY <1>2, <1>4
<1>6. \A v \in Unit : cases'[v] \in [DOMAIN cases'[v] -> Case]
  <2> SUFFICES ASSUME NEW v \in Unit PROVE cases'[v] \in [DOMAIN cases'[v] -> Case]
    OBVIOUS
  <2>1. CASE v = u
    BY <1>3, <1>5, <2>1
  <2>2. CASE v # u
    BY <1>5, <2>2 DEF Typed
  <2> QED
    BY <2>1, <2>2
<1>7. code' = [v \in Unit |-> code'[v]] /\ \A v \in Unit : code'[v] \in [proposals : Nat, decision : {code'[v].decision}]
  BY <1>1 DEF Typed
<1>8. proc' = [q \in Process |-> proc'[q]] /\ \A q \in Process : ProcessTyped(proc'[q])
  BY <1>1 DEF Typed
<1> QED
  BY <1>1, <1>5, <1>6, <1>7, <1>8, TablesFrame

\* A step that changes the code of one unit, and processes.
LEMMA CodeTyped ==
  ASSUME Typed, UNCHANGED <<form, analysis, cases>>, NEW u \in Unit, NEW n \in Nat, NEW d,
         code' = [code EXCEPT ![u] = [proposals |-> n, decision |-> d]],
         proc' = [q \in Process |-> proc'[q]], \A q \in Process : ProcessTyped(proc'[q])
  PROVE  Typed'
<1>1. code = [v \in Unit |-> code[v]] /\ \A v \in Unit : code[v] \in [proposals : Nat, decision : {code[v].decision}]
  BY DEF Typed
<1>2. /\ code' = [v \in Unit |-> code'[v]] /\ code'[u] = [proposals |-> n, decision |-> d]
      /\ \A v \in Unit \ {u} : code'[v] = code[v]
  BY <1>1
<1>3. \A v \in Unit : code'[v] \in [proposals : Nat, decision : {code'[v].decision}]
  <2> SUFFICES ASSUME NEW v \in Unit PROVE code'[v] \in [proposals : Nat, decision : {code'[v].decision}]
    OBVIOUS
  <2>1. CASE v = u
    BY <1>2, <2>1
  <2>2. CASE v # u
    BY <1>1, <1>2, <2>2
  <2> QED
    BY <2>1, <2>2
<1>4. cases' = [v \in Unit |-> cases'[v]] /\ \A v \in Unit : cases'[v] \in [DOMAIN cases'[v] -> Case]
  BY DEF Typed
<1> QED
  BY <1>2, <1>3, <1>4, TablesFrame

LEMMA DecideTyped ==
  ASSUME Typed, NEW p \in Process, NEW u \in Unit, NEW state, NEW text, Decide(p, u, state, text)
  PROVE  /\ Typed'
         /\ code' = [code EXCEPT ![u] = [proposals |-> code[u].proposals, decision |-> Decision(u, state, text)]]
<1>1. UNCHANGED <<form, analysis, cases, proc>> /\ code' = [code EXCEPT ![u].decision = Decision(u, state, text)]
  BY DEF Decide
<1>2. PICK d : d = Decision(u, state, text)
  OBVIOUS
<1>3. code[u] \in [proposals : Nat, decision : {code[u].decision}]
  BY DEF Typed
<1>4. [code[u] EXCEPT !.decision = d] = [proposals |-> code[u].proposals, decision |-> d]
  BY <1>3
<1>5. code' = [code EXCEPT ![u] = [proposals |-> code[u].proposals, decision |-> d]]
  BY <1>1, <1>2, <1>4
<1>6. proc' = [q \in Process |-> proc'[q]] /\ \A q \in Process : ProcessTyped(proc'[q])
  BY <1>1 DEF Typed
<1>7. code[u].proposals \in Nat
  BY <1>3
<1> QED
  BY <1>1, <1>2, <1>5, <1>6, <1>7, CodeTyped

LEMMA TakeOpinionTyped ==
  ASSUME Typed, NEW p \in Process, NEW u \in Unit, NEW value, TakeOpinion(p, u, value)
  PROVE  /\ Typed'
         /\ code' = [code EXCEPT ![u] = [proposals |-> code[u].proposals + 1, decision |-> code[u].decision]]
<1> DEFINE s == [proc[p] EXCEPT !.opinion = [unit |-> u, row |-> analysis[u], value |-> value]]
<1>1. UNCHANGED <<form, analysis, cases>> /\ code' = [code EXCEPT ![u].proposals = @ + 1] /\ Becomes(p, s)
  BY DEF TakeOpinion
<1>2. ProcessTyped(s)
  BY <1>1, OpeningTyped
<1> HIDE DEF s
<1>3. proc' = [q \in Process |-> proc'[q]] /\ \A q \in Process : ProcessTyped(proc'[q])
  BY <1>1, <1>2, Updates
<1>4. code[u] \in [proposals : Nat, decision : {code[u].decision}]
  BY DEF Typed
<1>5. PICK n \in Nat, d \in {code[u].decision} : n = code[u].proposals + 1
  BY <1>4
<1>6. [code[u] EXCEPT !.proposals = n] = [proposals |-> n, decision |-> d]
  BY <1>4, <1>5
<1>7. code' = [code EXCEPT ![u] = [proposals |-> n, decision |-> d]]
  BY <1>1, <1>5, <1>6
<1>8. UNCHANGED <<form, analysis, cases>>
  BY <1>1
<1>9. Typed'
  BY Typed, <1>3, <1>5, <1>7, <1>8, CodeTyped
<1> QED
  BY <1>5, <1>7, <1>9

\* Folding an opinion in: the row it leaves is a row, of the release of the one
\* the opinion was about, and above the rules.
LEMMA FoldsAbove ==
  ASSUME Typed, Floors, NEW p \in Process, FoldOpinion(p)
  PROVE  /\ Typed'
         /\ \/ analysis' = analysis
            \/ \E u \in Unit, r \in AnalysisRow :
                 analysis' = [analysis EXCEPT ![u] = r] /\ AboveRules(u, r)
<1> DEFINE o == proc[p].opinion
           merged == Merge(o.row.behavior, o.value)
<1>1. UNCHANGED <<form, cases, code>> /\ Becomes(p, [proc[p] EXCEPT !.opinion = None]) /\ o # None
  BY DEF FoldOpinion
<1>2. PICK u \in Unit, row \in AnalysisRow, value \in Values :
        o = [unit |-> u, row |-> row, value |-> value] /\ AboveRules(u, row)
  BY <1>1 DEF Floors, OpinionIsSound
<1>3. analysis' = IF merged = o.row.behavior THEN analysis
                  ELSE [analysis EXCEPT ![o.unit] = [o.row EXCEPT !.behavior = merged]]
  BY DEF FoldOpinion
<1> DEFINE r == Folded(row, value)
<1>4. analysis' = analysis \/ analysis' = [analysis EXCEPT ![u] = r]
  BY <1>2, <1>3 DEF Folded
<1>5. r \in AnalysisRow /\ AboveRules(u, r)
  <2>1. form \in DOMAIN Forms
    BY DEF Typed
  <2>2. PICK x : x = r
    OBVIOUS
  <2>3. /\ x \in AnalysisRow /\ x.engine = row.engine /\ x.risk = row.risk
        /\ RankIn(Behaviors, x.behavior.value) >= RankIn(Behaviors, row.behavior.value)
        /\ row.behavior.notes \subseteq x.behavior.notes
    BY <2>2, Merging
  <2>4. AboveRules(u, x)
    BY <1>2, <2>1, <2>3, StillAbove
  <2> QED
    BY <2>2, <2>3, <2>4
<1> HIDE DEF r
<1>6. analysis' \in [Unit -> AnalysisRow \cup {None}]
  BY <1>4, <1>5 DEF Typed
<1>7. ProcessTyped([proc[p] EXCEPT !.opinion = None])
  BY <1>1, OpeningTyped
<1>8. Typed'
  BY <1>1, <1>6, <1>7, Updates, TypedFrame
<1> QED
  BY <1>4, <1>5, <1>8

-----------------------------------------------------------------------------
(* The floor *)

\* What of a step the floors depend on.
LEMMA FloorsKept ==
  ASSUME form' = form,
         \A u \in Unit : analysis'[u] # None => AboveRules(u, analysis'[u]),
         \A u \in Unit : code'[u].decision # None => AboveRules(u, code'[u].decision.facts),
         \A q \in Process :
           /\ OpinionIsSound(proc'[q].opinion)
           /\ proc'[q].ready \/ proc'[q].pc \notin {"down", "analyse"} => Unexamined' = {}
           /\ proc'[q].pc = "analyse" => Unexamined' \subseteq proc'[q].todo
  PROVE  Floors'
<1>1. Unit' = Unit
  BY SameForm
<1>2. RulesAreTheFloor'
  BY <1>1 DEF RulesAreTheFloor, AboveRules
<1>3. \A q \in Process : OpinionIsSound(proc[q].opinion)'
  <2> SUFFICES ASSUME NEW q \in Process PROVE OpinionIsSound(proc[q].opinion)'
    OBVIOUS
  <2>1. PICK o : o = proc'[q].opinion
    OBVIOUS
  <2>2. OpinionIsSound(o)
    BY <2>1
  <2>3. \A u, row : AboveRules(u, row)' <=> AboveRules(u, row)
    BY DEF AboveRules
  <2>4. CASE o = None
    BY <2>1, <2>4 DEF OpinionIsSound
  <2>5. CASE o # None
    <3>1. PICK u \in Unit, row \in AnalysisRow, value \in Values :
            o = [unit |-> u, row |-> row, value |-> value] /\ AboveRules(u, row)
      BY <2>2, <2>5 DEF OpinionIsSound
    <3>2. AboveRules(u, row)'
      BY <2>3, <3>1
    <3>3. \E v \in Unit', r \in AnalysisRow, w \in Values :
            proc'[q].opinion = [unit |-> v, row |-> r, value |-> w] /\ AboveRules(v, r)'
      BY <1>1, <2>1, <3>1, <3>2
    <3> QED
      BY <3>3 DEF OpinionIsSound
  <2> QED
    BY <2>4, <2>5
<1>4. \A q \in Process : ExaminedBy(proc[q])'
  BY DEF ExaminedBy
<1> QED
  BY <1>2, <1>3, <1>4 DEF Floors

\* The same, of a step that changes one process and no analysis or code.
LEMMA QuietFloors ==
  ASSUME Typed, Floors, NEW p \in Process, NEW s, ProcessTyped(s), Becomes(p, s),
         UNCHANGED <<form, analysis, code>>, OpinionIsSound(s.opinion), ExaminedBy(s)
  PROVE  Floors'
<1>1. proc'[p] = s /\ \A q \in Process \ {p} : proc'[q] = proc[q]
  BY Updates
<1>2. Unexamined' = Unexamined
  BY SameForm DEF Unexamined
<1>3. \A q \in Process :
           /\ OpinionIsSound(proc'[q].opinion)
           /\ proc'[q].ready \/ proc'[q].pc \notin {"down", "analyse"} => Unexamined = {}
           /\ proc'[q].pc = "analyse" => Unexamined \subseteq proc'[q].todo
  <2> SUFFICES ASSUME NEW q \in Process
               PROVE  /\ OpinionIsSound(proc'[q].opinion)
                      /\ ExaminedBy(proc'[q])
    BY DEF ExaminedBy
  <2>1. CASE q = p
    BY <1>1, <2>1
  <2>2. CASE q # p
    BY <1>1, <2>2 DEF Floors
  <2> QED
    BY <2>1, <2>2
<1>4. RulesAreTheFloor
  BY DEF Floors
<1>5. /\ \A u \in Unit : analysis'[u] # None => AboveRules(u, analysis'[u])
      /\ \A u \in Unit : code'[u].decision # None => AboveRules(u, code'[u].decision.facts)
  BY <1>4 DEF RulesAreTheFloor
<1> QED
  BY <1>2, <1>3, <1>5, FloorsKept

\* A process that is down has nothing in hand.
LEMMA DownFloors == OpinionIsSound(Down.opinion) /\ ExaminedBy(Down)
  BY DEF Down, OpinionIsSound, ExaminedBy

\* Units are numbered in the order of the form...
LEMMA UnitsAreNumbered == ASSUME form \in DOMAIN Forms PROVE Unit \subseteq Nat
<1>1. PICK s : s = Form.units
  OBVIOUS
<1>2. IsForm(Form)
  BY ReviewAssumption DEF Form
<1>3. s \in Seq(Range(s))
  BY <1>1, <1>2 DEF IsForm, IsList
<1>4. DOMAIN s \subseteq Nat
  BY <1>3
<1> QED
  BY <1>1, <1>4 DEF Unit

\* ... and no two of them are the next one.
LEMMA OneForemost ==
  ASSUME form \in DOMAIN Forms, NEW S, NEW u \in Unit, NEW v \in Unit, Foremost(u, S), Foremost(v, S)
  PROVE  v = u
<1>1. Unit \subseteq Nat
  BY UnitsAreNumbered
<1>2. u <= v /\ v <= u
  BY DEF Foremost
<1> QED
  BY <1>1, <1>2

\* What such a step makes of a process s.
Unserved == {"down", "specify", "compare", "write"}
Advances(s, t) ==
  /\ t.opinion = s.opinion /\ t.alone = s.alone /\ t.pc # "down"
  /\ (s.pc \in Unserved => ~s.ready) => (t.pc \in Unserved => ~t.ready)
  /\ t.pc = "write" => \A u \in Unit : Foremost(u, t.todo) => t.read.existing = StatesOf(cases[u])

\* Every step of an opening but the first, the analyses and the writing of
\* cases leaves its process well typed and takes it on.
LEMMA OpeningBecomes ==
  ASSUME Typed, NEW p \in Process,
         \/ \E sheet \in BOOLEAN : Reopen(p, sheet)
         \/ LoadGraph(p) \/ BuildGraph(p) \/ SaveGraph(p) \/ Specify(p) \/ Compare(p) \/ Serve(p)
  PROVE  /\ UNCHANGED <<form, analysis, code, cases>>
         /\ proc[p].pc \notin {"down", "analyse"} \/ (proc[p].pc = "analyse" /\ proc[p].todo = {})
         /\ \E s : ProcessTyped(s) /\ Becomes(p, s) /\ Advances(proc[p], s)
<1> DEFINE s == proc[p]
           Changes(t) == ProcessTyped(t) /\ Becomes(p, t) /\ Advances(s, t)
<1> USE DEF Reopen, LoadGraph, BuildGraph, SaveGraph, Specify, Compare, Serve
<1>1. UNCHANGED <<form, analysis, code, cases>>
  OBVIOUS
<1>2. s.pc \notin {"down", "analyse"} \/ (s.pc = "analyse" /\ s.todo = {})
  OBVIOUS
<1>3. ProcessTyped(s)
  BY DEF Typed
<1>3a. form \in DOMAIN Forms
  BY DEF Typed
<1>4. ASSUME NEW sheet \in BOOLEAN, Reopen(p, sheet) PROVE \E t : Changes(t)
  <2> DEFINE t == [s EXCEPT !.pc = "analyse", !.sheet = sheet, !.todo = StaleUnits(s.engine)]
  <2>1. Becomes(p, t) /\ s.pc = "idle"
    BY <1>4
  <2>2. ProcessTyped(t)
    BY <1>1, <2>1, OpeningTyped
  <2>3. Advances(s, t)
    BY <1>3 DEF ProcessTyped, Advances, Unserved
  <2> QED
    BY <2>1, <2>2, <2>3
<1>5. ASSUME NEW graph, s.pc # "down", Becomes(p, AfterGraph(s, graph)) PROVE \E t : Changes(t)
  <2> DEFINE t == AfterGraph(s, graph)
  <2>1. ProcessTyped(t)
    BY <1>1, <1>5, OpeningTyped
  <2>2. Advances(s, t)
    BY <1>3 DEF ProcessTyped, AfterGraph, Advances, Unserved
  <2> QED
    BY <1>5, <2>1, <2>2
<1>6. ASSUME LoadGraph(p) PROVE \E t : Changes(t)
  BY <1>5, <1>6
<1>7. ASSUME SaveGraph(p) PROVE \E t : Changes(t)
  BY <1>5, <1>7
<1>8. ASSUME BuildGraph(p) PROVE \E t : Changes(t)
  <2> DEFINE t == [s EXCEPT !.pc = "save", !.graph = GraphNow]
  <2>1. Becomes(p, t) /\ s.pc = "analyse"
    BY <1>8
  <2>2. ProcessTyped(t)
    BY <1>1, <2>1, OpeningTyped
  <2>3. Advances(s, t)
    BY <1>3 DEF ProcessTyped, Advances, Unserved
  <2> QED
    BY <2>1, <2>2, <2>3
<1>9. ASSUME Specify(p) PROVE \E t : Changes(t)
  <2>1. PICK fresh : Becomes(p, [s EXCEPT !.pc = "compare", !.read.fresh = fresh])
    BY <1>9
  <2> DEFINE t == [s EXCEPT !.pc = "compare", !.read.fresh = fresh]
  <2>2. ProcessTyped(t)
    BY <1>9, ReadsTyped
  <2>3. t.opinion = s.opinion /\ t.alone = s.alone /\ t.pc = "compare" /\ t.ready = s.ready
    BY <1>3 DEF ProcessTyped
  <2>4. s.pc = "specify"
    BY <1>9
  <2>5. Becomes(p, t)
    BY <2>1
  <2> HIDE DEF t, s
  <2>6. Advances(s, t)
    BY <2>3, <2>4 DEF Advances, Unserved
  <2> QED
    BY <2>2, <2>5, <2>6
<1>10. ASSUME Compare(p) PROVE \E t : Changes(t)
  <2>1. PICK u \in Unit : /\ Foremost(u, s.todo)
                          /\ Becomes(p, [s EXCEPT !.pc = "write", !.read.existing = StatesOf(cases[u])])
    BY <1>10 DEF StatesOf
  <2>2. PICK existing : existing = StatesOf(cases[u])
    OBVIOUS
  <2> DEFINE t == [s EXCEPT !.pc = "write", !.read.existing = existing]
  <2>3. ProcessTyped(t)
    BY <1>10, ReadsTyped
  <2>4. \A v \in Unit : Foremost(v, s.todo) => v = u
    BY ONLY <1>3a, <2>1, OneForemost
  <2>5. t.read.existing = existing /\ t.todo = s.todo /\ t.opinion = s.opinion /\ t.alone = s.alone
        /\ t.pc = "write" /\ t.ready = s.ready
    BY <1>3 DEF ProcessTyped
  <2>6. s.pc = "compare"
    BY <1>10
  <2>7. Becomes(p, t)
    BY <2>1, <2>2
  <2> HIDE DEF t, s
  <2>8. Advances(s, t)
    BY <2>2, <2>4, <2>5, <2>6 DEF Advances, Unserved
  <2> QED
    BY <2>3, <2>7, <2>8
<1>11. ASSUME Serve(p) PROVE \E t : Changes(t)
  <2> DEFINE t == [s EXCEPT !.pc = "idle", !.ready = TRUE]
  <2>1. Becomes(p, t) /\ s.pc = "specify"
    BY <1>11
  <2>2. ProcessTyped(t)
    BY <1>1, <2>1, OpeningTyped
  <2>3. Advances(s, t)
    BY <1>3 DEF ProcessTyped, Advances, Unserved
  <2> QED
    BY <2>1, <2>2, <2>3
<1>12. \E t : Changes(t)
  <2> HIDE DEF Changes
  <2> QED
    BY ONLY <1>4, <1>6, <1>7, <1>8, <1>9, <1>10, <1>11,
       \/ \E sheet \in BOOLEAN : Reopen(p, sheet)
       \/ LoadGraph(p) \/ BuildGraph(p) \/ SaveGraph(p) \/ Specify(p) \/ Compare(p) \/ Serve(p)
<1> QED
  BY ONLY <1>1, <1>2, <1>12 DEF Changes

LEMMA OpeningFloors ==
  ASSUME Typed, Floors, NEW p \in Process,
         \/ \E sheet \in BOOLEAN : Reopen(p, sheet)
         \/ LoadGraph(p) \/ BuildGraph(p) \/ SaveGraph(p) \/ Specify(p) \/ Compare(p) \/ Serve(p)
  PROVE  Typed' /\ Floors'
<1>1. /\ UNCHANGED <<form, analysis, code, cases>>
      /\ proc[p].pc \notin {"down", "analyse"} \/ (proc[p].pc = "analyse" /\ proc[p].todo = {})
  BY OpeningBecomes
<1>2. PICK s : ProcessTyped(s) /\ Becomes(p, s) /\ s.opinion = proc[p].opinion
  BY OpeningBecomes DEF Advances
<1>3. OpinionIsSound(proc[p].opinion) /\ ExaminedBy(proc[p])
  BY DEF Floors
<1>4. Unexamined = {}
  BY <1>1, <1>3 DEF ExaminedBy
<1>5. ExaminedBy(s)
  BY <1>4 DEF ExaminedBy
<1>6. OpinionIsSound(s.opinion)
  BY <1>2, <1>3
<1>7. Typed'
  BY ONLY Typed, <1>1, <1>2, OpeningStepTyped
<1>8. Floors'
  BY ONLY Typed, Floors, <1>1, <1>2, <1>5, <1>6, QuietFloors
<1> QED
  BY <1>7, <1>8

\* A process that goes down, and one that has written the cases of a unit.
LEMMA DownStep ==
  ASSUME Typed, Floors, NEW p \in Process, UNCHANGED <<form, analysis, code, cases>>, Becomes(p, Down)
  PROVE  Typed' /\ Floors'
<1>1. Typed'
  BY ONLY Typed, UNCHANGED <<form, analysis, code, cases>>, Becomes(p, Down), DownTyped, OpeningStepTyped
<1>2. Floors'
  BY ONLY Typed, Floors, UNCHANGED <<form, analysis, code, cases>>, Becomes(p, Down), DownTyped, DownFloors, QuietFloors
<1> QED
  BY <1>1, <1>2

LEMMA WriteFloors ==
  ASSUME Typed, Floors, NEW p \in Process, Write(p)
  PROVE  Floors'
<1>1. UNCHANGED <<form, analysis, code>> /\ proc[p].pc = "write"
  BY DEF Write
<1>2. PICK u \in Unit :
        \/ Becomes(p, Down) /\ UNCHANGED cases
        \/ Becomes(p, [proc[p] EXCEPT !.pc = "specify", !.todo = @ \ {u}, !.read = Reading])
  BY DEF Write
<1>3. CASE Becomes(p, Down)
  BY ONLY Typed, Floors, <1>1, <1>3, DownTyped, DownFloors, QuietFloors
<1>4. CASE Becomes(p, [proc[p] EXCEPT !.pc = "specify", !.todo = @ \ {u}, !.read = Reading])
  <2> DEFINE s == [proc[p] EXCEPT !.pc = "specify", !.todo = @ \ {u}, !.read = Reading]
  <2>1. ProcessTyped(s)
    BY <1>1, OpeningTyped
  <2>2. s.opinion = proc[p].opinion
    BY DEF Typed, ProcessTyped
  <2>3. OpinionIsSound(proc[p].opinion) /\ Unexamined = {}
    BY <1>1 DEF Floors, ExaminedBy
  <2>4. Becomes(p, s)
    BY <1>4
  <2> HIDE DEF s
  <2>5. OpinionIsSound(s.opinion) /\ ExaminedBy(s)
    BY <2>2, <2>3 DEF ExaminedBy
  <2> QED
    BY ONLY Typed, Floors, <1>1, <2>1, <2>4, <2>5, QuietFloors
<1> QED
  BY <1>2, <1>3, <1>4

\* A step that writes rows above the rules, if it writes any.
LEMMA RowsFloors ==
  ASSUME Typed, Floors, form' = form, code' = code,
         \/ analysis' = analysis
         \/ \E u \in Unit, r \in AnalysisRow : analysis' = [analysis EXCEPT ![u] = r] /\ AboveRules(u, r)
  PROVE  /\ \A u \in Unit : analysis'[u] # None => AboveRules(u, analysis'[u])
         /\ \A u \in Unit : code'[u].decision # None => AboveRules(u, code'[u].decision.facts)
         /\ Unexamined' \subseteq Unexamined
<1>1. RulesAreTheFloor /\ Unit' = Unit
  BY SameForm DEF Floors
<1>2. \A u \in Unit : code'[u].decision # None => AboveRules(u, code'[u].decision.facts)
  BY <1>1 DEF RulesAreTheFloor
<1>3. CASE analysis' = analysis
  <2>1. \A u \in Unit : analysis'[u] # None => AboveRules(u, analysis'[u])
    BY <1>1, <1>3 DEF RulesAreTheFloor
  <2> QED
    BY <1>1, <1>2, <1>3, <2>1 DEF Unexamined
<1>4. CASE \E u \in Unit, r \in AnalysisRow : analysis' = [analysis EXCEPT ![u] = r] /\ AboveRules(u, r)
  <2>1. PICK u \in Unit, r \in AnalysisRow : analysis' = [analysis EXCEPT ![u] = r] /\ AboveRules(u, r)
    BY <1>4
  <2>2. analysis'[u] = r /\ \A v \in Unit \ {u} : analysis'[v] = analysis[v]
    BY <2>1 DEF Typed
  <2>3. \A v \in Unit : analysis'[v] # None => AboveRules(v, analysis'[v])
    <3> SUFFICES ASSUME NEW v \in Unit, analysis'[v] # None PROVE AboveRules(v, analysis'[v])
      OBVIOUS
    <3>1. CASE v = u
      BY <2>1, <2>2, <3>1
    <3>2. CASE v # u
      BY <1>1, <2>2, <3>2 DEF RulesAreTheFloor
    <3> QED
      BY <3>1, <3>2
  <2>4. r # None
    BY ReviewAssumption
  <2>5. Unexamined' \subseteq Unexamined
    BY <1>1, <2>2, <2>4 DEF Unexamined
  <2> QED
    BY <1>2, <2>3, <2>5
<1> QED
  BY <1>3, <1>4

LEMMA ExamineFloors ==
  ASSUME Typed, Floors, NEW p \in Process, Examine(p)
  PROVE  Floors'
<1>1. form' = form /\ code' = code /\ proc[p].pc = "analyse"
  BY DEF Examine
<1>2. PICK u \in Unit : /\ analysis' = [analysis EXCEPT ![u] = Rows[form][proc[p].engine][u]]
                        /\ Becomes(p, [proc[p] EXCEPT !.todo = @ \ {u}])
  BY DEF Examine
<1> DEFINE s == [proc[p] EXCEPT !.todo = @ \ {u}]
<1>3. proc[p].engine \in Engine /\ form \in DOMAIN Forms
  BY <1>1 DEF Typed, ProcessTyped
<1>4. PICK r \in AnalysisRow : r = Rows[form][proc[p].engine][u] /\ AboveRules(u, r)
  BY <1>3, RulesAreAbove
<1>5. analysis' = [analysis EXCEPT ![u] = r]
  BY <1>2, <1>4
<1>6. ProcessTyped(proc[p]) /\ OpinionIsSound(proc[p].opinion) /\ ExaminedBy(proc[p])
  BY DEF Floors, Typed
<1>7. ProcessTyped(s)
  BY <1>1, OpeningTyped
<1>8. Becomes(p, s)
  BY <1>2
<1>9. s.opinion = proc[p].opinion /\ s.pc = "analyse" /\ s.ready = proc[p].ready /\ s.todo = proc[p].todo \ {u}
  BY <1>1, <1>6 DEF ProcessTyped
<1> HIDE DEF s
<1>10. proc'[p] = s /\ \A q \in Process \ {p} : proc'[q] = proc[q]
  BY ONLY Typed, <1>1, <1>7, <1>8, Updates
<1>11. /\ \A v \in Unit : analysis'[v] # None => AboveRules(v, analysis'[v])
       /\ \A v \in Unit : code'[v].decision # None => AboveRules(v, code'[v].decision.facts)
       /\ Unexamined' \subseteq Unexamined
  BY ONLY Typed, Floors, <1>1, <1>4, <1>5, RowsFloors
<1>12. u \notin Unexamined'
  BY <1>4, <1>5, ReviewAssumption DEF Unexamined, Typed
<1>13. \A q \in Process :
           /\ OpinionIsSound(proc'[q].opinion)
           /\ proc'[q].ready \/ proc'[q].pc \notin {"down", "analyse"} => Unexamined' = {}
           /\ proc'[q].pc = "analyse" => Unexamined' \subseteq proc'[q].todo
  <2> SUFFICES ASSUME NEW q \in Process
               PROVE  /\ OpinionIsSound(proc'[q].opinion)
                      /\ proc'[q].ready \/ proc'[q].pc \notin {"down", "analyse"} => Unexamined' = {}
                      /\ proc'[q].pc = "analyse" => Unexamined' \subseteq proc'[q].todo
    OBVIOUS
  <2>1. CASE q = p
    BY <1>1, <1>6, <1>9, <1>10, <1>11, <1>12, <2>1 DEF ExaminedBy
  <2>2. CASE q # p
    <3>1. OpinionIsSound(proc[q].opinion) /\ ExaminedBy(proc[q]) /\ proc'[q] = proc[q]
      BY <1>10, <2>2 DEF Floors
    <3> QED
      BY <1>11, <3>1 DEF ExaminedBy
  <2> QED
    BY <2>1, <2>2
<1> QED
  BY ONLY <1>1, <1>11, <1>13, FloorsKept

LEMMA OpenFloors ==
  ASSUME Typed, Floors, NEW p \in Process, NEW e \in Engine, NEW sheet \in BOOLEAN, Open(p, e, sheet)
  PROVE  Floors'
<1> DEFINE opened == [Down EXCEPT !.pc = "analyse", !.alone = Up = {}, !.engine = e, !.sheet = sheet,
                                  !.todo = StaleUnits(e)]
<1>1. UNCHANGED <<form, analysis, code>>
  BY DEF Open
<1>2. proc'[p] = opened /\ \A q \in Process \ {p} : proc'[q] = [proc[q] EXCEPT !.alone = FALSE]
  BY DEF Open
<1>3. opened.opinion = None /\ opened.pc = "analyse" /\ opened.ready = FALSE /\ opened.todo = StaleUnits(e)
  BY DEF Down
<1>4. Unexamined \subseteq StaleUnits(e)
  BY DEF Unexamined, StaleUnits
<1>5. \A q \in Process \ {p} :
         proc'[q].opinion = proc[q].opinion /\ proc'[q].pc = proc[q].pc /\ proc'[q].ready = proc[q].ready
           /\ proc'[q].todo = proc[q].todo
  <2>1. \A s : ProcessTyped(s) =>
          LET t == [s EXCEPT !.alone = FALSE] IN
          t.opinion = s.opinion /\ t.pc = s.pc /\ t.ready = s.ready /\ t.todo = s.todo
    BY DEF ProcessTyped
  <2>2. \A q \in Process : ProcessTyped(proc[q])
    BY DEF Typed
  <2> HIDE DEF opened
  <2> QED
    BY <1>2, <2>1, <2>2
<1> HIDE DEF opened
<1>6. /\ \A v \in Unit : analysis'[v] # None => AboveRules(v, analysis'[v])
      /\ \A v \in Unit : code'[v].decision # None => AboveRules(v, code'[v].decision.facts)
      /\ Unexamined' \subseteq Unexamined
  BY ONLY Typed, Floors, <1>1, RowsFloors
<1>7. \A q \in Process :
           /\ OpinionIsSound(proc'[q].opinion)
           /\ proc'[q].ready \/ proc'[q].pc \notin {"down", "analyse"} => Unexamined' = {}
           /\ proc'[q].pc = "analyse" => Unexamined' \subseteq proc'[q].todo
  <2> SUFFICES ASSUME NEW q \in Process
               PROVE  /\ OpinionIsSound(proc'[q].opinion)
                      /\ proc'[q].ready \/ proc'[q].pc \notin {"down", "analyse"} => Unexamined' = {}
                      /\ proc'[q].pc = "analyse" => Unexamined' \subseteq proc'[q].todo
    OBVIOUS
  <2>1. CASE q = p
    BY <1>2, <1>3, <1>4, <1>6, <2>1 DEF OpinionIsSound
  <2>2. CASE q # p
    <3>1. OpinionIsSound(proc[q].opinion) /\ ExaminedBy(proc[q])
      BY DEF Floors
    <3> QED
      BY <1>5, <1>6, <2>2, <3>1 DEF ExaminedBy
  <2> QED
    BY <2>1, <2>2
<1> QED
  BY ONLY <1>1, <1>6, <1>7, FloorsKept

\* A step of a process that serves, and changes at most the opinion it has in hand.
LEMMA ServingFloors ==
  ASSUME Typed, Floors, form' = form, NEW p \in Process, NEW o, OpinionIsSound(o),
         Becomes(p, [proc[p] EXCEPT !.opinion = o]),
         \A v \in Unit : analysis'[v] # None => AboveRules(v, analysis'[v]),
         \A v \in Unit : code'[v].decision # None => AboveRules(v, code'[v].decision.facts),
         Unexamined' \subseteq Unexamined
  PROVE  Floors'
<1> DEFINE s == [proc[p] EXCEPT !.opinion = o]
<1>1. ProcessTyped(s)
  BY OpeningTyped
<1>2. s.opinion = o /\ s.pc = proc[p].pc /\ s.ready = proc[p].ready /\ s.todo = proc[p].todo
  BY DEF Typed, ProcessTyped
<1>3. Becomes(p, s)
  OBVIOUS
<1> HIDE DEF s
<1>4. proc'[p] = s /\ \A q \in Process \ {p} : proc'[q] = proc[q]
  BY ONLY Typed, form' = form, <1>1, <1>3, Updates
<1>5. \A q \in Process :
           /\ OpinionIsSound(proc'[q].opinion)
           /\ proc'[q].ready \/ proc'[q].pc \notin {"down", "analyse"} => Unexamined' = {}
           /\ proc'[q].pc = "analyse" => Unexamined' \subseteq proc'[q].todo
  <2> SUFFICES ASSUME NEW q \in Process
               PROVE  /\ OpinionIsSound(proc'[q].opinion)
                      /\ proc'[q].ready \/ proc'[q].pc \notin {"down", "analyse"} => Unexamined' = {}
                      /\ proc'[q].pc = "analyse" => Unexamined' \subseteq proc'[q].todo
    OBVIOUS
  <2>1. OpinionIsSound(proc[q].opinion) /\ ExaminedBy(proc[q])
    BY DEF Floors
  <2>2. CASE q = p
    BY <1>2, <1>4, <2>1, <2>2 DEF ExaminedBy
  <2>3. CASE q # p
    BY <1>4, <2>1, <2>3 DEF ExaminedBy
  <2> QED
    BY <2>2, <2>3
<1> QED
  BY ONLY form' = form, <1>5, FloorsKept,
     \A v \in Unit : analysis'[v] # None => AboveRules(v, analysis'[v]),
     \A v \in Unit : code'[v].decision # None => AboveRules(v, code'[v].decision.facts)

\* The model's answer is about the row there is, and folded in it stays above.
LEMMA OpinionFloors ==
  ASSUME Typed, Floors, NEW p \in Process,
         \/ \E u \in Unit, value \in Range(Behaviors) : TakeOpinion(p, u, value)
         \/ FoldOpinion(p)
  PROVE  Floors'
<1>1. ASSUME NEW u \in Unit, NEW value \in Range(Behaviors), TakeOpinion(p, u, value) PROVE Floors'
  <2>1. UNCHANGED <<form, analysis>> /\ analysis[u] # None
        /\ Becomes(p, [proc[p] EXCEPT !.opinion = [unit |-> u, row |-> analysis[u], value |-> value]])
    BY <1>1 DEF TakeOpinion
  <2>2. code' = [code EXCEPT ![u] = [proposals |-> code[u].proposals + 1, decision |-> code[u].decision]]
    BY <1>1, TakeOpinionTyped
  <2>3. \A v \in Unit : code'[v].decision = code[v].decision
    BY <2>2 DEF Typed
  <2>4. RulesAreTheFloor
    BY DEF Floors
  <2>5. /\ \A v \in Unit : analysis'[v] # None => AboveRules(v, analysis'[v])
        /\ \A v \in Unit : code'[v].decision # None => AboveRules(v, code'[v].decision.facts)
        /\ Unexamined' \subseteq Unexamined
    BY <2>1, <2>3, <2>4, SameForm DEF RulesAreTheFloor, Unexamined
  <2>6. analysis[u] \in AnalysisRow /\ AboveRules(u, analysis[u]) /\ value \in Values
    BY <2>1, <2>4, Ranks DEF RulesAreTheFloor, Typed
  <2>7. OpinionIsSound([unit |-> u, row |-> analysis[u], value |-> value])
    BY <2>6 DEF OpinionIsSound
  <2> QED
    BY ONLY Typed, Floors, <2>1, <2>5, <2>7, ServingFloors
<1>2. ASSUME FoldOpinion(p) PROVE Floors'
  <2>1. UNCHANGED <<form, code>> /\ Becomes(p, [proc[p] EXCEPT !.opinion = None])
    BY <1>2 DEF FoldOpinion
  <2>2. \/ analysis' = analysis
        \/ \E u \in Unit, r \in AnalysisRow : analysis' = [analysis EXCEPT ![u] = r] /\ AboveRules(u, r)
    BY ONLY Typed, Floors, <1>2, FoldsAbove
  <2>3. OpinionIsSound(None)
    BY DEF OpinionIsSound
  <2>4. /\ \A v \in Unit : analysis'[v] # None => AboveRules(v, analysis'[v])
        /\ \A v \in Unit : code'[v].decision # None => AboveRules(v, code'[v].decision.facts)
        /\ Unexamined' \subseteq Unexamined
    BY ONLY Typed, Floors, <2>1, <2>2, RowsFloors
  <2> QED
    BY ONLY Typed, Floors, <2>1, <2>3, <2>4, ServingFloors
<1> QED
  BY <1>1, <1>2

\* Reviewers decide against the rows there are.
LEMMA ReviewFloors ==
  ASSUME Typed, Floors, UNCHANGED <<form, analysis, proc>>,
         \/ code' = code
         \/ \E p \in Process, u \in Unit : \E state, text : Decide(p, u, state, text)
  PROVE  Floors'
<1>1. RulesAreTheFloor
  BY DEF Floors
<1>2. \A v \in Unit : code'[v].decision # None => AboveRules(v, code'[v].decision.facts)
  <2>1. CASE code' = code
    BY <1>1, <2>1 DEF RulesAreTheFloor
  <2>2. ASSUME NEW p \in Process, NEW u \in Unit, NEW state, NEW text, Decide(p, u, state, text)
        PROVE  \A v \in Unit : code'[v].decision # None => AboveRules(v, code'[v].decision.facts)
    <3>1. code' = [code EXCEPT ![u] = [proposals |-> code[u].proposals, decision |-> Decision(u, state, text)]]
      BY <2>2, DecideTyped
    <3>2. proc[p].ready
      BY <2>2 DEF Decide
    <3>3. Unexamined = {}
      BY <3>2 DEF Floors, ExaminedBy
    <3>4. analysis[u] # None
      BY <3>3 DEF Unexamined
    <3>4a. Decision(u, state, text).facts = analysis[u]
      BY DEF Decision
    <3>5. PICK d : d = Decision(u, state, text) /\ d.facts = analysis[u]
      BY <3>4a
    <3>6. AboveRules(u, d.facts)
      BY <1>1, <3>4, <3>5 DEF RulesAreTheFloor
    <3>7. code'[u].decision = d /\ \A v \in Unit \ {u} : code'[v] = code[v]
      BY <3>1, <3>5 DEF Typed
    <3> SUFFICES ASSUME NEW v \in Unit, code'[v].decision # None PROVE AboveRules(v, code'[v].decision.facts)
      OBVIOUS
    <3>8. CASE v = u
      BY <3>6, <3>7, <3>8
    <3>9. CASE v # u
      BY <1>1, <3>7, <3>9 DEF RulesAreTheFloor
    <3> QED
      BY <3>8, <3>9
  <2> QED
    BY <2>1, <2>2
<1>3. \A v \in Unit : analysis'[v] # None => AboveRules(v, analysis'[v])
  BY <1>1 DEF RulesAreTheFloor
<1>4. Unexamined' = Unexamined
  BY SameForm DEF Unexamined
<1>5. \A q \in Process :
           /\ OpinionIsSound(proc'[q].opinion)
           /\ proc'[q].ready \/ proc'[q].pc \notin {"down", "analyse"} => Unexamined' = {}
           /\ proc'[q].pc = "analyse" => Unexamined' \subseteq proc'[q].todo
  BY <1>4 DEF Floors, ExaminedBy
<1> QED
  BY ONLY UNCHANGED <<form, analysis, proc>>, <1>2, <1>3, <1>5, FloorsKept

\* Reviewers change the state or the run of a case.
LEMMA CaseChanges ==
  ASSUME Typed, NEW p \in Process, NEW u \in Unit, NEW id \in DOMAIN cases[u],
         \/ \E state \in {"pending", "accepted"} : DecideTestCase(p, u, id, state)
         \/ RecordTestRun(p, u, id)
  PROVE  \E row \in Case : ChangeCase(p, u, id, row)
<1>1. cases[u][id] \in Case
  BY DEF Typed
<1> DEFINE decided(state) == [cases[u][id] EXCEPT !.state = state]
           recorded == [cases[u][id] EXCEPT !.run = "pass"]
<1>2. \A state \in {"pending", "accepted"} : decided(state) \in Case
  BY <1>1 DEF Case
<1>3. recorded \in Case
  BY <1>1 DEF Case
<1>4. \/ \E state \in {"pending", "accepted"} : ChangeCase(p, u, id, decided(state))
      \/ ChangeCase(p, u, id, recorded)
  BY DEF DecideTestCase, RecordTestRun
<1> HIDE DEF decided, recorded
<1> QED
  BY <1>2, <1>3, <1>4

FloorInv == Typed /\ Floors

LEMMA FloorInitially == ASSUME Init PROVE FloorInv
<1>1. Typed
  BY TypedInitially
<1>2. RulesAreTheFloor
  BY DEF Init, RulesAreTheFloor
<1>3. \A p \in Process : proc[p] = Down
  BY DEF Init
<1>4. \A p \in Process : OpinionIsSound(proc[p].opinion) /\ ExaminedBy(proc[p])
  BY <1>3, DownFloors
<1> QED
  BY <1>1, <1>2, <1>4 DEF FloorInv, Floors

LEMMA FloorPreserved == ASSUME FloorInv, [Next]_vars PROVE FloorInv'
<1> USE DEF FloorInv
<1>1. CASE UNCHANGED vars
  <2>1. UNCHANGED <<form, analysis, cases, code, proc>>
    BY <1>1 DEF vars
  <2>2. analysis' \in [Unit -> AnalysisRow \cup {None}] /\ proc' = [q \in Process |-> proc'[q]]
        /\ \A q \in Process : ProcessTyped(proc'[q])
    BY <2>1 DEF Typed
  <2>3. Typed'
    BY <2>1, <2>2, TypedFrame
  <2> QED
    BY <2>1, <2>3, ReviewFloors
<1> SUFFICES ASSUME NEW p \in Process, Opening(p) \/ Serving(p) \/ FoldOpinion(p) PROVE FloorInv'
  BY <1>1 DEF Next
<1>2. ASSUME NEW e \in Engine, NEW sheet \in BOOLEAN, Open(p, e, sheet) PROVE FloorInv'
  BY <1>2, OpenTyped, OpenFloors
<1>3. ASSUME Examine(p) PROVE FloorInv'
  BY <1>3, ExamineTyped, ExamineFloors
<1>4. ASSUME \/ \E sheet \in BOOLEAN : Reopen(p, sheet)
             \/ LoadGraph(p) \/ BuildGraph(p) \/ SaveGraph(p) \/ Specify(p) \/ Compare(p) \/ Serve(p)
      PROVE  FloorInv'
  BY <1>4, OpeningFloors
<1>5. ASSUME Write(p) PROVE FloorInv'
  BY <1>5, WriteTyped, WriteFloors
<1>6. ASSUME Stop(p) PROVE FloorInv'
  <2>1. UNCHANGED <<form, analysis, code, cases>> /\ Becomes(p, Down)
    BY <1>6 DEF Stop
  <2> QED
    BY <2>1, DownStep
<1>7. ASSUME NEW u \in Unit, NEW id \in DOMAIN cases[u],
             \/ \E state \in {"pending", "accepted"} : DecideTestCase(p, u, id, state)
             \/ RecordTestRun(p, u, id)
      PROVE  FloorInv'
  <2>1. PICK row \in Case : ChangeCase(p, u, id, row)
    BY <1>7, CaseChanges
  <2>2. Typed'
    BY <2>1, ChangeCaseTyped
  <2>3. UNCHANGED <<form, analysis, proc, code>>
    BY <2>1 DEF ChangeCase
  <2> QED
    BY <2>2, <2>3, ReviewFloors
<1>8. ASSUME NEW u \in Unit, NEW state, NEW text, Decide(p, u, state, text) PROVE FloorInv'
  <2>1. UNCHANGED <<form, analysis, proc>>
    BY <1>8 DEF Decide
  <2>2. Typed'
    BY <1>8, DecideTyped
  <2> QED
    BY <1>8, <2>1, <2>2, ReviewFloors
<1>9. ASSUME NEW u \in Unit, NEW value \in Range(Behaviors), TakeOpinion(p, u, value) PROVE FloorInv'
  BY <1>9, TakeOpinionTyped, OpinionFloors
<1>10. ASSUME FoldOpinion(p) PROVE FloorInv'
  BY <1>10, FoldsAbove, OpinionFloors
<1>11. ASSUME Opening(p) PROVE FloorInv'
  BY <1>2, <1>3, <1>4, <1>5, <1>6, <1>11 DEF Opening
<1>12. ASSUME Serving(p) PROVE FloorInv'
  BY <1>7, <1>8, <1>9, <1>12 DEF Serving
<1> QED
  BY <1>10, <1>11, <1>12

\* At every moment, whatever processes of several releases, reviewers and the
\* model interleave, the analysis of a unit - and the analysis a decision was
\* taken against - is one release's rules or more cautious than they are.
THEOREM AnalysesNeverSoften == Spec => []RulesAreTheFloor
<1>1. Init => FloorInv
  BY FloorInitially
<1>2. FloorInv /\ [Next]_vars => FloorInv'
  BY FloorPreserved
<1>3. FloorInv => RulesAreTheFloor
  BY DEF FloorInv, Floors
<1> QED
  BY <1>1, <1>2, <1>3, PTL DEF Spec

-----------------------------------------------------------------------------
(* Regeneration *)

\* What of a step of p the regenerations depend on.
LEMMA RegenerationKept ==
  ASSUME Typed, Regeneration, form' = form, NEW p \in Process, NEW s, ProcessTyped(s), Becomes(p, s),
         s.alone => proc[p].alone,
         IF proc[p].pc = "down" THEN s.pc = "down" /\ cases' = cases ELSE TRUE,
         s.pc \in Unserved => ~s.ready,
         s.pc = "down" => ~s.alone,
         s.alone /\ s.pc = "write" =>
           \A u \in Unit : Foremost(u, s.todo) => s.read.existing = StatesOf(cases'[u])
  PROVE  Regeneration'
<1>1. proc'[p] = s /\ \A q \in Process \ {p} : proc'[q] = proc[q]
  BY ONLY Typed, form' = form, ProcessTyped(s), Becomes(p, s), Updates
<1>2. \A q \in Process : Regenerates(q)
  BY DEF Regeneration
<1>3. Unit' = Unit
  BY SameForm
<1>4. ASSUME NEW q \in Process PROVE Regenerates(q)'
  <2>1. proc'[q].alone => \A r \in Process \ {q} : proc'[r].pc = "down"
    <3>1. CASE q = p
      BY <1>1, <1>2, <3>1 DEF Regenerates
    <3>2. CASE q # p
      BY <1>1, <1>2, <3>2 DEF Regenerates
    <3> QED
      BY <3>1, <3>2
  <2>2. proc'[q].pc \in Unserved => ~proc'[q].ready
    <3>1. proc[q].pc \in Unserved => ~proc[q].ready
      BY <1>2 DEF Regenerates, Unserved
    <3> QED
      BY <1>1, <3>1
  <2>3. proc'[q].pc = "down" => ~proc'[q].alone
    BY <1>1, <1>2 DEF Regenerates
  <2>4. proc'[q].alone /\ proc'[q].pc = "write" =>
          \A u \in Unit : Foremost(u, proc'[q].todo) => proc'[q].read.existing = StatesOf(cases'[u])
    <3>1. CASE q = p
      BY <1>1, <3>1
    <3>2. CASE q # p
      <4> SUFFICES ASSUME proc[q].alone
                   PROVE  proc'[q].alone /\ proc'[q].pc = "write" =>
                            \A u \in Unit : Foremost(u, proc'[q].todo) => proc'[q].read.existing = StatesOf(cases'[u])
        BY <1>1, <3>2
      <4>1. proc[p].pc = "down" /\ cases' = cases
        BY <1>2, <3>2 DEF Regenerates
      <4> QED
        BY <1>1, <1>2, <3>2, <4>1 DEF Regenerates
    <3> QED
      BY <3>1, <3>2
  <2>5. \A u \in Unit : StatesOf(cases[u])' = StatesOf(cases'[u])
    BY DEF StatesOf
  <2> QED
    BY <1>3, <2>1, <2>2, <2>3, <2>4, <2>5 DEF Regenerates, Unserved
<1> QED
  BY <1>3, <1>4 DEF Regeneration

\* The steps of an opening take it on; they write no case but in Write.
LEMMA OpeningRegenerates ==
  ASSUME Typed, Regeneration, NEW p \in Process,
         \/ \E sheet \in BOOLEAN : Reopen(p, sheet)
         \/ LoadGraph(p) \/ BuildGraph(p) \/ SaveGraph(p) \/ Specify(p) \/ Compare(p) \/ Serve(p)
  PROVE  Regeneration'
<1>1. /\ UNCHANGED <<form, analysis, code, cases>>
      /\ proc[p].pc \notin {"down", "analyse"} \/ (proc[p].pc = "analyse" /\ proc[p].todo = {})
  BY OpeningBecomes
<1>2. PICK s : ProcessTyped(s) /\ Becomes(p, s) /\ Advances(proc[p], s)
  BY OpeningBecomes
<1>3. proc[p].pc \in Unserved => ~proc[p].ready
  BY DEF Regeneration, Regenerates, Unserved
<1>4. /\ s.alone = proc[p].alone /\ s.pc # "down" /\ proc[p].pc # "down"
      /\ s.pc \in Unserved => ~s.ready
      /\ s.pc = "write" => \A u \in Unit : Foremost(u, s.todo) => s.read.existing = StatesOf(cases[u])
  BY <1>1, <1>2, <1>3 DEF Advances
<1>5. s.alone /\ s.pc = "write" =>
        \A u \in Unit : Foremost(u, s.todo) => s.read.existing = StatesOf(cases'[u])
  BY <1>1, <1>4
<1> QED
  BY ONLY Typed, Regeneration, <1>1, <1>2, <1>4, <1>5, RegenerationKept

\* So do the analysis of a unit, an opinion and an answer: they move no process.
LEMMA StayingRegenerates ==
  ASSUME Typed, Regeneration, form' = form, NEW p \in Process, NEW s, ProcessTyped(s), Becomes(p, s),
         s.alone = proc[p].alone, s.pc = proc[p].pc, s.ready = proc[p].ready,
         s.read = proc[p].read,
         \/ s.pc \notin {"down", "write"}
         \/ s.todo = proc[p].todo /\ (cases' = cases \/ proc[p].ready)
  PROVE  Regeneration'
<1>1. Regenerates(p)
  BY DEF Regeneration
<1>2. s.pc \in Unserved => ~s.ready
  BY <1>1 DEF Regenerates, Unserved
<1>3. s.pc = "down" => ~s.alone /\ cases' = cases
  BY <1>1 DEF Regenerates
<1>4. s.alone /\ s.pc = "write" =>
        \A u \in Unit : Foremost(u, s.todo) => s.read.existing = StatesOf(cases'[u])
  BY <1>1 DEF Regenerates
<1> QED
  BY <1>2, <1>3, <1>4, RegenerationKept

LEMMA DownRegenerates ==
  ASSUME Typed, Regeneration, NEW p \in Process, form' = form, cases' = cases, Becomes(p, Down)
  PROVE  Regeneration'
<1>1. ~Down.alone /\ ~Down.ready /\ Down.pc = "down"
  BY DEF Down
<1> QED
  BY ONLY Typed, Regeneration, form' = form, cases' = cases, Becomes(p, Down), <1>1, DownTyped, RegenerationKept

LEMMA WriteRegenerates ==
  ASSUME Typed, Regeneration, NEW p \in Process, Write(p)
  PROVE  Regeneration'
<1>1. form' = form /\ proc[p].pc = "write"
  BY DEF Write
<1>2. PICK u \in Unit :
        \/ Becomes(p, Down) /\ UNCHANGED cases
        \/ Becomes(p, [proc[p] EXCEPT !.pc = "specify", !.todo = @ \ {u}, !.read = Reading])
  BY DEF Write
<1>3. CASE Becomes(p, Down) /\ UNCHANGED cases
  BY <1>1, <1>3, DownRegenerates
<1>4. CASE Becomes(p, [proc[p] EXCEPT !.pc = "specify", !.todo = @ \ {u}, !.read = Reading])
  <2> DEFINE s == [proc[p] EXCEPT !.pc = "specify", !.todo = @ \ {u}, !.read = Reading]
  <2>1. ProcessTyped(s)
    BY <1>1, OpeningTyped
  <2>2. s.alone = proc[p].alone /\ s.pc = "specify" /\ s.ready = proc[p].ready
    BY DEF Typed, ProcessTyped
  <2>3. ~proc[p].ready
    BY <1>1 DEF Regeneration, Regenerates
  <2>4. Becomes(p, s)
    BY <1>4
  <2> HIDE DEF s
  <2> QED
    BY <1>1, <2>1, <2>2, <2>3, <2>4, RegenerationKept
<1> QED
  BY <1>2, <1>3, <1>4

\* A process that comes up is alone only if nobody else is up, and then nobody
\* else stays alone.
LEMMA OpenRegenerates ==
  ASSUME Typed, Regeneration, NEW p \in Process, NEW e \in Engine, NEW sheet \in BOOLEAN, Open(p, e, sheet)
  PROVE  Regeneration'
<1> DEFINE opened == [Down EXCEPT !.pc = "analyse", !.alone = Up = {}, !.engine = e, !.sheet = sheet,
                                  !.todo = StaleUnits(e)]
           Others(s) == [s EXCEPT !.alone = FALSE]
<1>1. proc'[p] = opened /\ \A q \in Process \ {p} : proc'[q] = Others(proc[q])
  BY DEF Open
<1>2. opened.pc = "analyse" /\ opened.ready = FALSE /\ opened.alone = (Up = {})
  BY DEF Down
<1>3. \A s : ProcessTyped(s) => Others(s).pc = s.pc /\ Others(s).ready = s.ready /\ Others(s).alone = FALSE
  BY DEF ProcessTyped
<1> HIDE DEF opened, Others
<1>4. \A q \in Process : Regenerates(q) /\ ProcessTyped(proc[q])
  BY DEF Regeneration, Typed
<1>5. \A q \in Process \ {p} : proc'[q].pc = proc[q].pc /\ proc'[q].ready = proc[q].ready /\ proc'[q].alone = FALSE
  BY <1>1, <1>3, <1>4
<1>6. proc'[p].alone => \A q \in Process \ {p} : proc[q].pc = "down"
  BY <1>1, <1>2 DEF Up
<1>7. ASSUME NEW q \in Process PROVE Regenerates(q)'
  <2>1. CASE q = p
    BY <1>1, <1>2, <1>5, <1>6, <2>1 DEF Regenerates
  <2>2. CASE q # p
    BY <1>4, <1>5, <2>2 DEF Regenerates
  <2> QED
    BY <2>1, <2>2
<1> QED
  BY <1>7 DEF Regeneration

\* Every step keeps the regenerations.
LEMMA RegenerationPreserved == ASSUME FloorInv, Regeneration, [Next]_vars PROVE Regeneration'
<1>1. CASE UNCHANGED vars
  <2>1. Unit' = Unit
    BY <1>1, SameForm DEF vars
  <2> QED
    BY <1>1, <2>1 DEF vars, Regeneration, Regenerates, StatesOf
<1>2. Typed /\ form \in DOMAIN Forms
  BY DEF FloorInv, Typed
<1> SUFFICES ASSUME NEW p \in Process, Opening(p) \/ Serving(p) \/ FoldOpinion(p) PROVE Regeneration'
  BY <1>1 DEF Next
<1>3. ProcessTyped(proc[p])
  BY <1>2 DEF Typed
<1>4. ASSUME form' = form, NEW o, Becomes(p, [proc[p] EXCEPT !.opinion = o]), cases' = cases PROVE Regeneration'
  <2> DEFINE s == [proc[p] EXCEPT !.opinion = o]
  <2>1. s.alone = proc[p].alone /\ s.pc = proc[p].pc /\ s.ready = proc[p].ready /\ s.todo = proc[p].todo
        /\ s.read = proc[p].read
    BY <1>3 DEF ProcessTyped
  <2>2. ProcessTyped(s) /\ Becomes(p, s)
    BY <1>2, <1>4, OpeningTyped
  <2> HIDE DEF s
  <2> QED
    BY <1>2, <1>4, <2>1, <2>2, StayingRegenerates
<1>5. ASSUME form' = form, proc' = proc, cases' = cases \/ proc[p].ready PROVE Regeneration'
  <2>1. Becomes(p, proc[p])
    BY <1>2, <1>5 DEF Becomes, Typed
  <2> QED
    BY <1>2, <1>3, <1>5, <2>1, StayingRegenerates
<1>6. ASSUME Examine(p) PROVE Regeneration'
  <2>1. PICK u \in Unit : Becomes(p, [proc[p] EXCEPT !.todo = @ \ {u}])
    BY <1>6 DEF Examine
  <2> DEFINE s == [proc[p] EXCEPT !.todo = @ \ {u}]
  <2>2. form' = form /\ proc[p].pc = "analyse"
    BY <1>6 DEF Examine
  <2>3. s.alone = proc[p].alone /\ s.pc = proc[p].pc /\ s.ready = proc[p].ready /\ s.read = proc[p].read
    BY <1>3 DEF ProcessTyped
  <2>4. ProcessTyped(s) /\ Becomes(p, s)
    BY <1>2, <2>1, <2>2, OpeningTyped
  <2> HIDE DEF s
  <2> QED
    BY <1>2, <2>2, <2>3, <2>4, StayingRegenerates
<1>7. ASSUME Stop(p) PROVE Regeneration'
  BY <1>2, <1>7, DownRegenerates DEF Stop
<1>8. ASSUME Opening(p) PROVE Regeneration'
  BY <1>2, <1>6, <1>7, <1>8, OpeningRegenerates, OpenRegenerates, WriteRegenerates DEF Opening
<1>9. ASSUME NEW u \in Unit, NEW id \in DOMAIN cases[u],
             \/ \E state \in {"pending", "accepted"} : DecideTestCase(p, u, id, state)
             \/ RecordTestRun(p, u, id)
      PROVE  Regeneration'
  BY <1>5, <1>9 DEF DecideTestCase, RecordTestRun, ChangeCase
<1>10. ASSUME NEW u \in Unit, NEW state, NEW text, Decide(p, u, state, text) PROVE Regeneration'
  BY <1>5, <1>10 DEF Decide
<1>11. ASSUME NEW u \in Unit, NEW value \in Range(Behaviors), TakeOpinion(p, u, value) PROVE Regeneration'
  BY <1>4, <1>11 DEF TakeOpinion
<1>12. ASSUME FoldOpinion(p) PROVE Regeneration'
  BY <1>4, <1>12 DEF FoldOpinion
<1>13. ASSUME Serving(p) PROVE Regeneration'
  BY <1>9, <1>10, <1>11, <1>13 DEF Serving
<1> QED
  BY <1>8, <1>12, <1>13

\* What a step may do to the cases: a process that serves changes one of them,
\* and one that is opening specifies a unit again, with what it read.
LEMMA CasesChangeBy ==
  ASSUME Typed, [Next]_vars
  PROVE  \/ cases' = cases
         \/ \E p \in Process : \E u \in Unit : \E id \in DOMAIN cases[u] : \E row :
              proc[p].ready /\ cases' = [cases EXCEPT ![u][id] = row]
         \/ \E p \in Process : \E u \in Unit :
              /\ proc[p].pc = "write" /\ Foremost(u, proc[p].todo)
              /\ (proc[p].read.fresh \ DOMAIN proc[p].read.existing) \cap DOMAIN cases[u] = {}
              /\ cases' = [cases EXCEPT ![u] = Respecify(@, proc[p].read, proc[p].engine)]
<1>1. CASE UNCHANGED vars
  BY <1>1 DEF vars
<1> SUFFICES ASSUME NEW p \in Process, Opening(p) \/ Serving(p) \/ FoldOpinion(p)
             PROVE  \/ cases' = cases
                    \/ \E u \in Unit : \E id \in DOMAIN cases[u] : \E row :
                         proc[p].ready /\ cases' = [cases EXCEPT ![u][id] = row]
                    \/ \E u \in Unit :
                         /\ proc[p].pc = "write" /\ Foremost(u, proc[p].todo)
                         /\ (proc[p].read.fresh \ DOMAIN proc[p].read.existing) \cap DOMAIN cases[u] = {}
                         /\ cases' = [cases EXCEPT ![u] = Respecify(@, proc[p].read, proc[p].engine)]
  BY <1>1 DEF Next
<1>2. ASSUME Write(p)
      PROVE  \/ cases' = cases
             \/ \E u \in Unit :
                  /\ proc[p].pc = "write" /\ Foremost(u, proc[p].todo)
                  /\ (proc[p].read.fresh \ DOMAIN proc[p].read.existing) \cap DOMAIN cases[u] = {}
                  /\ cases' = [cases EXCEPT ![u] = Respecify(@, proc[p].read, proc[p].engine)]
  BY <1>2 DEF Write
<1>3. CASE Opening(p)
  BY <1>2, <1>3 DEF Opening, Open, Reopen, Examine, LoadGraph, BuildGraph, SaveGraph, Specify, Compare, Serve, Stop
<1>4. CASE FoldOpinion(p)
  BY <1>4 DEF FoldOpinion
<1>5. ASSUME NEW u \in Unit, NEW id \in DOMAIN cases[u], NEW row, ChangeCase(p, u, id, row)
      PROVE  \E v \in Unit : \E i \in DOMAIN cases[v] : \E r :
               proc[p].ready /\ cases' = [cases EXCEPT ![v][i] = r]
  BY <1>5 DEF ChangeCase
<1>6. CASE Serving(p)
  BY <1>5, <1>6 DEF Serving, DecideTestCase, RecordTestRun, Decide, TakeOpinion
<1> QED
  BY <1>3, <1>4, <1>6

\* Specifying a unit again with what there is read: answered cases stay, and
\* what stays keeps its answer and its run.
LEMMA RespecifyKeeps ==
  ASSUME NEW now, now \in [DOMAIN now -> Case], NEW read, NEW e, NEW id \in DOMAIN now,
         (read.fresh \ DOMAIN read.existing) \cap DOMAIN now = {}
  PROVE  LET r == Respecify(now, read, e) IN
         /\ now[id].state # "pending" /\ read.existing = StatesOf(now) => id \in DOMAIN r
         /\ id \in DOMAIN r => r[id].state = now[id].state /\ r[id].run = now[id].run
<1> DEFINE added == read.fresh \ DOMAIN read.existing
           domain == (DOMAIN now \cup added) \ Vanished(read)
           Cell(i) == IF i \in added THEN NewCase(e)
                      ELSE IF i \in read.fresh THEN [now[i] EXCEPT !.engine = e] ELSE now[i]
           r == Respecify(now, read, e)
<1>1. r = [i \in domain |-> Cell(i)]
  BY DEF Respecify
<1>2. id \notin added
  OBVIOUS
<1>3. now[id] \in Case
  OBVIOUS
<1>4. Cell(id).state = now[id].state /\ Cell(id).run = now[id].run
  <2>1. [now[id] EXCEPT !.engine = e].state = now[id].state /\ [now[id] EXCEPT !.engine = e].run = now[id].run
    BY <1>3 DEF Case
  <2> QED
    BY <1>2, <2>1
<1>5. ASSUME now[id].state # "pending", read.existing = StatesOf(now) PROVE id \in domain
  <2>1. id \in DOMAIN read.existing /\ read.existing[id] = now[id].state
    BY <1>5 DEF StatesOf
  <2> QED
    BY <1>5, <2>1 DEF Vanished
<1> HIDE DEF domain, Cell, r
<1>6. DOMAIN r = domain /\ (id \in domain => r[id] = Cell(id))
  BY <1>1
<1> QED
  BY <1>4, <1>5, <1>6 DEF r

\* A unit that is specified again loses no answer: with nobody serving no case
\* changes its state or its run, and a process that has the session for itself
\* removes no answered case.
THEOREM RegenerationKeepsAnswers == Spec => AnswersOutliveRegeneration
<1>1. Init => FloorInv /\ Regeneration
  <2> SUFFICES ASSUME Init PROVE FloorInv /\ Regeneration
    OBVIOUS
  <2>1. \A p \in Process : proc[p] = Down
    BY DEF Init
  <2>2. Down.pc = "down" /\ Down.alone = FALSE /\ Down.ready = FALSE
    BY DEF Down
  <2> QED
    BY <2>1, <2>2, FloorInitially DEF Regeneration, Regenerates
<1>2. FloorInv /\ Regeneration /\ [Next]_vars => FloorInv' /\ Regeneration'
  BY FloorPreserved, RegenerationPreserved
<1>3. FloorInv /\ Regeneration /\ [Next]_vars =>
        [\A u \in Unit : \A id \in DOMAIN cases[u] :
           /\ cases[u][id].state # "pending" /\ (\A p \in Up : proc[p].alone) => id \in DOMAIN cases'[u]
           /\ (\A p \in Process : ~proc[p].ready) /\ id \in DOMAIN cases'[u] =>
                cases'[u][id].state = cases[u][id].state /\ cases'[u][id].run = cases[u][id].run]_vars
  <2> SUFFICES ASSUME FloorInv, Regeneration, [Next]_vars, NEW u \in Unit, NEW id \in DOMAIN cases[u]
               PROVE  /\ cases[u][id].state # "pending" /\ (\A p \in Up : proc[p].alone) => id \in DOMAIN cases'[u]
                      /\ (\A p \in Process : ~proc[p].ready) /\ id \in DOMAIN cases'[u] =>
                           cases'[u][id].state = cases[u][id].state /\ cases'[u][id].run = cases[u][id].run
    OBVIOUS
  <2>1. Typed /\ cases = [v \in Unit |-> cases[v]] /\ cases[u] \in [DOMAIN cases[u] -> Case]
    BY DEF FloorInv, Typed
  <2>2. CASE cases' = cases
    BY <2>2
  <2>3. ASSUME NEW p \in Process, NEW v \in Unit, NEW i \in DOMAIN cases[v], NEW row,
               proc[p].ready, cases' = [cases EXCEPT ![v][i] = row]
        PROVE  id \in DOMAIN cases'[u] /\ ~(\A q \in Process : ~proc[q].ready)
    BY <2>1, <2>3
  <2>4. ASSUME NEW p \in Process, NEW v \in Unit, proc[p].pc = "write", Foremost(v, proc[p].todo),
               (proc[p].read.fresh \ DOMAIN proc[p].read.existing) \cap DOMAIN cases[v] = {},
               cases' = [cases EXCEPT ![v] = Respecify(@, proc[p].read, proc[p].engine)]
        PROVE  /\ cases[u][id].state # "pending" /\ (\A q \in Up : proc[q].alone) => id \in DOMAIN cases'[u]
               /\ id \in DOMAIN cases'[u] =>
                    cases'[u][id].state = cases[u][id].state /\ cases'[u][id].run = cases[u][id].run
    <3>1. PICK r : r = Respecify(cases[v], proc[p].read, proc[p].engine)
      OBVIOUS
    <3>2. cases' = [cases EXCEPT ![v] = r]
      BY <2>4, <3>1
    <3>3. CASE u # v
      BY <2>1, <3>2, <3>3
    <3>4. CASE u = v
      <4>1. cases'[u] = r
        BY <2>1, <3>2, <3>4
      <4>2. /\ cases[u][id].state # "pending" /\ proc[p].read.existing = StatesOf(cases[u]) => id \in DOMAIN r
            /\ id \in DOMAIN r => r[id].state = cases[u][id].state /\ r[id].run = cases[u][id].run
        BY <2>1, <2>4, <3>1, <3>4, RespecifyKeeps
      <4>3. (\A q \in Up : proc[q].alone) => proc[p].alone
        BY <2>4 DEF Up
      <4>4. proc[p].alone => proc[p].read.existing = StatesOf(cases[u])
        BY <2>4, <3>4 DEF Regeneration, Regenerates
      <4> QED
        BY <4>1, <4>2, <4>3, <4>4
    <3> QED
      BY <3>3, <3>4
  <2> QED
    BY <2>1, <2>2, <2>3, <2>4, CasesChangeBy
<1> QED
  BY <1>1, <1>2, <1>3, PTL DEF Spec, AnswersOutliveRegeneration

-----------------------------------------------------------------------------
(* Folds, value by value *)

LEMMA LeastNumber ==
  ASSUME NEW T, T \subseteq Nat, T # {}
  PROVE  \E x \in T : \A y \in T : x <= y
<1> DEFINE R == OpToRel(<, Nat)
<1>1. IsWellFoundedOn(R, Nat)
  BY NatLessThanWellFounded
<1>2. \A x, y \in Nat : y < x => <<y, x>> \in R
  BY DEF OpToRel
<1> HIDE DEF R
<1>3. PICK x \in T : \A y \in T : ~(<<y, x>> \in R)
  BY <1>1, WFMin
<1>4. \A y \in T : ~(y < x)
  BY <1>2, <1>3
<1>5. \A y \in T : x <= y
  BY <1>4
<1> QED
  BY <1>5

\* FoldLeft takes the greatest index off its set of indices again and again.
LEMMA Greatest ==
  ASSUME NEW n \in Nat, NEW T \in SUBSET (1..n), T # {}
  PROVE  /\ Max(T) \in T
         /\ \A y \in T : Max(T) >= y
         /\ T \ {Max(T)} \subseteq 1..(n - 1)
<1> DEFINE U == {n - y : y \in T}
<1>1. U \subseteq Nat /\ U # {}
  OBVIOUS
<1>2. PICK u \in U : \A v \in U : u <= v
  <2> HIDE DEF U
  <2> QED
    BY <1>1, LeastNumber
<1>3. PICK x \in T : \A y \in T : x >= y
  <2>1. PICK x \in T : u = n - x
    BY <1>2
  <2>2. ASSUME NEW y \in T PROVE x >= y
    <3>1. n - y \in U /\ x \in Int /\ y \in Int
      OBVIOUS
    <3>2. u <= n - y
      BY <1>2, <3>1
    <3> QED
      BY <2>1, <3>1, <3>2
  <2> QED
    BY <2>2
<1>4. Max(T) \in T /\ \A y \in T : Max(T) >= y
  BY <1>3 DEF Max
<1>5. T \ {Max(T)} \subseteq 1..(n - 1)
  <2> SUFFICES ASSUME NEW y \in T, y # Max(T) PROVE y \in 1..(n - 1)
    OBVIOUS
  <2>1. Max(T) >= y /\ Max(T) \in 1..n /\ y \in 1..n
    BY <1>4
  <2> QED
    BY <2>1
<1> QED
  BY <1>4, <1>5

LEMMA GreatestOfPrefix ==
  ASSUME NEW n \in Nat, NEW i \in 1..n
  PROVE  /\ 1..i \in SUBSET (1..n) /\ 1..i # {}
         /\ Max(1..i) = i
         /\ (1..i) \ {i} = 1..(i - 1)
<1>1. 1..i \in SUBSET (1..n) /\ 1..i # {}
  OBVIOUS
<1>2. PICK m : m = Max(1..i)
  OBVIOUS
<1>3. m \in 1..i /\ \A y \in 1..i : m >= y
  BY <1>1, <1>2, Greatest
<1>4. m = i
  BY <1>3
<1>5. (1..i) \ {i} = 1..(i - 1)
  OBVIOUS
<1>6. Max(1..i) = i
  BY ONLY <1>2, <1>4
<1> QED
  BY ONLY <1>1, <1>5, <1>6

\* What is folded, by a name: one lemma for the five of them.
Applied(op, w, m) ==
  CASE op.name = "see" -> See(w, m)
    [] op.name = "edge" -> AddEdge(w, m)
    [] op.name = "read" -> Read(op.form, op.task, op.risk, w, m)
    [] op.name = "follow" -> Follow(w, m, op.here, op.forward)
    [] op.name = "turn" -> Turn(op.g, w, op.forward, op.depth)

Folds(it, n, op, base, s) ==
  it = [t \in SUBSET (1..n) |->
          IF t = {} THEN base ELSE Applied(op, it[t \ {Max(t)}], s[Max(t)])]

LEMMA FoldsExist ==
  ASSUME NEW n \in Nat, NEW op, NEW base, NEW s
  PROVE  \E it : Folds(it, n, op, base, s)
<1> DEFINE bad == {k \in 0..n : ~\E it : Folds(it, k, op, base, s)}
<1> SUFFICES ASSUME bad # {} PROVE FALSE
  OBVIOUS
<1>1. PICK k \in bad : \A j \in bad : k <= j
  <2>1. bad \subseteq Nat
    OBVIOUS
  <2> HIDE DEF bad
  <2> QED
    BY <2>1, LeastNumber
<1>2. CASE k = 0
  <2> DEFINE it == [t \in SUBSET (1..0) |-> base]
  <2>1. \A t \in SUBSET (1..0) : t = {}
    OBVIOUS
  <2>2. Folds(it, 0, op, base, s)
    BY <2>1 DEF Folds
  <2> QED
    BY <1>1, <1>2, <2>2
<1>3. CASE k # 0
  <2>1. k - 1 \in 0..n /\ k - 1 \notin bad /\ k \in Nat
    BY <1>1, <1>3
  <2>2. PICK f : Folds(f, k - 1, op, base, s)
    BY <2>1
  <2> DEFINE it == [t \in SUBSET (1..k) |->
                      IF t = {} THEN base ELSE Applied(op, f[t \ {Max(t)}], s[Max(t)])]
  <2>3. ASSUME NEW t \in SUBSET (1..k), t # {} PROVE it[t \ {Max(t)}] = f[t \ {Max(t)}]
    <3> DEFINE r == t \ {Max(t)}
    <3>1. r \in SUBSET (1..(k - 1)) /\ r \in SUBSET (1..k)
      BY <2>1, <2>3, Greatest
    <3> HIDE DEF r
    <3>2. f[r] = IF r = {} THEN base ELSE Applied(op, f[r \ {Max(r)}], s[Max(r)])
      BY <2>2, <3>1 DEF Folds
    <3>3. it[r] = IF r = {} THEN base ELSE Applied(op, f[r \ {Max(r)}], s[Max(r)])
      BY <3>1
    <3> QED
      BY <3>2, <3>3 DEF r
  <2>4. Folds(it, k, op, base, s)
    <3>1. \A t \in SUBSET (1..k) :
            it[t] = IF t = {} THEN base ELSE Applied(op, it[t \ {Max(t)}], s[Max(t)])
      BY <2>3
    <3>2. it = [t \in SUBSET (1..k) |-> it[t]]
      OBVIOUS
    <3> HIDE DEF it
    <3> QED
      BY <3>1, <3>2 DEF Folds
  <2> QED
    BY <1>1, <2>4
<1> QED
  BY <1>2, <1>3

\* Step by step: the values a fold goes through.
Steps(r, op, base, s) ==
  /\ r[0] = base
  /\ \A i \in 1..Len(s) : r[i] = Applied(op, r[i - 1], s[i])

LEMMA FoldSteps ==
  ASSUME NEW op, NEW base, NEW s, Len(s) \in Nat, NEW it, Folds(it, Len(s), op, base, s)
  PROVE  \E r : Steps(r, op, base, s) /\ it[1..Len(s)] = r[Len(s)]
<1> DEFINE r == [i \in 0..Len(s) |-> it[1..i]]
<1>1. r[0] = base
  <2>1. 1..0 = {} /\ {} \in SUBSET (1..Len(s))
    OBVIOUS
  <2> QED
    BY <2>1 DEF Folds
<1>2. ASSUME NEW i \in 1..Len(s) PROVE r[i] = Applied(op, r[i - 1], s[i])
  <2>1. 1..i \in SUBSET (1..Len(s)) /\ 1..i # {} /\ Max(1..i) = i /\ (1..i) \ {i} = 1..(i - 1)
    <3>1. PICK n \in Nat : n = Len(s)
      OBVIOUS
    <3>2. i \in 1..n
      BY <3>1
    <3> HIDE DEF r
    <3> QED
      BY ONLY <3>1, <3>2, GreatestOfPrefix
  <2>2. it[1..i] = Applied(op, it[1..(i - 1)], s[i])
    BY <2>1 DEF Folds
  <2> QED
    BY <2>2
<1>3. r[Len(s)] = it[1..Len(s)]
  OBVIOUS
<1> HIDE DEF r
<1> QED
  BY <1>1, <1>2, <1>3 DEF Steps

SeeFolds(it, n, base, s) ==
  it = [t \in SUBSET (1..n) |-> IF t = {} THEN base ELSE See(it[t \ {Max(t)}], s[Max(t)])]

LEMMA SeeSteps ==
  ASSUME NEW base, NEW s, Len(s) \in Nat, DOMAIN s = 1..Len(s)
  PROVE  \E r : Steps(r, [name |-> "see"], base, s) /\ FoldLeft(See, base, s) = r[Len(s)]
<1> DEFINE op == [name |-> "see"]
           c == CHOOSE it : SeeFolds(it, Len(s), base, s)
<1>1. FoldLeft(See, base, s) = c[1..Len(s)]
  BY DEF FoldLeft, MapThenFoldSet, SeeFolds
<1>2. \A w, m : Applied(op, w, m) = See(w, m)
  BY DEF Applied
<1>3. \A it : Folds(it, Len(s), op, base, s) <=> SeeFolds(it, Len(s), base, s)
  BY <1>2, Zenon DEF Folds, SeeFolds
<1>4. \E it : SeeFolds(it, Len(s), base, s)
  BY <1>3, FoldsExist, Zenon
<1>5. SeeFolds(c, Len(s), base, s)
  BY <1>4, Zenon
<1>6. Folds(c, Len(s), op, base, s)
  BY <1>3, <1>5, Zenon
<1> HIDE DEF c, op
<1>7. PICK r : Steps(r, op, base, s) /\ c[1..Len(s)] = r[Len(s)]
  BY <1>6, FoldSteps, Zenon
<1> QED
  BY <1>1, <1>7 DEF op

\* Loading adds one edge after another.
LoadingFolds(it, n, base, s) ==
  it = [t \in SUBSET (1..n) |-> IF t = {} THEN base ELSE AddEdge(it[t \ {Max(t)}], s[Max(t)])]

LEMMA LoadingSteps ==
  ASSUME NEW g, Len(g.edges) \in Nat, DOMAIN g.edges = 1..Len(g.edges)
  PROVE  \E r : Steps(r, [name |-> "edge"], [nodes |-> g.nodes, edges |-> <<>>], g.edges) /\ Reload(g) = r[Len(g.edges)]
<1> DEFINE op == [name |-> "edge"]
           base == [nodes |-> g.nodes, edges |-> <<>>]
           c == CHOOSE it : LoadingFolds(it, Len(g.edges), base, g.edges)
<1>1. Reload(g) = c[1..Len(g.edges)]
  BY DEF FoldLeft, MapThenFoldSet, LoadingFolds, Reload
<1>2. \A w, m : Applied(op, w, m) = AddEdge(w, m)
  BY DEF Applied
<1> HIDE DEF base
<1>3. \A it : Folds(it, Len(g.edges), op, base, g.edges) <=> LoadingFolds(it, Len(g.edges), base, g.edges)
  BY <1>2, Zenon DEF Folds, LoadingFolds
<1>4. \E it : LoadingFolds(it, Len(g.edges), base, g.edges)
  BY <1>3, FoldsExist, Zenon
<1>5. LoadingFolds(c, Len(g.edges), base, g.edges)
  BY <1>4, Zenon
<1>6. Folds(c, Len(g.edges), op, base, g.edges)
  BY <1>3, <1>5, Zenon
<1> HIDE DEF c, op
<1>7. PICK r : Steps(r, op, base, g.edges) /\ c[1..Len(g.edges)] = r[Len(g.edges)]
  <2>1. PICK s : s = g.edges
    OBVIOUS
  <2> QED
    BY ONLY <1>6, <2>1, Len(g.edges) \in Nat, FoldSteps
<1> QED
  BY <1>1, <1>7 DEF op, base

\* Building reads one unit after another.
BuildingFolds(it, n, base, s, f, task, risk) ==
  it = [t \in SUBSET (1..n) |-> IF t = {} THEN base ELSE Read(f, task, risk, it[t \ {Max(t)}], s[Max(t)])]

LEMMA BuildingSteps ==
  ASSUME NEW f, NEW task, NEW risk, Len(f.units) \in Nat, DOMAIN f.units = 1..Len(f.units)
  PROVE  \E r : Steps(r, [name |-> "read", form |-> f, task |-> task, risk |-> risk], FoldLeft(See, EmptyGraph, StructureMentions(f) \o Registered(f)), f.units) /\ Build(f, task, risk) = r[Len(f.units)]
<1> DEFINE op == [name |-> "read", form |-> f, task |-> task, risk |-> risk]
           base == FoldLeft(See, EmptyGraph, StructureMentions(f) \o Registered(f))
           c == CHOOSE it : BuildingFolds(it, Len(f.units), base, f.units, f, task, risk)
<1>1. Build(f, task, risk) = c[1..Len(f.units)]
  BY DEF FoldLeft, MapThenFoldSet, BuildingFolds, Build
<1>2. \A w, m : Applied(op, w, m) = Read(f, task, risk, w, m)
  BY DEF Applied
<1> HIDE DEF base
<1>3. \A it : Folds(it, Len(f.units), op, base, f.units) <=> BuildingFolds(it, Len(f.units), base, f.units, f, task, risk)
  BY <1>2, Zenon DEF Folds, BuildingFolds
<1>4. \E it : BuildingFolds(it, Len(f.units), base, f.units, f, task, risk)
  BY <1>3, FoldsExist, Zenon
<1>5. BuildingFolds(c, Len(f.units), base, f.units, f, task, risk)
  BY <1>4, Zenon
<1>6. Folds(c, Len(f.units), op, base, f.units)
  BY <1>3, <1>5, Zenon
<1> HIDE DEF c, op
<1>7. PICK r : Steps(r, op, base, f.units) /\ c[1..Len(f.units)] = r[Len(f.units)]
  <2>1. PICK s : s = f.units
    OBVIOUS
  <2> QED
    BY ONLY <1>6, <2>1, Len(f.units) \in Nat, FoldSteps
<1> QED
  BY <1>1, <1>7 DEF op, base

\* A visit follows one edge after another.
VisitFolds(it, n, base, s, here, forward) ==
  it = [t \in SUBSET (1..n) |-> IF t = {} THEN base ELSE Follow(it[t \ {Max(t)}], s[Max(t)], here, forward)]

LEMMA VisitSteps ==
  ASSUME NEW g, NEW w, NEW forward, NEW depth, Len(g.edges) \in Nat, DOMAIN g.edges = 1..Len(g.edges), ~(Head(w.queue).depth >= depth)
  PROVE  \E r : Steps(r, [name |-> "follow", here |-> Head(w.queue), forward |-> forward], [w EXCEPT !.queue = Tail(@)], g.edges) /\ Visit(g, w, forward, depth) = r[Len(g.edges)]
<1> DEFINE op == [name |-> "follow", here |-> Head(w.queue), forward |-> forward]
           base == [w EXCEPT !.queue = Tail(@)]
           c == CHOOSE it : VisitFolds(it, Len(g.edges), base, g.edges, Head(w.queue), forward)
<1>1. Visit(g, w, forward, depth) = c[1..Len(g.edges)]
  BY DEF FoldLeft, MapThenFoldSet, VisitFolds, Visit
<1>2. \A v, m : Applied(op, v, m) = Follow(v, m, op.here, op.forward)
  BY DEF Applied
<1> HIDE DEF base
<1>3. \A it : Folds(it, Len(g.edges), op, base, g.edges) <=> VisitFolds(it, Len(g.edges), base, g.edges, Head(w.queue), forward)
  BY <1>2, Zenon DEF Folds, VisitFolds
<1>4. \E it : VisitFolds(it, Len(g.edges), base, g.edges, Head(w.queue), forward)
  BY <1>3, FoldsExist, Zenon
<1>5. VisitFolds(c, Len(g.edges), base, g.edges, Head(w.queue), forward)
  BY <1>4, Zenon
<1>6. Folds(c, Len(g.edges), op, base, g.edges)
  BY <1>3, <1>5, Zenon
<1> HIDE DEF c, op
<1>7. PICK r : Steps(r, op, base, g.edges) /\ c[1..Len(g.edges)] = r[Len(g.edges)]
  <2>1. PICK s : s = g.edges
    OBVIOUS
  <2> QED
    BY ONLY <1>6, <2>1, Len(g.edges) \in Nat, FoldSteps
<1> QED
  BY <1>1, <1>7 DEF op, base

\* A walk takes one turn after another, as many as there are nodes.
Beginning(x) == [seen |-> {x}, out |-> <<>>, queue |-> <<[id |-> x, depth |-> 0]>>]
WalkFolds(it, n, base, s, g, forward, depth) ==
  it = [t \in SUBSET (1..n) |-> IF t = {} THEN base ELSE Turn(g, it[t \ {Max(t)}], forward, depth)]

LEMMA WalkSteps ==
  ASSUME NEW g, NEW x, NEW forward, NEW asked, NEW n \in Nat, n = Cardinality(DOMAIN g.nodes)
  PROVE  \E r : /\ r[0] = Beginning(x)
                /\ \A i \in 1..n : r[i] = Turn(g, r[i - 1], forward, Clamp(asked))
                /\ Walk(g, x, forward, asked) = r[n].out
<1> DEFINE s == [i \in 1..n |-> i]
           op == [name |-> "turn", g |-> g, forward |-> forward, depth |-> Clamp(asked)]
           c == CHOOSE it : WalkFolds(it, n, Beginning(x), s, g, forward, Clamp(asked))
<1>0. Len(s) = n /\ DOMAIN s = 1..n
  OBVIOUS
<1>1. Walk(g, x, forward, asked) = c[1..n].out
  BY DEF FoldLeft, MapThenFoldSet, WalkFolds, Walk, Beginning
<1>2. \A w, m : Applied(op, w, m) = Turn(g, w, forward, Clamp(asked))
  BY DEF Applied
<1> HIDE DEF s
<1>3. \A it : Folds(it, n, op, Beginning(x), s) <=> WalkFolds(it, n, Beginning(x), s, g, forward, Clamp(asked))
  BY <1>2, Zenon DEF Folds, WalkFolds
<1>4. \E it : WalkFolds(it, n, Beginning(x), s, g, forward, Clamp(asked))
  BY <1>3, FoldsExist, Zenon
<1>5. WalkFolds(c, n, Beginning(x), s, g, forward, Clamp(asked))
  BY <1>4, Zenon
<1>6. Folds(c, n, op, Beginning(x), s)
  BY <1>3, <1>5, Zenon
<1> HIDE DEF c
<1>7. PICK r : Steps(r, op, Beginning(x), s) /\ c[1..n] = r[n]
  <2> HIDE DEF op
  <2> QED
    BY ONLY <1>0, <1>6, n \in Nat, FoldSteps
<1>8. r[0] = Beginning(x) /\ \A i \in 1..n : r[i] = Turn(g, r[i - 1], forward, Clamp(asked))
  BY <1>0, <1>2, <1>7 DEF Steps
<1> QED
  BY <1>1, <1>7, <1>8

-----------------------------------------------------------------------------
(* The walks of a graph *)

\* What a graph is, however it was built.
IsGraph(g) ==
  /\ g = [nodes |-> g.nodes, edges |-> g.edges]
  /\ IsFiniteSet(DOMAIN g.nodes)
  /\ IsList(g.edges)
  /\ \A e \in Range(g.edges) : e.src # e.dst /\ e.src \in DOMAIN g.nodes /\ e.dst \in DOMAIN g.nodes
  /\ \A i, j \in DOMAIN g.edges : g.edges[i] = g.edges[j] => i = j

Balls(b, n, g, x, forward) ==
  b = [k \in 0..n |-> IF k = 0 THEN {x}
                      ELSE b[k - 1] \cup UNION {Neighbours(g, y, forward) : y \in b[k - 1]}]

LEMMA BallsExist ==
  ASSUME NEW n \in Nat, NEW g, NEW x, NEW forward
  PROVE  \E b : Balls(b, n, g, x, forward)
<1> DEFINE bad == {k \in 0..n : ~\E b : Balls(b, k, g, x, forward)}
<1> SUFFICES ASSUME bad # {} PROVE FALSE
  OBVIOUS
<1>1. PICK k \in bad : \A j \in bad : k <= j
  <2>1. bad \subseteq Nat
    OBVIOUS
  <2> HIDE DEF bad
  <2> QED
    BY <2>1, LeastNumber
<1>2. CASE k = 0
  <2> DEFINE b == [j \in 0..0 |-> {x}]
  <2>1. Balls(b, 0, g, x, forward)
    BY DEF Balls
  <2> QED
    BY <1>1, <1>2, <2>1
<1>3. CASE k # 0
  <2>1. k - 1 \in 0..n /\ k - 1 \notin bad /\ k \in Nat \ {0}
    BY <1>1, <1>3
  <2>2. PICK f : Balls(f, k - 1, g, x, forward)
    BY <2>1
  <2> DEFINE next == f[k - 1] \cup UNION {Neighbours(g, y, forward) : y \in f[k - 1]}
             b == [j \in 0..k |-> IF j = k THEN next ELSE f[j]]
  <2>3. b[k] = b[k - 1] \cup UNION {Neighbours(g, y, forward) : y \in b[k - 1]}
    <3>1. k - 1 \in 0..k /\ k - 1 # k /\ k \in 0..k
      BY <2>1
    <3>2. b[k - 1] = f[k - 1] /\ b[k] = next
      BY <3>1
    <3> HIDE DEF b
    <3> QED
      BY <3>2
  <2>4. ASSUME NEW j \in 0..k
        PROVE  b[j] = IF j = 0 THEN {x}
                      ELSE b[j - 1] \cup UNION {Neighbours(g, y, forward) : y \in b[j - 1]}
    <3>1. CASE j = k
      BY <1>3, <2>3, <3>1
    <3>2. CASE j # k
      <4>1. j \in 0..(k - 1) /\ (j # 0 => j - 1 \in 0..k /\ j - 1 # k)
        BY <2>1, <3>2
      <4>2. f[j] = IF j = 0 THEN {x}
                   ELSE f[j - 1] \cup UNION {Neighbours(g, y, forward) : y \in f[j - 1]}
        BY <2>2, <4>1 DEF Balls
      <4>3. b[j] = f[j] /\ (j # 0 => b[j - 1] = f[j - 1])
        BY <3>2, <4>1
      <4> HIDE DEF b
      <4> QED
        BY <4>2, <4>3
    <3> QED
      BY <3>1, <3>2
  <2>5. b = [j \in 0..k |-> b[j]]
    OBVIOUS
  <2> HIDE DEF b
  <2>6. Balls(b, k, g, x, forward)
    BY <2>4, <2>5, Zenon DEF Balls
  <2> QED
    BY <1>1, <2>6
<1> QED
  BY <1>2, <1>3

LEMMA WithinIsBalls ==
  ASSUME NEW g, NEW x, NEW forward
  PROVE  Balls(Within(g, x, forward), MaxDepth, g, x, forward)
<1>1. MaxDepth \in Nat
  BY GraphAssumption
<1>2. Within(g, x, forward) = CHOOSE b : Balls(b, MaxDepth, g, x, forward)
  BY DEF Within, Balls
<1> QED
  BY <1>1, <1>2, BallsExist, Zenon

\* A search: what its steps need to know of its graph, its start and its reach.
Search(g, x, forward, D, ball) ==
  /\ IsGraph(g) /\ x \in DOMAIN g.nodes /\ forward \in BOOLEAN
  /\ D \in Nat \ {0}
  /\ ball[0] = {x}
  /\ \A k \in 1..D : ball[k] = ball[k - 1] \cup UNION {Neighbours(g, y, forward) : y \in ball[k - 1]}

LEMMA BallsGrow ==
  ASSUME NEW g, NEW x, NEW forward, NEW D, NEW ball, Search(g, x, forward, D, ball),
         NEW j \in 0..D, NEW i \in 0..j
  PROVE  ball[i] \subseteq ball[j]
<1>0. D \in Nat
  BY DEF Search
<1> DEFINE bad == {k \in i..j : ~(ball[i] \subseteq ball[k])}
<1> SUFFICES ASSUME bad # {} PROVE FALSE
  BY <1>0
<1>1. PICK k \in bad : \A m \in bad : k <= m
  <2>1. bad \subseteq Nat
    BY <1>0
  <2> HIDE DEF bad
  <2> QED
    BY <2>1, LeastNumber
<1>2. k # i
  BY <1>1
<1>3. k - 1 \in i..j /\ k - 1 \notin bad /\ k \in 1..D
  BY <1>0, <1>1, <1>2
<1>4. ball[i] \subseteq ball[k - 1]
  BY <1>3
<1>5. ball[k - 1] \subseteq ball[k]
  BY <1>3 DEF Search
<1> QED
  BY <1>1, <1>4, <1>5

\* The entries of a walk in the order they entered the queue, the start first.
Entry(x, out, i) == IF i = 0 THEN [id |-> x, depth |-> 0] ELSE out[i]

\* After n entries have left the queue.  The queue is what is left of them...
Queued(w, x, n) ==
  /\ n \in 0..(Len(w.out) + 1)
  /\ Len(w.queue) = Len(w.out) + 1 - n
  /\ \A i \in 1..Len(w.queue) : w.queue[i] = Entry(x, w.out, n + i - 1)

\* ... every node found once ...
FoundOnce(w, g, x, D) ==
  /\ w = [seen |-> w.seen, out |-> w.out, queue |-> w.queue]
  /\ w.out \in Seq([id : DOMAIN g.nodes, depth : 1..D])
  /\ w.queue \in Seq([id : DOMAIN g.nodes, depth : 0..D])
  /\ w.seen = {x} \cup {w.out[i].id : i \in 1..Len(w.out)}
  /\ \A i \in 1..Len(w.out) : w.out[i].id # x
  /\ \A i, j \in 1..Len(w.out) : w.out[i].id = w.out[j].id => i = j

\* ... at its distance, the nearer ones first ...
ByDistance(w, ball) ==
  /\ \A i \in 1..Len(w.out) : w.out[i].id \in ball[w.out[i].depth] \ ball[w.out[i].depth - 1]
  /\ \A i, j \in 1..Len(w.out) : i <= j => w.out[i].depth <= w.out[j].depth

\* ... and the first n with everything next to them.
Exhausted(w, g, x, forward, D, n) ==
  \A i \in 0..(n - 1) : Entry(x, w.out, i).depth < D =>
    Neighbours(g, Entry(x, w.out, i).id, forward) \subseteq w.seen

UpTo(w, d) == \A i \in 1..Len(w.out) : w.out[i].depth <= d

Searching(w, g, x, forward, D, ball, n) ==
  /\ Queued(w, x, n) /\ FoundOnce(w, g, x, D) /\ ByDistance(w, ball)
  /\ Exhausted(w, g, x, forward, D, n)
  /\ n <= Len(w.out) => UpTo(w, Entry(x, w.out, n).depth + 1)

\* How far everything has been found.
Reached(w, x, D, n) == IF n <= Len(w.out) THEN Entry(x, w.out, n).depth ELSE D

LEMMA Entries ==
  ASSUME NEW g, NEW x, NEW forward, NEW D, NEW ball, Search(g, x, forward, D, ball),
         NEW w, FoundOnce(w, g, x, D), ByDistance(w, ball), NEW i \in 0..Len(w.out)
  PROVE  /\ Len(w.out) \in Nat
         /\ Entry(x, w.out, i) \in [id : DOMAIN g.nodes, depth : 0..D]
         /\ Entry(x, w.out, i).id \in w.seen
         /\ Entry(x, w.out, i).id \in ball[Entry(x, w.out, i).depth]
         /\ Entry(x, w.out, i).depth # 0 => Entry(x, w.out, i).id \notin ball[Entry(x, w.out, i).depth - 1]
         /\ \A j \in i..Len(w.out) : Entry(x, w.out, i).depth <= Entry(x, w.out, j).depth
<1>1. Len(w.out) \in Nat /\ (\A k \in 1..Len(w.out) : w.out[k] \in [id : DOMAIN g.nodes, depth : 1..D])
  BY LenProperties, ElementOfSeq DEF FoundOnce
<1>2. D \in Nat \ {0} /\ x \in DOMAIN g.nodes /\ ball[0] = {x}
  BY DEF Search
<1>3. CASE i = 0
  <2>1. Entry(x, w.out, i) = [id |-> x, depth |-> 0]
    BY <1>3 DEF Entry
  <2>2. x \in w.seen
    BY DEF FoundOnce
  <2>3. \A j \in i..Len(w.out) : 0 <= Entry(x, w.out, j).depth
    BY <1>1, <1>2, <1>3 DEF Entry
  <2> QED
    BY <1>1, <1>2, <2>1, <2>2, <2>3
<1>4. CASE i # 0
  <2>1. i \in 1..Len(w.out) /\ Entry(x, w.out, i) = w.out[i]
    BY <1>1, <1>4 DEF Entry
  <2>2. w.out[i] \in [id : DOMAIN g.nodes, depth : 1..D]
    BY <1>1, <2>1
  <2>3. w.out[i].id \in w.seen
    BY <2>1 DEF FoundOnce
  <2>4. w.out[i].id \in ball[w.out[i].depth] \ ball[w.out[i].depth - 1]
    BY <2>1 DEF ByDistance
  <2>5. ASSUME NEW j \in i..Len(w.out) PROVE w.out[i].depth <= Entry(x, w.out, j).depth
    <3>1. j \in 1..Len(w.out) /\ i <= j /\ Entry(x, w.out, j) = w.out[j]
      BY <1>1, <2>1 DEF Entry
    <3> QED
      BY <2>1, <3>1 DEF ByDistance
  <2>6. w.out[i] \in [id : DOMAIN g.nodes, depth : 0..D]
    BY <1>2, <2>2
  <2> QED
    BY <1>1, <2>1, <2>3, <2>4, <2>5, <2>6
<1> QED
  BY <1>3, <1>4

\* Whoever was seen has an entry.
LEMMA SeenHasEntry ==
  ASSUME NEW g, NEW x, NEW D, NEW w, FoundOnce(w, g, x, D), NEW y \in w.seen
  PROVE  \E i \in 0..Len(w.out) : Entry(x, w.out, i).id = y
<1>1. Len(w.out) \in Nat
  BY LenProperties DEF FoundOnce
<1>2. CASE y = x
  <2>1. Entry(x, w.out, 0).id = x
    BY DEF Entry
  <2> QED
    BY <1>1, <1>2, <2>1
<1>3. CASE y # x
  <2>1. PICK i \in 1..Len(w.out) : w.out[i].id = y
    BY <1>3 DEF FoundOnce
  <2>2. i \in 0..Len(w.out) /\ Entry(x, w.out, i) = w.out[i]
    BY <1>1 DEF Entry
  <2> QED
    BY <2>1, <2>2
<1> QED
  BY <1>2, <1>3

\* Everything within the depth of the head of the queue has been found, and
\* when the queue is empty everything there is to find.
LEMMA ReachedIsSeen ==
  ASSUME NEW g, NEW x, NEW forward, NEW D, NEW ball, Search(g, x, forward, D, ball),
         NEW w, NEW n \in Nat, Searching(w, g, x, forward, D, ball, n)
  PROVE  /\ Reached(w, x, D, n) \in 0..D
         /\ \A k \in 0..Reached(w, x, D, n) : ball[k] \subseteq w.seen
<1> DEFINE R == Reached(w, x, D, n)
<1>0. /\ D \in Nat \ {0} /\ ball[0] = {x}
      /\ Queued(w, x, n) /\ FoundOnce(w, g, x, D) /\ ByDistance(w, ball) /\ Exhausted(w, g, x, forward, D, n)
  BY DEF Search, Searching
<1>1. Len(w.out) \in Nat
  BY <1>0, LenProperties DEF FoundOnce
<1>2. R \in 0..D
  <2>1. CASE n <= Len(w.out)
    <3>1. Entry(x, w.out, n) \in [id : DOMAIN g.nodes, depth : 0..D]
      BY <1>0, <1>1, <2>1, Entries
    <3> QED
      BY <2>1, <3>1 DEF Reached
  <2>2. CASE ~(n <= Len(w.out))
    BY <1>0, <2>2 DEF Reached
  <2> QED
    BY <2>1, <2>2
<1> DEFINE bad == {k \in 0..R : ~(ball[k] \subseteq w.seen)}
<1> SUFFICES ASSUME bad # {} PROVE FALSE
  BY <1>2
<1>3. PICK k \in bad : \A m \in bad : k <= m
  <2>1. bad \subseteq Nat
    BY <1>2
  <2> HIDE DEF bad
  <2> QED
    BY <2>1, LeastNumber
<1>4. k \in 0..R /\ ~(ball[k] \subseteq w.seen)
  BY <1>3
<1>5. k # 0
  BY <1>0, <1>4 DEF FoundOnce
<1>6. k - 1 \in 0..R /\ k - 1 \notin bad
  BY <1>2, <1>3, <1>4, <1>5
<1>7. ball[k - 1] \subseteq w.seen
  BY <1>6
<1> HIDE DEF bad, R
<1>8. PICK z : z \in ball[k] /\ z \notin w.seen
  BY <1>4
<1>9. PICK y \in ball[k - 1] : z \in Neighbours(g, y, forward)
  <2>1. k \in 1..D
    BY <1>0, <1>2, <1>4, <1>5
  <2>2. ball[k] = ball[k - 1] \cup UNION {Neighbours(g, v, forward) : v \in ball[k - 1]}
    BY <2>1 DEF Search
  <2> QED
    BY <1>7, <1>8, <2>2
<1>10. PICK i \in 0..Len(w.out) : Entry(x, w.out, i).id = y
  BY <1>0, <1>7, <1>9, SeenHasEntry
<1>11. PICK e \in 0..D : e = Entry(x, w.out, i).depth
  BY <1>0, Entries
<1>12. e <= k - 1
  <2> SUFFICES ASSUME ~(e <= k - 1) PROVE FALSE
    OBVIOUS
  <2>1. e # 0 /\ e - 1 \in 0..D /\ k - 1 \in 0..(e - 1)
    BY <1>0, <1>2, <1>4, <1>5, <1>11
  <2>2. ball[k - 1] \subseteq ball[e - 1]
    BY <2>1, BallsGrow
  <2>3. y \notin ball[e - 1]
    BY <1>0, <1>10, <1>11, <2>1, Entries
  <2> QED
    BY <1>9, <2>2, <2>3
<1>13. e < D /\ e < R
  BY <1>0, <1>2, <1>4, <1>11, <1>12
<1>14. i \in 0..(n - 1)
  <2>1. CASE n <= Len(w.out)
    <3> SUFFICES ASSUME ~(i <= n - 1) PROVE FALSE
      BY <1>1
    <3>1. i \in n..Len(w.out) /\ n \in 0..Len(w.out)
      BY <1>1, <2>1
    <3>2. Entry(x, w.out, n).depth <= Entry(x, w.out, i).depth
      BY <1>0, <3>1, Entries
    <3>3. R = Entry(x, w.out, n).depth
      BY <2>1 DEF R, Reached
    <3> QED
      BY <1>2, <1>11, <1>13, <3>2, <3>3
  <2>2. CASE ~(n <= Len(w.out))
    BY <1>1, <2>2
  <2> QED
    BY <2>1, <2>2
<1>15. z \in w.seen
  BY <1>0, <1>9, <1>10, <1>11, <1>13, <1>14 DEF Exhausted
<1> QED
  BY <1>8, <1>15

\* Entry n has left the queue and its edges are being followed.
Following(w, g, x, forward, D, ball, n, here) ==
  /\ Queued(w, x, n + 1) /\ FoundOnce(w, g, x, D) /\ ByDistance(w, ball)
  /\ Exhausted(w, g, x, forward, D, n)
  /\ UpTo(w, here.depth + 1)
  /\ n \in 0..Len(w.out) /\ here = Entry(x, w.out, n) /\ here.depth < D
  /\ ball[here.depth] \subseteq w.seen

Entered(w, z, d) ==
  [seen |-> w.seen \cup {z}, out |-> Append(w.out, [id |-> z, depth |-> d]),
   queue |-> Append(w.queue, [id |-> z, depth |-> d])]

LEMMA EnteredKeeps ==
  ASSUME NEW g, NEW x, NEW forward, NEW D, NEW ball, Search(g, x, forward, D, ball),
         NEW w, NEW n \in Nat, NEW here, Following(w, g, x, forward, D, ball, n, here),
         NEW z \in DOMAIN g.nodes, z \notin w.seen, z \in Neighbours(g, here.id, forward)
  PROVE  Following(Entered(w, z, here.depth + 1), g, x, forward, D, ball, n, here)
<1>0. /\ Queued(w, x, n + 1) /\ FoundOnce(w, g, x, D) /\ ByDistance(w, ball)
      /\ Exhausted(w, g, x, forward, D, n) /\ UpTo(w, here.depth + 1)
      /\ n \in 0..Len(w.out) /\ here = Entry(x, w.out, n) /\ here.depth < D
      /\ ball[here.depth] \subseteq w.seen
  BY DEF Following
<1>1. PICK L \in Nat : L = Len(w.out)
  BY <1>0, LenProperties DEF FoundOnce
<1>2. PICK Q \in Nat : Q = Len(w.queue) /\ Q = L + 1 - (n + 1)
  BY <1>0, <1>1, LenProperties DEF FoundOnce, Queued
<1>3. PICK d \in Nat : d = here.depth /\ d + 1 \in 1..D /\ D \in Nat
  <2>1. here \in [id : DOMAIN g.nodes, depth : 0..D] /\ D \in Nat \ {0}
    BY <1>0, Entries DEF Search
  <2> QED
    BY <1>0, <2>1
<1>4. PICK t : t = [id |-> z, depth |-> d + 1]
  OBVIOUS
<1>5. /\ t \in [id : DOMAIN g.nodes, depth : 1..D] /\ t \in [id : DOMAIN g.nodes, depth : 0..D]
      /\ t.id = z /\ t.depth = d + 1
  BY <1>3, <1>4
<1>6. PICK out : out = Append(w.out, t)
  OBVIOUS
<1>7. PICK queue : queue = Append(w.queue, t)
  OBVIOUS
<1>8. /\ out \in Seq([id : DOMAIN g.nodes, depth : 1..D]) /\ Len(out) = L + 1
      /\ \A i \in 0..L : Entry(x, out, i) = Entry(x, w.out, i)
      /\ \A i \in 1..L : out[i] = w.out[i]
      /\ out[L + 1] = t /\ Entry(x, out, L + 1) = t
  <2>1. w.out \in Seq([id : DOMAIN g.nodes, depth : 1..D])
    BY <1>0 DEF FoundOnce
  <2>2. PICK o \in Seq([id : DOMAIN g.nodes, depth : 1..D]) : o = w.out
    BY <2>1
  <2>3. /\ Append(o, t) \in Seq([id : DOMAIN g.nodes, depth : 1..D]) /\ Len(Append(o, t)) = Len(o) + 1
        /\ \A i \in 0..Len(o) : Entry(x, Append(o, t), i) = Entry(x, o, i)
        /\ \A i \in 1..Len(o) : Append(o, t)[i] = o[i]
        /\ Append(o, t)[Len(o) + 1] = t
        /\ Entry(x, Append(o, t), Len(o) + 1) = t
    <3>1. PICK S : S = [id : DOMAIN g.nodes, depth : 1..D]
      OBVIOUS
    <3>2. o \in Seq(S) /\ t \in S
      BY <1>5, <3>1
    <3> QED
      <4>1. /\ Append(o, t) \in Seq(S) /\ Len(Append(o, t)) = Len(o) + 1
            /\ \A i \in 0..Len(o) : Entry(x, Append(o, t), i) = Entry(x, o, i)
            /\ \A i \in 1..Len(o) : Append(o, t)[i] = o[i]
            /\ Append(o, t)[Len(o) + 1] = t
            /\ Entry(x, Append(o, t), Len(o) + 1) = t
        <5>1. /\ Append(o, t) \in Seq(S) /\ Len(Append(o, t)) = Len(o) + 1
              /\ \A i \in 1..Len(o) : Append(o, t)[i] = o[i]
              /\ Append(o, t)[Len(o) + 1] = t
          BY ONLY <3>2, AppendProperties
        <5>2. Len(o) \in Nat
          BY <3>2, LenProperties
        <5>3. PICK a : a = Append(o, t)
          OBVIOUS
        <5>4. PICK m \in Nat : m = Len(o)
          BY <5>2
        <5>5. \A i \in 1..m : a[i] = o[i]
          BY <5>1, <5>3, <5>4
        <5>6. a[m + 1] = t
          BY <5>1, <5>3, <5>4
        <5>7. \A i \in 0..m : Entry(x, a, i) = Entry(x, o, i)
          BY ONLY <5>5 DEF Entry
        <5>8. Entry(x, a, m + 1) = t
          BY ONLY <5>6 DEF Entry
        <5> QED
          BY ONLY <5>1, <5>3, <5>4, <5>7, <5>8
      <4> QED
        BY ONLY <3>1, <4>1
  <2> QED
    BY ONLY <1>1, <1>6, <2>2, <2>3, Zenon
<1>9. /\ queue \in Seq([id : DOMAIN g.nodes, depth : 0..D]) /\ Len(queue) = Q + 1
      /\ \A i \in 1..Q : queue[i] = w.queue[i]
      /\ queue[Q + 1] = t
  <2>1. w.queue \in Seq([id : DOMAIN g.nodes, depth : 0..D])
    BY <1>0 DEF FoundOnce
  <2>2. PICK q \in Seq([id : DOMAIN g.nodes, depth : 0..D]) : q = w.queue
    BY <2>1
  <2>3. /\ Append(q, t) \in Seq([id : DOMAIN g.nodes, depth : 0..D]) /\ Len(Append(q, t)) = Len(q) + 1
        /\ \A i \in 1..Len(q) : Append(q, t)[i] = q[i]
        /\ Append(q, t)[Len(q) + 1] = t
    <3>1. PICK S : S = [id : DOMAIN g.nodes, depth : 0..D]
      OBVIOUS
    <3>2. q \in Seq(S) /\ t \in S
      BY <1>5, <3>1
    <3> QED
      BY ONLY <3>1, <3>2, AppendProperties
  <2> QED
    BY ONLY <1>2, <1>7, <2>2, <2>3, Zenon
<1>10. PICK v : v = Entered(w, z, d + 1)
  OBVIOUS
<1>11. /\ v = [seen |-> v.seen, out |-> v.out, queue |-> v.queue]
       /\ v.seen = w.seen \cup {z} /\ v.out = out /\ v.queue = queue
  BY <1>4, <1>6, <1>7, <1>10 DEF Entered
<1>12. Queued(v, x, n + 1)
  <2>1. \A i \in 1..Q : queue[i] = Entry(x, w.out, n + i)
    <3>1. \A i \in 1..Q : w.queue[i] = Entry(x, w.out, (n + 1) + i - 1)
      BY <1>0, <1>2 DEF Queued
    <3>2. \A i \in 1..Q : (n + 1) + i - 1 = n + i
      OBVIOUS
    <3> QED
      BY <1>9, <3>1, <3>2
  <2>2. \A i \in 1..Q : n + i \in 0..L
    BY <1>2
  <2>3. \A i \in 1..(Q + 1) : queue[i] = Entry(x, out, n + i)
    <3> SUFFICES ASSUME NEW i \in 1..(Q + 1) PROVE queue[i] = Entry(x, out, n + i)
      OBVIOUS
    <3>1. CASE i \in 1..Q
      BY <1>8, <2>1, <2>2, <3>1
    <3>2. CASE i = Q + 1
      <4>1. n + i = L + 1
        BY <1>2, <3>2
      <4> QED
        BY <1>8, <1>9, <3>2, <4>1
    <3> QED
      BY <1>2, <3>1, <3>2
  <2>4. n + 1 \in 0..(L + 2) /\ Q + 1 = (L + 1) + 1 - (n + 1)
    <3>1. n \in 0..L /\ n \in Nat
      BY <1>0, <1>1
    <3>2. Q = L + 1 - (n + 1)
      BY <1>2
    <3>3. n + 1 \in 0..(L + 2)
      BY ONLY <3>1
    <3>4. Q + 1 = (L + 1) + 1 - (n + 1)
      BY ONLY <3>1, <3>2
    <3> QED
      BY <3>3, <3>4
  <2>5. \A i \in 1..(Q + 1) : (n + 1) + i - 1 = n + i
    OBVIOUS
  <2> QED
    <3>1. Len(v.out) = L + 1 /\ Len(v.queue) = Q + 1
      BY <1>8, <1>9, <1>11
    <3>2. \A i \in 1..(Q + 1) : v.queue[i] = Entry(x, v.out, (n + 1) + i - 1)
      BY <1>11, <2>3, <2>5
    <3>3. n + 1 \in 0..(Len(v.out) + 1) /\ Len(v.queue) = Len(v.out) + 1 - (n + 1)
      <4>1. (L + 1) + 1 = L + 2
        OBVIOUS
      <4> QED
        BY <2>4, <3>1, <4>1
    <3> QED
      BY <3>1, <3>2, <3>3 DEF Queued
<1>13. FoundOnce(v, g, x, D)
  <2>1. \A i \in 1..L : out[i].id \in w.seen /\ out[i].id # x
    BY <1>0, <1>1, <1>8 DEF FoundOnce
  <2>2. x \in w.seen
    BY <1>0 DEF FoundOnce
  <2>3. v.seen = {x} \cup {out[i].id : i \in 1..(L + 1)}
    <3>1. w.seen = {x} \cup {out[i].id : i \in 1..L}
      <4>1. w.seen = {x} \cup {w.out[i].id : i \in 1..L}
        BY <1>0, <1>1 DEF FoundOnce
      <4>2. {w.out[i].id : i \in 1..L} = {out[i].id : i \in 1..L}
        BY <1>8
      <4> QED
        BY <4>1, <4>2
    <3>2. 1..(L + 1) = (1..L) \cup {L + 1}
      OBVIOUS
    <3>3. {out[i].id : i \in 1..(L + 1)} = {out[i].id : i \in 1..L} \cup {z}
      BY <1>5, <1>8, <3>2
    <3> QED
      BY <1>11, <3>1, <3>3
  <2>4. \A i \in 1..(L + 1) : out[i].id # x
    BY <1>5, <1>8, <2>1, <2>2
  <2>5. ASSUME NEW i \in 1..(L + 1), NEW j \in 1..(L + 1), out[i].id = out[j].id PROVE i = j
    <3>1. CASE i \in 1..L /\ j \in 1..L
      BY <1>0, <1>1, <1>8, <2>5, <3>1 DEF FoundOnce
    <3>2. CASE i = L + 1 /\ j \in 1..L
      BY <1>5, <1>8, <2>1, <2>5, <3>2
    <3>3. CASE i \in 1..L /\ j = L + 1
      BY <1>5, <1>8, <2>1, <2>5, <3>3
    <3> QED
      BY <3>1, <3>2, <3>3
  <2> QED
    BY <1>8, <1>9, <1>11, <2>3, <2>4, <2>5 DEF FoundOnce
<1>14. ByDistance(v, ball)
  <2>1. z \in ball[d + 1] \ ball[d]
    <3>1. here.id \in ball[d]
      BY <1>0, <1>3, Entries
    <3>2. ball[d + 1] = ball[(d + 1) - 1] \cup UNION {Neighbours(g, y, forward) : y \in ball[(d + 1) - 1]}
      BY <1>3 DEF Search
    <3>3. (d + 1) - 1 = d
      OBVIOUS
    <3> QED
      BY <1>0, <1>3, <3>1, <3>2, <3>3
  <2>2. ASSUME NEW i \in 1..(L + 1) PROVE out[i].id \in ball[out[i].depth] \ ball[out[i].depth - 1]
    <3>1. CASE i \in 1..L
      BY <1>0, <1>1, <1>8, <3>1 DEF ByDistance
    <3>2. CASE i = L + 1
      <4>1. out[i].depth = d + 1 /\ out[i].id = z /\ (d + 1) - 1 = d
        BY <1>5, <1>8, <3>2
      <4> QED
        BY <2>1, <4>1
    <3> QED
      BY <3>1, <3>2
  <2>3. ASSUME NEW i \in 1..(L + 1), NEW j \in 1..(L + 1), i <= j PROVE out[i].depth <= out[j].depth
    <3>1. CASE i \in 1..L /\ j \in 1..L
      BY <1>0, <1>1, <1>8, <2>3, <3>1 DEF ByDistance
    <3>2. CASE i \in 1..L /\ j = L + 1
      BY <1>0, <1>1, <1>3, <1>5, <1>8, <3>2 DEF UpTo
    <3>3. CASE i = L + 1 /\ j = L + 1
      BY <1>5, <1>8, <3>3
    <3> QED
      BY <2>3, <3>1, <3>2, <3>3
  <2> QED
    BY <1>8, <1>11, <2>2, <2>3 DEF ByDistance
<1>15. Exhausted(v, g, x, forward, D, n)
  <2> SUFFICES ASSUME NEW i \in 0..(n - 1), Entry(x, out, i).depth < D
               PROVE  Neighbours(g, Entry(x, out, i).id, forward) \subseteq v.seen
    BY <1>11 DEF Exhausted
  <2>1. Entry(x, out, i) = Entry(x, w.out, i)
    BY <1>0, <1>1, <1>8
  <2> QED
    BY <1>0, <1>11, <2>1 DEF Exhausted
<1>16. UpTo(v, d + 1)
  <2>1. \A i \in 1..L : out[i].depth <= d + 1
    BY <1>0, <1>1, <1>3, <1>8 DEF UpTo
  <2>2. \A i \in 1..(L + 1) : out[i].depth <= d + 1
    BY <1>5, <1>8, <2>1
  <2> QED
    BY <1>8, <1>11, <2>2 DEF UpTo
<1>17. n \in 0..Len(v.out) /\ here = Entry(x, v.out, n)
  BY <1>0, <1>1, <1>8, <1>11
<1> QED
  BY <1>0, <1>3, <1>10, <1>11, <1>12, <1>13, <1>14, <1>15, <1>16, <1>17 DEF Following

LEMMA FollowKeeps ==
  ASSUME NEW g, NEW x, NEW forward, NEW D, NEW ball, Search(g, x, forward, D, ball),
         NEW w, NEW n \in Nat, NEW here, Following(w, g, x, forward, D, ball, n, here),
         NEW e \in Range(g.edges)
  PROVE  /\ Following(Follow(w, e, here, forward), g, x, forward, D, ball, n, here)
         /\ w.seen \subseteq Follow(w, e, here, forward).seen
         /\ Near(e, forward) = here.id => Far(e, forward) \in Follow(w, e, here, forward).seen
<1> DEFINE z == Far(e, forward)
<1>1. z \in DOMAIN g.nodes
  BY DEF Search, IsGraph, Far
<1>2. CASE Near(e, forward) # here.id
  <2>1. Follow(w, e, here, forward) = w
    BY <1>2 DEF Follow
  <2> QED
    BY <1>2, <2>1
<1>3. CASE Near(e, forward) = here.id /\ z \in w.seen
  <2>1. Follow(w, e, here, forward) = w
    BY <1>3 DEF Follow, Discover
  <2> QED
    BY <1>3, <2>1
<1>4. CASE Near(e, forward) = here.id /\ z \notin w.seen
  <2>1. Follow(w, e, here, forward) = Entered(w, z, here.depth + 1)
    BY <1>4 DEF Follow, Discover, Entered
  <2>2. z \in Neighbours(g, here.id, forward)
    BY <1>4 DEF Neighbours
  <2>3. Following(Entered(w, z, here.depth + 1), g, x, forward, D, ball, n, here)
    BY <1>1, <1>4, <2>2, EnteredKeeps
  <2>4. w.seen \subseteq Entered(w, z, here.depth + 1).seen /\ z \in Entered(w, z, here.depth + 1).seen
    BY DEF Entered
  <2> QED
    BY <2>1, <2>3, <2>4
<1> QED
  BY <1>2, <1>3, <1>4

\* An entry is done with when its depth is the limit or all its edges were followed.
LEMMA DoneWith ==
  ASSUME NEW g, NEW x, NEW forward, NEW D, NEW ball, Search(g, x, forward, D, ball),
         NEW w, NEW n \in Nat, NEW here,
         Queued(w, x, n + 1), FoundOnce(w, g, x, D), ByDistance(w, ball),
         Exhausted(w, g, x, forward, D, n), UpTo(w, here.depth + 1),
         n \in 0..Len(w.out), here = Entry(x, w.out, n),
         here.depth < D => Neighbours(g, here.id, forward) \subseteq w.seen
  PROVE  Searching(w, g, x, forward, D, ball, n + 1)
<1>1. Exhausted(w, g, x, forward, D, n + 1)
  <2> SUFFICES ASSUME NEW i \in 0..((n + 1) - 1), Entry(x, w.out, i).depth < D
               PROVE  Neighbours(g, Entry(x, w.out, i).id, forward) \subseteq w.seen
    BY DEF Exhausted
  <2>1. CASE i = n
    BY <2>1
  <2>2. CASE i # n
    <3>1. i \in 0..(n - 1)
      BY <2>2
    <3> QED
      BY <3>1 DEF Exhausted
  <2> QED
    BY <2>1, <2>2
<1>2. ASSUME n + 1 <= Len(w.out) PROVE UpTo(w, Entry(x, w.out, n + 1).depth + 1)
  <2>1. PICK L \in Nat : L = Len(w.out)
    BY LenProperties DEF FoundOnce
  <2>2. n + 1 \in n..L /\ n + 1 \in 0..L
    BY <1>2, <2>1
  <2>3. here.depth <= Entry(x, w.out, n + 1).depth
    BY <2>1, <2>2, Entries
  <2>0. /\ D \in Nat
        /\ here \in [id : DOMAIN g.nodes, depth : 0..D]
        /\ Entry(x, w.out, n + 1) \in [id : DOMAIN g.nodes, depth : 0..D]
    <3>1. D \in Nat
      BY DEF Search
    <3>2. here \in [id : DOMAIN g.nodes, depth : 0..D]
      BY Entries
    <3>3. Entry(x, w.out, n + 1) \in [id : DOMAIN g.nodes, depth : 0..D]
      BY <2>1, <2>2, Entries
    <3> QED
      BY <3>1, <3>2, <3>3
  <2>4. PICK d \in Nat : d = here.depth
    BY <2>0
  <2>5. PICK e \in Nat : e = Entry(x, w.out, n + 1).depth
    BY <2>0
  <2>6. \A i \in 1..L : w.out[i].depth \in Nat
    <3>1. w.out \in Seq([id : DOMAIN g.nodes, depth : 1..D])
      BY DEF FoundOnce
    <3>2. D \in Nat
      BY DEF Search
    <3> QED
      <4> SUFFICES ASSUME NEW i \in 1..L PROVE w.out[i].depth \in Nat
        OBVIOUS
      <4>1. w.out[i] \in [id : DOMAIN g.nodes, depth : 1..D]
        BY <2>1, <3>1, ElementOfSeq
      <4> QED
        BY <3>2, <4>1
  <2>7. \A i \in 1..L : w.out[i].depth <= d + 1
    BY <2>1, <2>4 DEF UpTo
  <2>8. \A i \in 1..L : w.out[i].depth <= e + 1
    BY <2>3, <2>4, <2>5, <2>6, <2>7
  <2> QED
    BY <2>1, <2>5, <2>8 DEF UpTo
<1> QED
  BY <1>1, <1>2 DEF Searching

LEMMA VisitKeeps ==
  ASSUME NEW g, NEW x, NEW forward, NEW D, NEW ball, Search(g, x, forward, D, ball),
         NEW w, NEW n \in Nat, Searching(w, g, x, forward, D, ball, n), w.queue # <<>>
  PROVE  Searching(Visit(g, w, forward, D), g, x, forward, D, ball, n + 1)
<1>0. /\ Queued(w, x, n) /\ FoundOnce(w, g, x, D) /\ ByDistance(w, ball)
      /\ Exhausted(w, g, x, forward, D, n)
      /\ n <= Len(w.out) => UpTo(w, Entry(x, w.out, n).depth + 1)
  BY DEF Searching
<1>1. PICK L \in Nat : L = Len(w.out)
  BY <1>0, LenProperties DEF FoundOnce
<1> DEFINE here == Head(w.queue)
           rest == [w EXCEPT !.queue = Tail(@)]
<1>2. /\ Len(w.queue) \in Nat \ {0} /\ Len(w.queue) = L + 1 - n
      /\ here = w.queue[1]
      /\ Tail(w.queue) \in Seq([id : DOMAIN g.nodes, depth : 0..D])
      /\ Len(Tail(w.queue)) = L - n
      /\ \A i \in 1..(L - n) : Tail(w.queue)[i] = w.queue[i + 1]
  <2>1. PICK S : S = [id : DOMAIN g.nodes, depth : 0..D]
    OBVIOUS
  <2>2. w.queue \in Seq(S)
    BY <1>0, <2>1 DEF FoundOnce
  <2>3. /\ Tail(w.queue) \in Seq(S) /\ Len(Tail(w.queue)) = Len(w.queue) - 1
        /\ \A i \in 1..Len(Tail(w.queue)) : Tail(w.queue)[i] = w.queue[i + 1]
    BY <2>2, HeadTailProperties
  <2>4. Len(w.queue) \in Nat \ {0}
    BY <2>2, EmptySeq
  <2>5. Len(w.queue) = L + 1 - n
    BY <1>0, <1>1 DEF Queued
  <2>6. here = w.queue[1]
    BY <2>2, <2>4
  <2>7. Len(Tail(w.queue)) = L - n
    BY <2>3, <2>4, <2>5
  <2> QED
    BY <2>1, <2>3, <2>4, <2>5, <2>6, <2>7
<1>3. n \in 0..L /\ here = Entry(x, w.out, n)
  <2>1. n \in 0..L
    BY <1>2
  <2>2. w.queue[1] = Entry(x, w.out, n + 1 - 1)
    BY <1>0, <1>2 DEF Queued
  <2>3. n + 1 - 1 = n
    OBVIOUS
  <2> QED
    BY <1>2, <2>1, <2>2, <2>3
<1>4. /\ rest = [seen |-> w.seen, out |-> w.out, queue |-> Tail(w.queue)]
      /\ rest.seen = w.seen /\ rest.out = w.out /\ rest.queue = Tail(w.queue)
  <2>1. w = [seen |-> w.seen, out |-> w.out, queue |-> w.queue]
    BY <1>0 DEF FoundOnce
  <2>2. rest = [seen |-> w.seen, out |-> w.out, queue |-> Tail(w.queue)]
    BY <2>1
  <2> HIDE DEF rest
  <2> QED
    BY <2>2
<1> HIDE DEF here, rest
<1>5. Queued(rest, x, n + 1)
  <2>1. \A i \in 1..(L - n) : Tail(w.queue)[i] = Entry(x, w.out, (n + 1) + i - 1)
    <3> SUFFICES ASSUME NEW i \in 1..(L - n) PROVE Tail(w.queue)[i] = Entry(x, w.out, (n + 1) + i - 1)
      OBVIOUS
    <3>1. Tail(w.queue)[i] = w.queue[i + 1]
      BY <1>2
    <3>2. i + 1 \in 1..Len(w.queue)
      BY <1>2, <1>3
    <3>3. w.queue[i + 1] = Entry(x, w.out, n + (i + 1) - 1)
      BY <1>0, <3>2 DEF Queued
    <3>4. n + (i + 1) - 1 = (n + 1) + i - 1
      OBVIOUS
    <3> QED
      BY <3>1, <3>3, <3>4
  <2>2. n + 1 \in 0..(L + 1) /\ L - n = L + 1 - (n + 1)
    <3>1. n \in 0..L
      BY <1>3
    <3> QED
      BY ONLY <3>1
  <2> QED
    BY <1>1, <1>2, <1>4, <2>1, <2>2 DEF Queued
<1>6. FoundOnce(rest, g, x, D)
  BY <1>0, <1>2, <1>4 DEF FoundOnce
<1>7. ByDistance(rest, ball)
  BY <1>0, <1>4 DEF ByDistance
<1>8. Exhausted(rest, g, x, forward, D, n)
  BY <1>0, <1>4 DEF Exhausted
<1>9. UpTo(rest, here.depth + 1)
  BY <1>0, <1>1, <1>3, <1>4 DEF UpTo
<1>10. n \in 0..Len(rest.out) /\ here = Entry(x, rest.out, n)
  BY <1>1, <1>3, <1>4
<1>11. CASE here.depth >= D
  <2>1. Visit(g, w, forward, D) = rest
    BY <1>11 DEF Visit, here, rest
  <2>2. ~(here.depth < D)
    <3>1. here.depth \in 0..D /\ D \in Nat
      BY <1>0, <1>1, <1>3, Entries DEF Search
    <3> QED
      BY <1>11, <3>1
  <2>3. Searching(rest, g, x, forward, D, ball, n + 1)
    BY <1>5, <1>6, <1>7, <1>8, <1>9, <1>10, <2>2, DoneWith
  <2> QED
    BY <2>1, <2>3
<1>12. CASE ~(here.depth >= D)
  <2>1. here.depth \in 0..D /\ D \in Nat /\ here.depth < D
    <3>1. here.depth \in 0..D /\ D \in Nat
      BY <1>0, <1>1, <1>3, Entries DEF Search
    <3> QED
      BY <1>12, <3>1
  <2>2. Reached(w, x, D, n) = here.depth
    BY <1>1, <1>3 DEF Reached
  <2>3. ball[here.depth] \subseteq w.seen
    BY <2>1, <2>2, ReachedIsSeen
  <2>4. Following(rest, g, x, forward, D, ball, n, here)
    BY <1>4, <1>5, <1>6, <1>7, <1>8, <1>9, <1>10, <2>1, <2>3 DEF Following
  <2> DEFINE op == [name |-> "follow", here |-> here, forward |-> forward]
  <2>5. PICK m \in Nat : m = Len(g.edges) /\ DOMAIN g.edges = 1..m
    BY LenProperties DEF Search, IsGraph, IsList
  <2>6. PICK r : Steps(r, op, rest, g.edges) /\ Visit(g, w, forward, D) = r[m]
    BY <1>12, <2>5, VisitSteps DEF here, rest
  <2>7. \A v, e : Applied(op, v, e) = Follow(v, e, here, forward)
    BY DEF Applied
  <2>8. r[0] = rest /\ \A i \in 1..m : r[i] = Follow(r[i - 1], g.edges[i], here, forward)
    BY <2>5, <2>6, <2>7 DEF Steps
  <2> HIDE DEF op
  <2> DEFINE Good(k) == /\ Following(r[k], g, x, forward, D, ball, n, here)
                        /\ \A i \in 1..k : Near(g.edges[i], forward) = here.id => Far(g.edges[i], forward) \in r[k].seen
             bad == {k \in 0..m : ~Good(k)}
  <2>9. bad = {}
    <3> SUFFICES ASSUME bad # {} PROVE FALSE
      OBVIOUS
    <3>1. PICK k \in bad : \A j \in bad : k <= j
      <4>1. bad \subseteq Nat
        OBVIOUS
      <4> HIDE DEF bad
      <4> QED
        BY <4>1, LeastNumber
    <3>2. k \in 0..m /\ ~Good(k)
      BY <3>1
    <3>3. k # 0
      BY <2>4, <2>8, <3>2
    <3>4. k - 1 \in 0..m /\ k - 1 \notin bad /\ k \in 1..m
      BY <3>1, <3>2, <3>3
    <3>5. Good(k - 1)
      BY <3>4
    <3>6. PICK v : v = r[k - 1]
      OBVIOUS
    <3>7. PICK e : e = g.edges[k] /\ e \in Range(g.edges)
      BY <2>5, <3>4 DEF Range
    <3>8. r[k] = Follow(v, e, here, forward)
      BY <2>8, <3>4, <3>6, <3>7
    <3>9. Following(v, g, x, forward, D, ball, n, here)
      BY <3>5, <3>6
    <3>10. /\ Following(r[k], g, x, forward, D, ball, n, here)
           /\ v.seen \subseteq r[k].seen
           /\ Near(e, forward) = here.id => Far(e, forward) \in r[k].seen
      <4>1. PICK u : u = Follow(v, e, here, forward)
        OBVIOUS
      <4>2. /\ Following(u, g, x, forward, D, ball, n, here)
            /\ v.seen \subseteq u.seen
            /\ Near(e, forward) = here.id => Far(e, forward) \in u.seen
        BY <3>7, <3>9, <4>1, FollowKeeps
      <4> QED
        BY <3>8, <4>1, <4>2
    <3>11. ASSUME NEW i \in 1..k, Near(g.edges[i], forward) = here.id
           PROVE  Far(g.edges[i], forward) \in r[k].seen
      <4>1. CASE i = k
        BY <3>7, <3>10, <3>11, <4>1
      <4>2. CASE i # k
        <5>1. i \in 1..(k - 1)
          BY <3>4, <4>2
        <5>2. Far(g.edges[i], forward) \in v.seen
          BY <3>5, <3>6, <3>11, <5>1
        <5> QED
          BY <3>10, <5>2
      <4> QED
        BY <4>1, <4>2
    <3> QED
      BY <3>2, <3>10, <3>11
  <2>10. Good(m)
    BY <2>5, <2>9
  <2>11. PICK v : v = r[m]
    OBVIOUS
  <2>12. Following(v, g, x, forward, D, ball, n, here)
    BY <2>10, <2>11
  <2>13. Neighbours(g, here.id, forward) \subseteq v.seen
    <3> SUFFICES ASSUME NEW e \in Range(g.edges), Near(e, forward) = here.id
                 PROVE  Far(e, forward) \in v.seen
      BY DEF Neighbours
    <3>1. PICK i \in 1..m : e = g.edges[i]
      BY <2>5 DEF Range
    <3> QED
      BY <2>10, <2>11, <3>1
  <2>14. Searching(v, g, x, forward, D, ball, n + 1)
    BY <2>12, <2>13, DoneWith DEF Following
  <2> QED
    BY <2>6, <2>11, <2>14
<1> QED
  BY <1>11, <1>12

LEMMA BeginningSearches ==
  ASSUME NEW g, NEW x, NEW forward, NEW D, NEW ball, Search(g, x, forward, D, ball)
  PROVE  Searching(Beginning(x), g, x, forward, D, ball, 0)
<1>1. PICK w : w = Beginning(x)
  OBVIOUS
<1>2. PICK start \in [id : DOMAIN g.nodes, depth : 0..D] : start = [id |-> x, depth |-> 0]
  <2>1. x \in DOMAIN g.nodes /\ 0 \in 0..D
    BY DEF Search
  <2> QED
    BY ONLY <2>1
<1>3. /\ w = [seen |-> w.seen, out |-> w.out, queue |-> w.queue]
      /\ w.seen = {x} /\ w.out = <<>> /\ w.queue = <<start>>
  BY <1>1, <1>2 DEF Beginning
<1>4. /\ w.out \in Seq([id : DOMAIN g.nodes, depth : 1..D]) /\ Len(w.out) = 0
      /\ w.queue \in Seq([id : DOMAIN g.nodes, depth : 0..D]) /\ Len(w.queue) = 1
  BY <1>3
<1>5. Entry(x, w.out, 0) = start /\ w.queue[1] = start
  BY <1>2, <1>3 DEF Entry
<1>6. Queued(w, x, 0)
  <2>1. \A i \in 1..1 : w.queue[i] = Entry(x, w.out, 0 + i - 1)
    <3>1. \A i \in 1..1 : i = 1 /\ 0 + i - 1 = 0
      OBVIOUS
    <3> QED
      BY <1>5, <3>1
  <2>2. 0 \in 0..(0 + 1) /\ 1 = 0 + 1 - 0
    OBVIOUS
  <2> QED
    BY <1>4, <2>1, <2>2 DEF Queued
<1>7. FoundOnce(w, g, x, D)
  <2>1. 1..0 = {}
    OBVIOUS
  <2> QED
    BY <1>3, <1>4, <2>1 DEF FoundOnce
<1>8. ByDistance(w, ball) /\ Exhausted(w, g, x, forward, D, 0) /\ UpTo(w, Entry(x, w.out, 0).depth + 1)
  BY <1>4 DEF ByDistance, Exhausted, UpTo
<1> QED
  BY <1>1, <1>6, <1>7, <1>8 DEF Searching

\* There are no more entries than nodes.
LEMMA FewEntries ==
  ASSUME NEW g, NEW x \in DOMAIN g.nodes, NEW D, NEW w, FoundOnce(w, g, x, D),
         IsFiniteSet(DOMAIN g.nodes)
  PROVE  /\ Len(w.out) \in Nat
         /\ Len(w.out) + 1 <= Cardinality(DOMAIN g.nodes)
         /\ Cardinality({w.out[i].id : i \in 1..Len(w.out)}) = Len(w.out)
<1> DEFINE found == {w.out[i].id : i \in 1..Len(w.out)}
           f == [i \in 1..Len(w.out) |-> w.out[i].id]
<1>1. Len(w.out) \in Nat /\ (\A i \in 1..Len(w.out) : w.out[i] \in [id : DOMAIN g.nodes, depth : 1..D])
  BY LenProperties, ElementOfSeq DEF FoundOnce
<1>2. f \in Bijection(1..Len(w.out), found)
  <2>1. f \in [1..Len(w.out) -> found] /\ \A y \in found : \E i \in 1..Len(w.out) : f[i] = y
    OBVIOUS
  <2>2. \A i, j \in 1..Len(w.out) : f[i] = f[j] => i = j
    BY DEF FoundOnce
  <2> HIDE DEF f, found
  <2> QED
    BY <2>1, <2>2 DEF Bijection, Injection, Surjection, IsInjective
<1> HIDE DEF f
<1>3. IsFiniteSet(1..Len(w.out)) /\ Cardinality(1..Len(w.out)) = Len(w.out)
  BY <1>1, FS_Interval
<1>4. IsFiniteSet(found) /\ Cardinality(found) = Len(w.out)
  <2> HIDE DEF found
  <2>1. ExistsBijection(1..Len(w.out), found)
    BY <1>2 DEF ExistsBijection
  <2> QED
    BY <1>3, <2>1, FS_Bijection
<1>5. x \notin found /\ found \cup {x} \in SUBSET (DOMAIN g.nodes)
  BY <1>1 DEF FoundOnce
<1> HIDE DEF found
<1>6. Cardinality(found \cup {x}) = Len(w.out) + 1
  BY <1>4, <1>5, FS_AddElement
<1>7. Cardinality(found \cup {x}) <= Cardinality(DOMAIN g.nodes)
  BY <1>5, FS_Subset
<1> QED
  BY <1>1, <1>4, <1>6, <1>7 DEF found

\* The loop is over after as many turns as there are nodes.

\* The loop is over: nothing is queued, or the limit was reached.
Ended(w, g, x, forward, D, ball) ==
  \E n \in Nat : /\ Searching(w, g, x, forward, D, ball, n)
                 /\ w.queue = <<>> \/ Len(w.out) >= MaxResults

\* It is over after as many turns as there are nodes.
LEMMA WalkEnds ==
  ASSUME NEW g, NEW x, NEW forward, NEW asked, NEW ball, Search(g, x, forward, Clamp(asked), ball)
  PROVE  \E w : Ended(w, g, x, forward, Clamp(asked), ball) /\ Walk(g, x, forward, asked) = w.out
<1> DEFINE D == Clamp(asked)
           Over(w) == w.queue = <<>> \/ Len(w.out) >= MaxResults
           In(w, n) == Searching(w, g, x, forward, D, ball, n)
<1>1. PICK N \in Nat : N = Cardinality(DOMAIN g.nodes)
  BY FS_CardinalityType DEF Search, IsGraph
<1>2. PICK r : /\ r[0] = Beginning(x)
               /\ \A i \in 1..N : r[i] = Turn(g, r[i - 1], forward, D)
               /\ Walk(g, x, forward, asked) = r[N].out
  BY <1>1, WalkSteps
<1> DEFINE Good(k) == \E n \in Nat : In(r[k], n) /\ (n = k \/ Over(r[k]))
           bad == {k \in 0..N : ~Good(k)}
<1>3. bad = {}
  <2> SUFFICES ASSUME bad # {} PROVE FALSE
    OBVIOUS
  <2>1. PICK k \in bad : \A j \in bad : k <= j
    <3>1. bad \subseteq Nat
      OBVIOUS
    <3> HIDE DEF bad
    <3> QED
      BY <3>1, LeastNumber
  <2>2. k \in 0..N /\ ~Good(k)
    BY <2>1
  <2>3. k # 0
    <3>1. In(Beginning(x), 0)
      BY BeginningSearches
    <3> HIDE DEF In, Over
    <3>2. Good(0)
      BY <1>2, <3>1
    <3> QED
      BY <2>2, <3>2
  <2>4. k - 1 \in 0..N /\ k - 1 \notin bad /\ k \in 1..N
    BY <2>1, <2>2, <2>3
  <2>5. Good(k - 1)
    BY <2>4
  <2> HIDE DEF In
  <2>6. PICK v : v = r[k - 1]
    OBVIOUS
  <2>7. PICK n \in Nat : In(v, n) /\ (n = k - 1 \/ Over(v))
    BY <2>5, <2>6
  <2>8. r[k] = Turn(g, v, forward, D)
    BY <1>2, <2>4, <2>6
  <2>9. CASE Over(v)
    <3>1. r[k] = v
      BY <2>8, <2>9 DEF Turn
    <3> QED
      BY <2>2, <2>7, <2>9, <3>1
  <2>10. CASE ~Over(v)
    <3>1. r[k] = Visit(g, v, forward, D)
      BY <2>8, <2>10 DEF Turn
    <3>2. n = k - 1
      BY <2>7, <2>10
    <3>3. In(Visit(g, v, forward, D), n + 1)
      <4>1. v.queue # <<>>
        BY <2>10
      <4> QED
        BY <2>7, <4>1, VisitKeeps DEF In
    <3>4. n + 1 = k /\ k \in Nat
      BY <2>4, <3>2
    <3> QED
      BY <2>2, <3>1, <3>3, <3>4
  <2> QED
    BY <2>9, <2>10
<1>4. Good(N)
  BY <1>1, <1>3
<1>5. PICK w : w = r[N]
  OBVIOUS
<1>6. PICK n \in Nat : In(w, n) /\ (n = N \/ Over(w))
  BY <1>4, <1>5
<1>7. Over(w)
  <2> SUFFICES ASSUME n = N, w.queue # <<>> PROVE FALSE
    BY <1>6
  <2>1. Queued(w, x, n) /\ FoundOnce(w, g, x, D)
    BY <1>6 DEF Searching
  <2>2. x \in DOMAIN g.nodes /\ IsFiniteSet(DOMAIN g.nodes)
    BY DEF Search, IsGraph
  <2>3. Len(w.out) \in Nat /\ Len(w.out) + 1 <= N
    BY <1>1, <2>1, <2>2, FewEntries
  <2>4. Len(w.queue) \in Nat \ {0}
    BY <2>1, EmptySeq DEF FoundOnce
  <2>5. Len(w.queue) = Len(w.out) + 1 - n
    BY <2>1 DEF Queued
  <2> QED
    BY <2>3, <2>4, <2>5
<1> QED
  BY <1>2, <1>5, <1>6, <1>7 DEF Ended

\* However deep is asked, the search stays within its limits.
LEMMA Clamped == ASSUME NEW asked \in Int PROVE Clamp(asked) \in 1..MaxDepth
  BY GraphAssumption DEF Clamp

\* What NearestFirst says of the entries of a walk.
ShownInOrder(out, ball, x, D) ==
  LET found == {out[i].id : i \in DOMAIN out}
      Nearer(y, n) == y \in ball[n]
  IN /\ Cardinality(found) = Len(out)
     /\ found \subseteq ball[D] \ {x}
     /\ \A i \in DOMAIN out : Nearer(out[i].id, out[i].depth) /\ ~Nearer(out[i].id, out[i].depth - 1)
     /\ Len(out) < MaxResults => found = ball[D] \ {x}
     /\ \A y \in ball[D] \ (found \cup {x}), i \in DOMAIN out : ~Nearer(y, out[i].depth - 1)

LEMMA Shown ==
  ASSUME NEW x, NEW D, NEW ball, NEW out, NEW L, L = Len(out), DOMAIN out = 1..L,
         NEW found, found = {out[i].id : i \in 1..L}, Cardinality(found) = L,
         found \subseteq ball[D] \ {x},
         \A i \in 1..L : out[i].id \in ball[out[i].depth] /\ out[i].id \notin ball[out[i].depth - 1],
         L < MaxResults => ball[D] \subseteq found \cup {x},
         \A y \in ball[D] \ (found \cup {x}), i \in 1..L : y \notin ball[out[i].depth - 1]
  PROVE  ShownInOrder(out, ball, x, D)
<1>1. L < MaxResults => found = ball[D] \ {x}
  OBVIOUS
<1>2. found = {out[i].id : i \in DOMAIN out}
  OBVIOUS
<1>3. \A i \in DOMAIN out : out[i].id \in ball[out[i].depth] /\ ~(out[i].id \in ball[out[i].depth - 1])
  OBVIOUS
<1>4. \A y \in ball[D] \ (found \cup {x}), i \in DOMAIN out : ~(y \in ball[out[i].depth - 1])
  OBVIOUS
<1>5. Cardinality(found) = Len(out) /\ (Len(out) < MaxResults => found = ball[D] \ {x})
  BY <1>1
<1> QED
  BY <1>2, <1>3, <1>4, <1>5, Zenon DEF ShownInOrder

\* The walks of the explorer, over any graph, either way, however deep.
\* (_walk, depends_on, impact)
LEMMA WalksAreNearestFirst ==
  ASSUME NEW g, IsGraph(g), NEW x \in DOMAIN g.nodes, NEW forward \in BOOLEAN, NEW asked \in Int
  PROVE  NearestFirst(g, x, forward, asked)
<1>1. PICK D \in 1..MaxDepth : D = Clamp(asked)
  BY Clamped
<1>2. PICK ball : ball = Within(g, x, forward)
  OBVIOUS
<1>3. MaxDepth \in Nat \ {0} /\ MaxResults \in Nat
  BY GraphAssumption
<1>4. Search(g, x, forward, D, ball)
  <2>1. Balls(ball, MaxDepth, g, x, forward)
    BY <1>2, WithinIsBalls
  <2>2. \A k \in 0..MaxDepth :
           ball[k] = IF k = 0 THEN {x} ELSE ball[k - 1] \cup UNION {Neighbours(g, y, forward) : y \in ball[k - 1]}
    <3>1. PICK next : next = [k \in 0..MaxDepth |->
               IF k = 0 THEN {x} ELSE ball[k - 1] \cup UNION {Neighbours(g, y, forward) : y \in ball[k - 1]}]
      OBVIOUS
    <3>2. ball = next
      BY <2>1, <3>1, Zenon DEF Balls
    <3>3. \A k \in 0..MaxDepth : next[k] =
               IF k = 0 THEN {x} ELSE ball[k - 1] \cup UNION {Neighbours(g, y, forward) : y \in ball[k - 1]}
      BY ONLY <3>1
    <3> QED
      BY <3>2, <3>3, Zenon
  <2>3. ball[0] = {x}
    <3>1. 0 \in 0..MaxDepth
      BY <1>3
    <3> QED
      BY <2>2, <3>1, Zenon
  <2>4. \A k \in 1..D : k \in 0..MaxDepth /\ k # 0
    BY <1>1, <1>3
  <2>5. \A k \in 1..D : ball[k] = ball[k - 1] \cup UNION {Neighbours(g, y, forward) : y \in ball[k - 1]}
    BY <2>2, <2>4
  <2> QED
    BY <1>1, <1>3, <2>3, <2>5 DEF Search
<1>5. PICK w : Ended(w, g, x, forward, D, ball) /\ Walk(g, x, forward, asked) = w.out
  BY <1>1, <1>4, WalkEnds
<1>6. PICK n \in Nat : /\ Searching(w, g, x, forward, D, ball, n)
                       /\ w.queue = <<>> \/ Len(w.out) >= MaxResults
  BY <1>5 DEF Ended
<1>7. /\ Queued(w, x, n) /\ FoundOnce(w, g, x, D) /\ ByDistance(w, ball)
      /\ n <= Len(w.out) => UpTo(w, Entry(x, w.out, n).depth + 1)
  BY <1>6 DEF Searching
<1>8. PICK L \in Nat : L = Len(w.out) /\ DOMAIN w.out = 1..L
  BY <1>7, LenProperties DEF FoundOnce
<1>9. PICK found : found = {w.out[i].id : i \in 1..L}
  OBVIOUS
<1>10. Cardinality(found) = L
  BY <1>7, <1>8, <1>9, FewEntries DEF IsGraph
<1>11. w.seen = found \cup {x} /\ x \notin found
  BY <1>7, <1>8, <1>9 DEF FoundOnce
<1>12. \A i \in 1..L : w.out[i] \in [id : DOMAIN g.nodes, depth : 1..D]
  BY <1>7, <1>8, ElementOfSeq DEF FoundOnce
<1>13. \A i \in 1..L : w.out[i].id \in ball[w.out[i].depth] /\ w.out[i].id \notin ball[w.out[i].depth - 1]
  BY <1>7, <1>8 DEF ByDistance
<1>14. found \subseteq ball[D] \ {x}
  <2> SUFFICES ASSUME NEW i \in 1..L PROVE w.out[i].id \in ball[D]
    BY <1>9, <1>11
  <2>1. w.out[i].depth \in 0..D /\ D \in 0..D
    BY <1>12
  <2>2. ball[w.out[i].depth] \subseteq ball[D]
    BY <1>4, <2>1, BallsGrow
  <2> QED
    BY <1>13, <2>2
<1>15. /\ Reached(w, x, D, n) \in 0..D
       /\ \A k \in 0..Reached(w, x, D, n) : ball[k] \subseteq found \cup {x}
  BY <1>4, <1>6, <1>11, ReachedIsSeen
<1>16. ASSUME n > L PROVE ShownInOrder(w.out, ball, x, D)
  <2>1. Reached(w, x, D, n) = D
    BY <1>8, <1>16 DEF Reached
  <2>2. ball[D] \subseteq found \cup {x}
    BY <1>15, <2>1
  <2> QED
    <3>1. L < MaxResults => ball[D] \subseteq found \cup {x}
      BY <2>2
    <3>2. \A y \in ball[D] \ (found \cup {x}), i \in 1..L : y \notin ball[w.out[i].depth - 1]
      BY <2>2
    <3> QED
      BY <1>8, <1>9, <1>10, <1>13, <1>14, <3>1, <3>2, Shown
<1>17. ASSUME n <= L PROVE ShownInOrder(w.out, ball, x, D)
  <2>1. L >= MaxResults
    <3>1. Len(w.queue) = L + 1 - n
      BY <1>7, <1>8 DEF Queued
    <3>2. w.queue # <<>>
      BY <1>8, <1>17, <3>1
    <3> QED
      BY <1>6, <1>8, <3>2
  <2>2. ~(L < MaxResults)
    BY <1>3, <2>1
  <2>3. PICK d \in 0..D : d = Entry(x, w.out, n).depth /\ d = Reached(w, x, D, n)
    BY <1>8, <1>15, <1>17 DEF Reached
  <2>4. ASSUME NEW y \in ball[D] \ (found \cup {x}), NEW i \in 1..L
        PROVE  y \notin ball[w.out[i].depth - 1]
    <3>1. w.out[i].depth <= d + 1
      BY <1>7, <1>8, <1>17, <2>3 DEF UpTo
    <3>2. w.out[i].depth - 1 \in 0..d
      BY <1>12, <2>3, <3>1
    <3>3. ball[w.out[i].depth - 1] \subseteq found \cup {x}
      BY <1>15, <2>3, <3>2
    <3> QED
      BY <2>4, <3>3
  <2> QED
    <3>1. L < MaxResults => ball[D] \subseteq found \cup {x}
      BY <2>2
    <3>2. \A y \in ball[D] \ (found \cup {x}), i \in 1..L : y \notin ball[w.out[i].depth - 1]
      BY <2>4
    <3> QED
      BY <1>8, <1>9, <1>10, <1>13, <1>14, <3>1, <3>2, Shown
<1>18. ShownInOrder(w.out, ball, x, D)
  BY <1>16, <1>17
<1>19. ShownInOrder(Walk(g, x, forward, asked), Within(g, x, forward), x, Clamp(asked))
  BY <1>1, <1>2, <1>5, <1>18
<1> QED
  BY <1>19 DEF NearestFirst, ShownInOrder

-----------------------------------------------------------------------------
(* Writing a graph and reading it back *)

\* The first i edges of a graph are loaded.
Loaded(v, g, i) ==
  /\ v = [nodes |-> g.nodes, edges |-> v.edges]
  /\ v.edges \in Seq(Range(g.edges)) /\ Len(v.edges) = i
  /\ \A k \in 1..i : v.edges[k] = g.edges[k]

LEMMA LoadedOneMore ==
  ASSUME NEW g, IsGraph(g), NEW i \in 1..Len(g.edges), NEW v, Loaded(v, g, i - 1)
  PROVE  Loaded(AddEdge(v, g.edges[i]), g, i)
<1>1. PICK e \in Range(g.edges) : e = g.edges[i]
  BY DEF IsGraph, IsList, Range
<1>2. e.src # e.dst /\ e.src \in DOMAIN v.nodes /\ e.dst \in DOMAIN v.nodes
  BY <1>1 DEF IsGraph, Loaded
<1>3. PICK n \in Nat : n = Len(g.edges) /\ DOMAIN g.edges = 1..n
  BY LenProperties DEF IsGraph, IsList
<1>4. ~Contains(v.edges, e)
  <2> SUFFICES ASSUME NEW k \in 1..Len(v.edges), v.edges[k] = e PROVE FALSE
    BY DEF Contains
  <2>1. k \in 1..(i - 1)
    BY DEF Loaded
  <2>2. g.edges[k] = g.edges[i]
    BY <1>1, <2>1 DEF Loaded
  <2>3. k \in 1..n /\ i \in 1..n /\ k # i
    BY <1>3, <2>1
  <2> QED
    BY <1>3, <2>2, <2>3 DEF IsGraph
<1>5. AddEdge(v, e) = [v EXCEPT !.edges = Append(@, e)]
  BY <1>2, <1>4 DEF AddEdge
<1>6. PICK S : S = Range(g.edges)
  OBVIOUS
<1>7. PICK o \in Seq(S) : o = v.edges /\ Len(o) = i - 1
  BY <1>6 DEF Loaded
<1>8. /\ Append(o, e) \in Seq(S) /\ Len(Append(o, e)) = Len(o) + 1
      /\ \A k \in 1..Len(o) : Append(o, e)[k] = o[k]
      /\ Append(o, e)[Len(o) + 1] = e
  <2>1. e \in S
    BY <1>6
  <2> QED
    BY ONLY <1>7, <2>1, AppendProperties
<1>9. PICK w : w = Append(o, e)
  OBVIOUS
<1>10. AddEdge(v, e) = [nodes |-> g.nodes, edges |-> w]
  <2>1. v = [nodes |-> g.nodes, edges |-> v.edges]
    BY DEF Loaded
  <2>2. w = Append(v.edges, e)
    BY <1>7, <1>9
  <2>3. AddEdge(v, e) = [v EXCEPT !.edges = w]
    BY <1>5, <2>2
  <2>4. [v EXCEPT !.edges = w] = [nodes |-> g.nodes, edges |-> w]
    BY ONLY <2>1
  <2> QED
    BY ONLY <2>3, <2>4
<1>11. i - 1 \in Nat /\ (i - 1) + 1 = i
  BY <1>3
<1>12. w \in Seq(S) /\ Len(w) = i /\ (\A k \in 1..(i - 1) : w[k] = o[k]) /\ w[i] = e
  BY <1>7, <1>8, <1>9, <1>11
<1>13. \A k \in 1..(i - 1) : o[k] = g.edges[k]
  BY <1>7 DEF Loaded
<1>14. \A k \in 1..i : w[k] = g.edges[k]
  <2> SUFFICES ASSUME NEW k \in 1..i PROVE w[k] = g.edges[k]
    OBVIOUS
  <2>1. CASE k = i
    BY <1>1, <1>12, <2>1
  <2>2. CASE k # i
    <3>1. k \in 1..(i - 1)
      BY <1>11, <2>2
    <3> QED
      BY <1>12, <1>13, <3>1
  <2> QED
    BY <2>1, <2>2
<1>15. PICK u : u = AddEdge(v, e)
  OBVIOUS
<1>16. u = [nodes |-> g.nodes, edges |-> u.edges] /\ u.edges = w
  BY <1>10, <1>15
<1>17. Loaded(u, g, i)
  BY <1>6, <1>12, <1>14, <1>16 DEF Loaded
<1> QED
  BY <1>1, <1>15, <1>17

\* A graph that is written and read back is the graph it was.
LEMMA ReloadIsTheGraph ==
  ASSUME NEW g, IsGraph(g)
  PROVE  Reload(g) = g
<1>1. PICK n \in Nat : n = Len(g.edges) /\ DOMAIN g.edges = 1..n
  BY LenProperties DEF IsGraph, IsList
<1>2. PICK r : /\ Steps(r, [name |-> "edge"], [nodes |-> g.nodes, edges |-> <<>>], g.edges)
               /\ Reload(g) = r[Len(g.edges)]
  BY <1>1, LoadingSteps
<1>3. r[0] = [nodes |-> g.nodes, edges |-> <<>>] /\ \A i \in 1..n : r[i] = AddEdge(r[i - 1], g.edges[i])
  BY <1>1, <1>2 DEF Steps, Applied
<1> DEFINE bad == {k \in 0..n : ~Loaded(r[k], g, k)}
<1>4. bad = {}
  <2> SUFFICES ASSUME bad # {} PROVE FALSE
    OBVIOUS
  <2>1. PICK k \in bad : \A j \in bad : k <= j
    <3>1. bad \subseteq Nat
      OBVIOUS
    <3> HIDE DEF bad
    <3> QED
      BY <3>1, LeastNumber
  <2>2. k # 0
    <3>1. PICK v : v = r[0]
      OBVIOUS
    <3>2. v.edges = <<>> /\ v.nodes = g.nodes /\ v = [nodes |-> g.nodes, edges |-> v.edges]
      BY <1>3, <3>1
    <3>3. Loaded(v, g, 0)
      BY <3>2 DEF Loaded
    <3> QED
      BY <2>1, <3>1, <3>3
  <2>3. k - 1 \in 0..n /\ k - 1 \notin bad /\ k \in 1..n
    BY <2>1, <2>2
  <2>4. Loaded(r[k - 1], g, k - 1)
    BY <2>3
  <2>5. Loaded(r[k], g, k)
    <3> HIDE DEF bad
    <3> QED
      BY <1>1, <1>3, <2>3, <2>4, LoadedOneMore
  <2> QED
    BY <2>1, <2>5
<1>5. Loaded(Reload(g), g, n)
  BY <1>1, <1>2, <1>4
<1>6. PICK v : v = Reload(g)
  OBVIOUS
<1>7. v.edges = g.edges
  <2>1. PICK S : S = Range(g.edges)
    OBVIOUS
  <2>2. PICK a \in Seq(S) : a = v.edges /\ Len(a) = n /\ \A k \in 1..n : a[k] = g.edges[k]
    BY <1>5, <1>6, <2>1 DEF Loaded
  <2>3. PICK b \in Seq(S) : b = g.edges /\ Len(b) = n
    BY <1>1, <2>1 DEF IsGraph, IsList
  <2>4. \A k \in 1..n : a[k] = b[k]
    BY <2>2, <2>3
  <2>5. a = b
    BY <2>2, <2>3, <2>4, SeqEqual
  <2> QED
    BY <2>2, <2>3, <2>5
<1>8. v = [nodes |-> g.nodes, edges |-> v.edges]
  BY <1>5, <1>6 DEF Loaded
<1>9. g = [nodes |-> g.nodes, edges |-> g.edges]
  BY DEF IsGraph
<1> QED
  BY <1>6, <1>7, <1>8, <1>9

-----------------------------------------------------------------------------
(* What is settled in a graph *)

\* Nothing doubts the node any more.
Settled(g, x) == x \in DOMAIN g.nodes /\ ~g.nodes[x].missing

\* A mention that vouches for its node.
Vouches(m) == m.standing = "declared" /\ "missing" \in DOMAIN m.node

LEMMA AddNodeKeeps ==
  ASSUME NEW g, IsGraph(g), NEW id, NEW n
  PROVE  /\ IsGraph(AddNode(g, id, n))
         /\ AddNode(g, id, n).edges = g.edges
         /\ DOMAIN AddNode(g, id, n).nodes = DOMAIN g.nodes \cup {id}
         /\ AddNode(g, id, n).nodes[id].missing = ((IF id \in DOMAIN g.nodes THEN g.nodes[id] ELSE n).missing /\ n.missing)
         /\ \A x \in DOMAIN g.nodes : x # id => AddNode(g, id, n).nodes[x] = g.nodes[x]
<1>1. PICK h : h = AddNode(g, id, n)
  OBVIOUS
<1>2. g = [nodes |-> g.nodes, edges |-> g.edges]
  BY DEF IsGraph
<1> DEFINE known == IF id \in DOMAIN g.nodes THEN g.nodes[id] ELSE n
<1>3. PICK fresh : fresh = [external |-> known.external \/ n.external, missing |-> known.missing /\ n.missing,
                            task |-> Or(known.task, n.task), risk |-> Or(known.risk, n.risk),
                            unresolved |-> known.unresolved \cup n.unresolved]
  OBVIOUS
<1>4. fresh.missing = (known.missing /\ n.missing)
  BY <1>3
<1>5. PICK nodes : nodes = [x \in DOMAIN g.nodes \cup {id} |-> IF x # id THEN g.nodes[x] ELSE fresh]
  OBVIOUS
<1>6. h = [g EXCEPT !.nodes = nodes]
  BY <1>1, <1>3, <1>5 DEF AddNode
<1>7. h = [nodes |-> nodes, edges |-> g.edges] /\ h.nodes = nodes /\ h.edges = g.edges
  BY <1>2, <1>6
<1>8. DOMAIN nodes = DOMAIN g.nodes \cup {id} /\ nodes[id] = fresh /\ \A x \in DOMAIN g.nodes : x # id => nodes[x] = g.nodes[x]
  BY <1>5
<1>9. IsFiniteSet(DOMAIN g.nodes \cup {id})
  BY FS_AddElement DEF IsGraph
<1>10. IsGraph(h)
  BY <1>7, <1>8, <1>9 DEF IsGraph
<1> QED
  BY <1>1, <1>4, <1>7, <1>8, <1>10

LEMMA AddEdgeKeeps ==
  ASSUME NEW g, IsGraph(g), NEW e
  PROVE  IsGraph(AddEdge(g, e)) /\ AddEdge(g, e).nodes = g.nodes
<1> DEFINE skipped == e.src = e.dst \/ ~({e.src, e.dst} \subseteq DOMAIN g.nodes) \/ Contains(g.edges, e)
<1>1. CASE skipped
  BY <1>1 DEF AddEdge
<1>2. CASE ~skipped
  <2>1. PICK h : h = AddEdge(g, e)
    OBVIOUS
  <2>2. h = [nodes |-> g.nodes, edges |-> Append(g.edges, e)]
    BY <1>2, <2>1 DEF AddEdge, IsGraph
  <2>3. PICK S : S = Range(g.edges)
    OBVIOUS
  <2>4. PICK o \in Seq(S \cup {e}) : o = g.edges
    <3>1. g.edges \in Seq(S)
      BY <2>3 DEF IsGraph, IsList
    <3> QED
      BY <3>1
  <2>5. PICK n \in Nat : n = Len(o) /\ DOMAIN o = 1..n
    BY LenProperties
  <2>6. PICK a : a = Append(o, e)
    OBVIOUS
  <2>7. /\ a \in Seq(S \cup {e}) /\ Len(a) = n + 1 /\ DOMAIN a = 1..(n + 1)
        /\ \A k \in 1..n : a[k] = o[k]
        /\ a[n + 1] = e
    <3>1. PICK T : T = S \cup {e}
      OBVIOUS
    <3>2. o \in Seq(T) /\ e \in T
      BY <3>1
    <3>3. /\ Append(o, e) \in Seq(T) /\ Len(Append(o, e)) = Len(o) + 1
          /\ \A k \in 1..Len(o) : Append(o, e)[k] = o[k]
          /\ Append(o, e)[Len(o) + 1] = e
      BY ONLY <3>2, AppendProperties
    <3>4. a \in Seq(T) /\ Len(a) = n + 1 /\ (\A k \in 1..n : a[k] = o[k]) /\ a[n + 1] = e
      BY <2>5, <2>6, <3>3
    <3>5. DOMAIN a = 1..(n + 1)
      BY <3>4, LenProperties
    <3> QED
      BY <3>1, <3>4, <3>5
  <2>8. Range(a) = S \cup {e}
    <3>1. \A k \in 1..n : a[k] \in S
      BY <2>3, <2>4, <2>5, <2>7 DEF Range
    <3>2. \A y \in S : \E k \in 1..(n + 1) : a[k] = y
      BY <2>3, <2>4, <2>5, <2>7 DEF Range
    <3>3. \A k \in 1..(n + 1) : k \in 1..n \/ k = n + 1
      OBVIOUS
    <3>4. n + 1 \in 1..(n + 1)
      OBVIOUS
    <3> QED
      BY <2>7, <3>1, <3>2, <3>3, <3>4 DEF Range
  <2>9. \A k \in 1..n : o[k] # e
    <3>1. ~\E k \in 1..Len(o) : o[k] = e
      BY <1>2, <2>4 DEF Contains
    <3> QED
      BY <2>5, <3>1
  <2>10. \A i, j \in 1..(n + 1) : a[i] = a[j] => i = j
    <3> SUFFICES ASSUME NEW i \in 1..(n + 1), NEW j \in 1..(n + 1), a[i] = a[j] PROVE i = j
      OBVIOUS
    <3>1. CASE i \in 1..n /\ j \in 1..n
      BY <2>4, <2>5, <2>7, <3>1 DEF IsGraph
    <3>2. CASE i = n + 1 /\ j \in 1..n
      BY <2>7, <2>9, <3>2
    <3>3. CASE i \in 1..n /\ j = n + 1
      BY <2>7, <2>9, <3>3
    <3>4. CASE i = n + 1 /\ j = n + 1
      BY <3>4
    <3> QED
      BY <3>1, <3>2, <3>3, <3>4
  <2>11. h = [nodes |-> h.nodes, edges |-> h.edges] /\ h.nodes = g.nodes /\ h.edges = a
    BY <2>2, <2>4, <2>6
  <2>12. \A d \in S \cup {e} : d.src # d.dst /\ d.src \in DOMAIN h.nodes /\ d.dst \in DOMAIN h.nodes
    BY <1>2, <2>3, <2>11 DEF IsGraph
  <2>13. IsGraph(h)
    BY <2>7, <2>8, <2>10, <2>11, <2>12 DEF IsGraph, IsList
  <2> QED
    BY <2>1, <2>11, <2>13
<1> QED
  BY <1>1, <1>2

\* What is mentioned becomes a node, and what was settled stays settled.
LEMMA SeeKeeps ==
  ASSUME NEW g, IsGraph(g), NEW m
  PROVE  /\ IsGraph(See(g, m))
         /\ \A x : Settled(g, x) => Settled(See(g, m), x)
         /\ Vouches(m) => Settled(See(g, m), m.id)
<1> DEFINE missing == m.standing = "missing" \/ (m.standing = "reference" /\ m.id \notin DOMAIN g.nodes)
<1>1. PICK n : n = [m.node EXCEPT !.missing = missing]
  OBVIOUS
<1>2. PICK known : known = AddNode(g, m.id, n)
  OBVIOUS
<1>3. IsGraph(See(g, m)) /\ See(g, m).nodes = known.nodes
  <2>1. IsGraph(known)
    BY <1>2, AddNodeKeeps
  <2>2. See(g, m) = known \/ \E e : See(g, m) = AddEdge(known, e)
    BY <1>1, <1>2 DEF See
  <2> QED
    BY <2>1, <2>2, AddEdgeKeeps
<1>4. /\ DOMAIN known.nodes = DOMAIN g.nodes \cup {m.id}
      /\ known.nodes[m.id].missing = ((IF m.id \in DOMAIN g.nodes THEN g.nodes[m.id] ELSE n).missing /\ n.missing)
      /\ \A x \in DOMAIN g.nodes : x # m.id => known.nodes[x] = g.nodes[x]
  BY <1>2, AddNodeKeeps
<1>5. ASSUME NEW x, Settled(g, x) PROVE Settled(See(g, m), x)
  <2>1. CASE x = m.id
    <3>1. (IF m.id \in DOMAIN g.nodes THEN g.nodes[m.id] ELSE n) = g.nodes[x]
      BY <1>5, <2>1 DEF Settled
    <3>2. ~g.nodes[x].missing
      BY <1>5 DEF Settled
    <3>3. ~known.nodes[m.id].missing
      BY <1>4, <3>1, <3>2
    <3> QED
      BY <1>3, <1>4, <2>1, <3>3 DEF Settled
  <2>2. CASE x # m.id
    BY <1>3, <1>4, <1>5, <2>2 DEF Settled
  <2> QED
    BY <2>1, <2>2
<1>6. ASSUME Vouches(m) PROVE Settled(See(g, m), m.id)
  <2>1. ~missing
    BY <1>6 DEF Vouches
  <2>2. ~n.missing
    <3> HIDE DEF missing
    <3>1. n.missing = missing
      BY <1>1, <1>6 DEF Vouches
    <3> QED
      BY <2>1, <3>1
  <2>3. ~known.nodes[m.id].missing
    BY <1>4, <2>2
  <2> QED
    BY <1>3, <1>4, <2>3 DEF Settled
<1> QED
  BY <1>3, <1>5, <1>6

\* A list of mentions, one after another.
Seen(v, base, s, i) ==
  /\ IsGraph(v)
  /\ \A x : Settled(base, x) => Settled(v, x)
  /\ \A k \in 1..i : Vouches(s[k]) => Settled(v, s[k].id)

LEMMA SeeingKeeps ==
  ASSUME NEW base, IsGraph(base), NEW s, IsList(s)
  PROVE  Seen(FoldLeft(See, base, s), base, s, Len(s))
<1>1. PICK n \in Nat : n = Len(s) /\ DOMAIN s = 1..n
  BY LenProperties DEF IsList
<1>2. PICK r : Steps(r, [name |-> "see"], base, s) /\ FoldLeft(See, base, s) = r[Len(s)]
  BY <1>1, SeeSteps
<1>3. r[0] = base /\ \A i \in 1..n : r[i] = See(r[i - 1], s[i])
  BY <1>1, <1>2 DEF Steps, Applied
<1> DEFINE bad == {k \in 0..n : ~Seen(r[k], base, s, k)}
<1>4. bad = {}
  <2> SUFFICES ASSUME bad # {} PROVE FALSE
    OBVIOUS
  <2>1. PICK k \in bad : \A j \in bad : k <= j
    <3>1. bad \subseteq Nat
      OBVIOUS
    <3> HIDE DEF bad
    <3> QED
      BY <3>1, LeastNumber
  <2>2. k # 0
    BY <1>3, <2>1 DEF Seen
  <2>3. k - 1 \in 0..n /\ k - 1 \notin bad /\ k \in 1..n
    BY <2>1, <2>2
  <2>4. Seen(r[k - 1], base, s, k - 1) /\ r[k] = See(r[k - 1], s[k])
    BY <1>3, <2>3
  <2>5. Seen(r[k], base, s, k)
    <3> HIDE DEF bad
    <3>1. PICK v : v = r[k - 1]
      OBVIOUS
    <3>2. PICK w : w = See(v, s[k]) /\ w = r[k]
      BY <2>4, <3>1
    <3>3. IsGraph(v)
      BY <2>4, <3>1 DEF Seen
    <3>4. /\ IsGraph(w)
          /\ \A x : Settled(v, x) => Settled(w, x)
          /\ Vouches(s[k]) => Settled(w, s[k].id)
      BY <3>2, <3>3, SeeKeeps
    <3>5. \A x : Settled(base, x) => Settled(w, x)
      BY <2>4, <3>1, <3>4 DEF Seen
    <3>6. ASSUME NEW j \in 1..k, Vouches(s[j]) PROVE Settled(w, s[j].id)
      <4>1. CASE j = k
        BY <3>4, <3>6, <4>1
      <4>2. CASE j # k
        <5>1. j \in 1..(k - 1)
          BY <2>3, <3>6, <4>2
        <5> QED
          BY <2>4, <3>1, <3>4, <3>6, <5>1 DEF Seen
      <4> QED
        BY <4>1, <4>2
    <3> QED
      BY <3>2, <3>4, <3>5, <3>6 DEF Seen
  <2> QED
    BY <2>1, <2>5
<1> QED
  BY <1>1, <1>2, <1>4

-----------------------------------------------------------------------------
(* Lists of mentions *)

\* Prefix by prefix: what FlattenSeq computes.
RowPrefixes(seqs, n, g) == g = [i \in 1..n |-> IF i = 1 THEN seqs[i] ELSE g[i - 1] \o seqs[i]]

LEMMA PrefixesExist ==
  ASSUME NEW seqs, NEW n \in Nat
  PROVE  \E g : RowPrefixes(seqs, n, g)
<1> DEFINE bad == {k \in 0..n : ~\E g : RowPrefixes(seqs, k, g)}
<1> SUFFICES ASSUME bad # {} PROVE FALSE
  OBVIOUS
<1>1. PICK k \in bad : \A j \in bad : k <= j
  <2>1. bad \subseteq Nat
    OBVIOUS
  <2> HIDE DEF bad
  <2> QED
    BY <2>1, LeastNumber
<1>2. CASE k = 0
  <2>1. RowPrefixes(seqs, 0, [i \in 1..0 |-> seqs])
    BY DEF RowPrefixes
  <2> QED
    BY <1>1, <1>2, <2>1
<1>3. CASE k # 0
  <2>1. k - 1 \in 0..n /\ k - 1 \notin bad
    BY <1>1, <1>3
  <2>2. PICK f : RowPrefixes(seqs, k - 1, f)
    BY <2>1
  <2> DEFINE g == [i \in 1..k |-> IF i = k THEN (IF k = 1 THEN seqs[k] ELSE f[k - 1] \o seqs[k]) ELSE f[i]]
  <2>3. RowPrefixes(seqs, k, g)
    <3>1. \A i \in 1..k : g[i] = IF i = 1 THEN seqs[i] ELSE g[i - 1] \o seqs[i]
      <4> SUFFICES ASSUME NEW i \in 1..k PROVE g[i] = IF i = 1 THEN seqs[i] ELSE g[i - 1] \o seqs[i]
        OBVIOUS
      <4>1. CASE i = k
        BY <1>3, <4>1
      <4>2. CASE i # k
        <5>1. i \in 1..(k - 1) /\ (i # 1 => i - 1 \in 1..k /\ i - 1 # k)
          BY <1>3, <4>2
        <5>2. f[i] = IF i = 1 THEN seqs[i] ELSE f[i - 1] \o seqs[i]
          BY <2>2, <5>1 DEF RowPrefixes
        <5> QED
          BY <4>2, <5>1, <5>2
      <4> QED
        BY <4>1, <4>2
    <3> HIDE DEF g
    <3>2. g = [i \in 1..k |-> g[i]]
      BY DEF g
    <3> QED
      BY <3>1, <3>2 DEF RowPrefixes
  <2> QED
    BY <1>1, <2>3
<1> QED
  BY <1>2, <1>3

LEMMA FlattenIsLastPrefix ==
  ASSUME NEW seqs, Len(seqs) \in Nat \ {0}
  PROVE  \E g : RowPrefixes(seqs, Len(seqs), g) /\ FlattenSeq(seqs) = g[Len(seqs)]
<1>1. \E g : RowPrefixes(seqs, Len(seqs), g)
  BY PrefixesExist
<1> DEFINE n == Len(seqs)
<1>2. FlattenSeq(seqs) = (CHOOSE g : g = [i \in 1..n |-> IF i = 1 THEN seqs[i] ELSE g[i - 1] \o seqs[i]])[n]
  BY DEF FlattenSeq
<1>3. FlattenSeq(seqs) = (CHOOSE g : RowPrefixes(seqs, n, g))[n]
  BY <1>2 DEF RowPrefixes
<1>4. RowPrefixes(seqs, n, CHOOSE g : RowPrefixes(seqs, n, g))
  <2> HIDE DEF n
  <2> QED
    BY <1>1, Zenon DEF n
<1> QED
  BY <1>3, <1>4

LEMMA ListRange ==
  ASSUME NEW s, IsList(s)
  PROVE  /\ Len(s) \in Nat /\ DOMAIN s = 1..Len(s)
         /\ Range(s) = {s[i] : i \in 1..Len(s)}
<1>1. PICK S : S = Range(s)
  OBVIOUS
<1>2. s \in Seq(S)
  BY <1>1 DEF IsList
<1>3. Len(s) \in Nat /\ DOMAIN s = 1..Len(s)
  BY <1>2, LenProperties
<1> QED
  BY <1>3 DEF Range

\* A sequence is a list.
LEMMA SequenceIsList ==
  ASSUME NEW S, NEW s \in Seq(S)
  PROVE  IsList(s)
<1>1. PICK n \in Nat : n = Len(s) /\ DOMAIN s = 1..n /\ s \in [1..n -> S]
  BY LenProperties
<1>2. s \in [1..n -> Range(s)]
  BY <1>1 DEF Range
<1>3. s \in Seq(Range(s))
  BY <1>1, <1>2, SeqDef
<1> QED
  BY <1>3 DEF IsList

LEMMA OneIsList ==
  ASSUME NEW m
  PROVE  IsList(<<m>>) /\ Range(<<m>>) = {m}
<1>1. <<m>> \in Seq({m})
  OBVIOUS
<1>2. IsList(<<m>>)
  BY <1>1, SequenceIsList
<1>3. Range(<<m>>) = {m}
  BY DEF Range
<1> QED
  BY <1>2, <1>3

LEMMA NoneIsList == IsList(<<>>) /\ Range(<<>>) = {}
<1>1. <<>> \in Seq({})
  OBVIOUS
<1>2. IsList(<<>>)
  BY <1>1, SequenceIsList
<1>3. Range(<<>>) = {}
  BY DEF Range
<1> QED
  BY <1>2, <1>3

LEMMA ListsJoin ==
  ASSUME NEW s, IsList(s), NEW t, IsList(t)
  PROVE  IsList(s \o t) /\ Range(s \o t) = Range(s) \cup Range(t)
<1>1. PICK S : S = Range(s) \cup Range(t)
  OBVIOUS
<1>2. s \in Seq(S) /\ t \in Seq(S)
  <2>1. s \in Seq(Range(s)) /\ t \in Seq(Range(t))
    BY DEF IsList
  <2>2. Seq(Range(s)) \subseteq Seq(S) /\ Seq(Range(t)) \subseteq Seq(S)
    BY <1>1, SeqDef
  <2> QED
    BY <2>1, <2>2
<1>3. PICK m \in Nat : m = Len(s) /\ DOMAIN s = 1..m
  BY <1>2, LenProperties
<1>4. PICK n \in Nat : n = Len(t) /\ DOMAIN t = 1..n
  BY <1>2, LenProperties
<1>5. PICK a : a = s \o t
  OBVIOUS
<1>6. /\ a \in Seq(S) /\ Len(a) = m + n
      /\ \A i \in 1..(m + n) : a[i] = IF i <= m THEN s[i] ELSE t[i - m]
  <2>1. /\ s \o t \in Seq(S) /\ Len(s \o t) = Len(s) + Len(t)
        /\ \A i \in 1 .. Len(s) + Len(t) : (s \o t)[i] = IF i <= Len(s) THEN s[i] ELSE t[i - Len(s)]
    BY ONLY <1>2, ConcatProperties
  <2> QED
    BY <1>3, <1>4, <1>5, <2>1
<1>7. IsList(a) /\ DOMAIN a = 1..(m + n)
  BY <1>6, SequenceIsList, LenProperties
<1>8. \A i \in 1..m : i \in 1..(m + n) /\ i <= m
  OBVIOUS
<1>9. \A i \in 1..n : m + i \in 1..(m + n) /\ ~(m + i <= m) /\ (m + i) - m = i
  OBVIOUS
<1>10. \A i \in 1..(m + n) : i \in 1..m \/ (~(i <= m) /\ i - m \in 1..n)
  OBVIOUS
<1>11. Range(a) = Range(s) \cup Range(t)
  <2>1. \A i \in 1..m : a[i] = s[i]
    BY <1>6, <1>8
  <2>2. \A i \in 1..n : a[m + i] = t[i]
    BY <1>6, <1>9
  <2>3. \A i \in 1..(m + n) : (i \in 1..m /\ a[i] = s[i]) \/ (i - m \in 1..n /\ a[i] = t[i - m])
    BY <1>6, <1>10, <2>1
  <2>4. Range(s) \subseteq Range(a)
    BY <1>3, <1>7, <1>8, <2>1 DEF Range
  <2>5. Range(t) \subseteq Range(a)
    BY <1>4, <1>7, <1>9, <2>2 DEF Range
  <2>6. Range(a) \subseteq Range(s) \cup Range(t)
    BY <1>3, <1>4, <1>7, <2>3 DEF Range
  <2> QED
    BY <2>4, <2>5, <2>6
<1> QED
  BY <1>5, <1>7, <1>11

LEMMA ListsFlatten ==
  ASSUME NEW ss, IsList(ss), \A i \in DOMAIN ss : IsList(ss[i])
  PROVE  /\ IsList(FlattenSeq(ss))
         /\ \A i \in DOMAIN ss : Range(ss[i]) \subseteq Range(FlattenSeq(ss))
<1>1. PICK n \in Nat : n = Len(ss) /\ DOMAIN ss = 1..n
  BY ListRange
<1>2. CASE n = 0
  <2>1. FlattenSeq(ss) = ss
    BY <1>1, <1>2 DEF FlattenSeq
  <2> QED
    BY <1>1, <1>2, <2>1
<1>3. CASE n # 0
  <2>1. PICK g : RowPrefixes(ss, n, g) /\ FlattenSeq(ss) = g[n]
    BY <1>1, <1>3, FlattenIsLastPrefix
  <2>2. \A i \in 1..n : g[i] = IF i = 1 THEN ss[i] ELSE g[i - 1] \o ss[i]
    BY <2>1 DEF RowPrefixes
  <2> DEFINE Good(k) == IsList(g[k]) /\ \A i \in 1..k : Range(ss[i]) \subseteq Range(g[k])
             bad == {k \in 1..n : ~Good(k)}
  <2>3. bad = {}
    <3> SUFFICES ASSUME bad # {} PROVE FALSE
      OBVIOUS
    <3>1. PICK k \in bad : \A j \in bad : k <= j
      <4>1. bad \subseteq Nat
        OBVIOUS
      <4> HIDE DEF bad
      <4> QED
        BY <4>1, LeastNumber
    <3>2. k \in 1..n /\ ~Good(k) /\ IsList(ss[k])
      BY <1>1, <3>1
    <3>3. CASE k = 1
      <4>1. g[k] = ss[k]
        BY <2>2, <3>2, <3>3
      <4>2. \A i \in 1..k : i = k
        BY <3>3
      <4> QED
        BY <3>2, <4>1, <4>2
    <3>4. CASE k # 1
      <4>1. k - 1 \in 1..n /\ k - 1 \notin bad
        BY <3>1, <3>2, <3>4
      <4>2. IsList(g[k - 1]) /\ \A i \in 1..(k - 1) : Range(ss[i]) \subseteq Range(g[k - 1])
        BY <4>1
      <4>3. g[k] = g[k - 1] \o ss[k]
        BY <2>2, <3>2, <3>4
      <4>4. IsList(g[k]) /\ Range(g[k]) = Range(g[k - 1]) \cup Range(ss[k])
        BY <3>2, <4>2, <4>3, ListsJoin
      <4>5. \A i \in 1..k : i \in 1..(k - 1) \/ i = k
        BY <3>2
      <4>6. Good(k)
        BY <4>2, <4>4, <4>5
      <4> QED
        BY <3>2, <4>6
    <3> QED
      BY <3>3, <3>4
  <2>4. Good(n)
    BY <1>3, <2>3
  <2> QED
    BY <1>1, <2>1, <2>4
<1> QED
  BY <1>2, <1>3

\* One thing said of each element of a list.
LEMMA ListOfEach ==
  ASSUME NEW s, IsList(s), NEW f, f = [i \in DOMAIN s |-> f[i]]
  PROVE  IsList(f) /\ DOMAIN f = DOMAIN s /\ \A i \in DOMAIN s : f[i] \in Range(f)
<1>1. PICK n \in Nat : n = Len(s) /\ DOMAIN s = 1..n
  BY ListRange
<1>2. f \in [1..n -> Range(f)]
  BY <1>1 DEF Range
<1>3. f \in Seq(Range(f))
  BY <1>2, SeqDef
<1>4. DOMAIN f = DOMAIN s
  OBVIOUS
<1> QED
  BY <1>3, <1>4 DEF IsList, Range

\* A mention in the list vouches for x.
VouchesFor(s, x) == \E m \in Range(s) : Vouches(m) /\ m.id = x

LEMMA DeclarationVouches ==
  ASSUME NEW src, NEW id
  PROVE  Vouches(Declares(src, id)) /\ Declares(src, id).id = id
BY DEF Vouches, Declares, Mention, Plain

LEMMA DeclaredFirst ==
  ASSUME NEW src, NEW id, NEW t, IsList(t)
  PROVE  /\ IsList(<<Declares(src, id)>> \o t) /\ VouchesFor(<<Declares(src, id)>> \o t, id)
         /\ \A x : VouchesFor(t, x) => VouchesFor(<<Declares(src, id)>> \o t, x)
<1>1. PICK m : m = Declares(src, id)
  OBVIOUS
<1>2. IsList(<<m>>) /\ Range(<<m>>) = {m}
  BY OneIsList
<1>3. IsList(<<m>> \o t) /\ Range(<<m>> \o t) = {m} \cup Range(t)
  BY <1>2, ListsJoin
<1>4. Vouches(m) /\ m.id = id
  BY <1>1, DeclarationVouches
<1> QED
  BY <1>1, <1>3, <1>4 DEF VouchesFor

LEMMA JoinVouches ==
  ASSUME NEW s, IsList(s), NEW t, IsList(t)
  PROVE  /\ IsList(s \o t)
         /\ \A x : VouchesFor(s, x) \/ VouchesFor(t, x) => VouchesFor(s \o t, x)
<1>1. IsList(s \o t) /\ Range(s \o t) = Range(s) \cup Range(t)
  BY ListsJoin
<1> QED
  BY <1>1 DEF VouchesFor

LEMMA FlatVouches ==
  ASSUME NEW ss, IsList(ss), \A i \in DOMAIN ss : IsList(ss[i])
  PROVE  /\ IsList(FlattenSeq(ss))
         /\ \A i \in DOMAIN ss : \A x : VouchesFor(ss[i], x) => VouchesFor(FlattenSeq(ss), x)
<1>1. IsList(FlattenSeq(ss)) /\ \A i \in DOMAIN ss : Range(ss[i]) \subseteq Range(FlattenSeq(ss))
  BY ListsFlatten
<1> QED
  BY <1>1 DEF VouchesFor

\* A block declares itself and its items.
LEMMA BlockIsDeclared ==
  ASSUME NEW b, IsList(b.tables), IsList(b.items)
  PROVE  /\ IsList(BlockMentions(b)) /\ VouchesFor(BlockMentions(b), <<"block", b.name>>)
         /\ \A i \in DOMAIN b.items : VouchesFor(BlockMentions(b), <<"item", b.items[i].name>>)
<1> DEFINE id == <<"block", b.name>>
           iid(i) == <<"item", i.name>>
           rest(i) == IF i.lov = None THEN <<>>
                      ELSE <<Mention(<<"lov", i.lov>>, iid(i), "uses", "LOV property", "missing", Plain)>>
           item(i) == <<Declares(id, iid(i))>> \o rest(i)
           queries == [i \in DOMAIN b.tables |-> Uses(id, <<"table", b.tables[i]>>, "queries", "block")]
           items == [i \in DOMAIN b.items |-> item(b.items[i])]
<1>1. BlockMentions(b) = <<Declares(Root, id)>> \o queries \o FlattenSeq(items)
  BY DEF BlockMentions, Map
<1>2. \A i : IsList(rest(i))
  BY OneIsList, NoneIsList
<1>3. \A i : IsList(item(i)) /\ VouchesFor(item(i), iid(i))
  <2> HIDE DEF rest
  <2> QED
    BY <1>2, DeclaredFirst
<1>4. /\ IsList(items) /\ DOMAIN items = DOMAIN b.items
      /\ \A i \in DOMAIN items : IsList(items[i]) /\ VouchesFor(items[i], iid(b.items[i]))
  <2> HIDE DEF item
  <2>1. items = [i \in DOMAIN b.items |-> items[i]] /\ DOMAIN items = DOMAIN b.items
    OBVIOUS
  <2>2. \A i \in DOMAIN items : IsList(items[i]) /\ VouchesFor(items[i], iid(b.items[i]))
    BY <1>3
  <2> HIDE DEF items
  <2>3. IsList(items)
    BY <2>1, ListOfEach
  <2> QED
    BY <2>1, <2>2, <2>3
<1>5. IsList(queries)
  <2>1. queries = [i \in DOMAIN b.tables |-> queries[i]]
    OBVIOUS
  <2> HIDE DEF queries
  <2> QED
    BY <2>1, ListOfEach
<1> HIDE DEF items, queries, iid
<1>6. IsList(FlattenSeq(items)) /\ \A i \in DOMAIN b.items : VouchesFor(FlattenSeq(items), iid(b.items[i]))
  BY <1>4, FlatVouches
<1>7. IsList(<<Declares(Root, id)>> \o queries) /\ VouchesFor(<<Declares(Root, id)>> \o queries, id)
  BY <1>5, DeclaredFirst
<1>8. /\ IsList(BlockMentions(b)) /\ VouchesFor(BlockMentions(b), id)
      /\ \A i \in DOMAIN b.items : VouchesFor(BlockMentions(b), iid(b.items[i]))
  BY <1>1, <1>6, <1>7, JoinVouches
<1> QED
  BY <1>8 DEF iid

LEMMA GroupIsDeclared ==
  ASSUME NEW r, IsList(r.tables)
  PROVE  IsList(GroupMentions(r)) /\ VouchesFor(GroupMentions(r), <<"record_group", r.name>>)
<1> DEFINE id == <<"record_group", r.name>>
           queries == [i \in DOMAIN r.tables |-> Uses(id, <<"table", r.tables[i]>>, "queries", "record group query")]
<1>1. GroupMentions(r) = <<Declares(Root, id)>> \o queries
  BY DEF GroupMentions, Map
<1>2. IsList(queries)
  <2>1. queries = [i \in DOMAIN r.tables |-> queries[i]]
    OBVIOUS
  <2> HIDE DEF queries
  <2> QED
    BY <2>1, ListOfEach
<1> HIDE DEF queries
<1> QED
  BY <1>1, <1>2, DeclaredFirst

LEMMA LovIsDeclared ==
  ASSUME NEW l
  PROVE  IsList(LovMentions(l)) /\ VouchesFor(LovMentions(l), <<"lov", l.name>>)
<1> DEFINE id == <<"lov", l.name>>
           rest == IF l.group = None THEN <<>>
                   ELSE <<Mention(<<"record_group", l.group>>, id, "uses", "LOV record group", "missing", Plain)>>
<1>1. LovMentions(l) = <<Declares(Root, id)>> \o rest
  BY DEF LovMentions
<1>2. IsList(rest)
  BY OneIsList, NoneIsList
<1> HIDE DEF rest
<1> QED
  BY <1>1, <1>2, DeclaredFirst

LEMMA RelationIsDeclared ==
  ASSUME NEW f, NEW r
  PROVE  IsList(RelationMentions(f, r)) /\ VouchesFor(RelationMentions(f, r), <<"relation", r.name>>)
<1> DEFINE id == <<"relation", r.name>>
           declared == \E i \in DOMAIN f.blocks : f.blocks[i].name = r.detail
           rest == IF r.detail = None THEN <<>>
                   ELSE <<Mention(<<"block", r.detail>>, id, "relates", "detail block",
                                  IF declared THEN "declared" ELSE "missing", Plain)>>
<1>1. RelationMentions(f, r) = <<Declares(Root, id)>> \o rest
  BY DEF RelationMentions
<1>2. IsList(rest)
  BY OneIsList, NoneIsList
<1> HIDE DEF rest
<1> QED
  BY <1>1, <1>2, DeclaredFirst

LEMMA OtherIsDeclared ==
  ASSUME NEW o
  PROVE  Vouches(OtherMention(o)) /\ OtherMention(o).id = <<o.kind, o.name>>
BY DEF Vouches, OtherMention, Mention, Plain

LEMMA FormIsForm ==
  ASSUME form \in DOMAIN Forms
  PROVE  IsForm(Form)
BY ReviewAssumption DEF Form

\* What the structure of a form says, kind by kind.
LEMMA StructureVouches ==
  ASSUME NEW f, IsForm(f)
  PROVE  /\ IsList(StructureMentions(f))
         /\ \A i \in DOMAIN f.blocks : VouchesFor(StructureMentions(f), <<"block", f.blocks[i].name>>)
         /\ \A i \in DOMAIN f.blocks : \A j \in DOMAIN f.blocks[i].items :
              VouchesFor(StructureMentions(f), <<"item", f.blocks[i].items[j].name>>)
         /\ \A i \in DOMAIN f.groups : VouchesFor(StructureMentions(f), <<"record_group", f.groups[i].name>>)
         /\ \A i \in DOMAIN f.lovs : VouchesFor(StructureMentions(f), <<"lov", f.lovs[i].name>>)
         /\ \A i \in DOMAIN f.relations : VouchesFor(StructureMentions(f), <<"relation", f.relations[i].name>>)
         /\ \A i \in DOMAIN f.others : VouchesFor(StructureMentions(f), <<f.others[i].kind, f.others[i].name>>)
<1> DEFINE root == Mention(Root, None, "", "", "declared", Plain)
           bs == [i \in DOMAIN f.blocks |-> BlockMentions(f.blocks[i])]
           gs == [i \in DOMAIN f.groups |-> GroupMentions(f.groups[i])]
           ls == [i \in DOMAIN f.lovs |-> LovMentions(f.lovs[i])]
           rs == [i \in DOMAIN f.relations |-> RelationMentions(f, f.relations[i])]
           os == [i \in DOMAIN f.others |-> OtherMention(f.others[i])]
<1>0. /\ IsList(f.blocks) /\ (\A i \in DOMAIN f.blocks : IsList(f.blocks[i].tables) /\ IsList(f.blocks[i].items))
      /\ IsList(f.groups) /\ (\A i \in DOMAIN f.groups : IsList(f.groups[i].tables))
      /\ IsList(f.lovs) /\ IsList(f.relations) /\ IsList(f.others)
  BY DEF IsForm, Range
<1>1. StructureMentions(f) = <<root>> \o FlattenSeq(bs) \o FlattenSeq(gs) \o FlattenSeq(ls) \o FlattenSeq(rs) \o os
  BY DEF StructureMentions, Map
<1>2. IsList(<<root>>)
  BY OneIsList
<1>3. /\ IsList(bs) /\ DOMAIN bs = DOMAIN f.blocks
      /\ \A i \in DOMAIN bs : IsList(bs[i]) /\ bs[i] = BlockMentions(f.blocks[i])
  <2>1. bs = [i \in DOMAIN f.blocks |-> bs[i]] /\ \A i \in DOMAIN f.blocks : bs[i] = BlockMentions(f.blocks[i])
    OBVIOUS
  <2> HIDE DEF bs
  <2>2. IsList(bs) /\ DOMAIN bs = DOMAIN f.blocks
    BY <1>0, <2>1, ListOfEach
  <2> QED
    BY <1>0, <2>1, <2>2, BlockIsDeclared
<1>4. /\ IsList(gs) /\ DOMAIN gs = DOMAIN f.groups
      /\ \A i \in DOMAIN gs : IsList(gs[i]) /\ gs[i] = GroupMentions(f.groups[i])
  <2>1. gs = [i \in DOMAIN f.groups |-> gs[i]] /\ \A i \in DOMAIN f.groups : gs[i] = GroupMentions(f.groups[i])
    OBVIOUS
  <2> HIDE DEF gs
  <2>2. IsList(gs) /\ DOMAIN gs = DOMAIN f.groups
    BY <1>0, <2>1, ListOfEach
  <2> QED
    BY <1>0, <2>1, <2>2, GroupIsDeclared
<1>5. /\ IsList(ls) /\ DOMAIN ls = DOMAIN f.lovs
      /\ \A i \in DOMAIN ls : IsList(ls[i]) /\ ls[i] = LovMentions(f.lovs[i])
  <2>1. ls = [i \in DOMAIN f.lovs |-> ls[i]] /\ \A i \in DOMAIN f.lovs : ls[i] = LovMentions(f.lovs[i])
    OBVIOUS
  <2> HIDE DEF ls
  <2>2. IsList(ls) /\ DOMAIN ls = DOMAIN f.lovs
    BY <1>0, <2>1, ListOfEach
  <2> QED
    BY <2>1, <2>2, LovIsDeclared
<1>6. /\ IsList(rs) /\ DOMAIN rs = DOMAIN f.relations
      /\ \A i \in DOMAIN rs : IsList(rs[i]) /\ rs[i] = RelationMentions(f, f.relations[i])
  <2>1. rs = [i \in DOMAIN f.relations |-> rs[i]] /\ \A i \in DOMAIN f.relations : rs[i] = RelationMentions(f, f.relations[i])
    OBVIOUS
  <2> HIDE DEF rs
  <2>2. IsList(rs) /\ DOMAIN rs = DOMAIN f.relations
    BY <1>0, <2>1, ListOfEach
  <2>3. \A r : IsList(RelationMentions(f, r))
    BY RelationIsDeclared
  <2> QED
    BY <2>1, <2>2, <2>3
<1>7. IsList(os) /\ \A i \in DOMAIN f.others : VouchesFor(os, <<f.others[i].kind, f.others[i].name>>)
  <2>1. os = [i \in DOMAIN f.others |-> os[i]] /\ \A i \in DOMAIN f.others : os[i] = OtherMention(f.others[i])
    OBVIOUS
  <2> HIDE DEF os
  <2>2. IsList(os) /\ DOMAIN os = DOMAIN f.others /\ \A i \in DOMAIN f.others : os[i] \in Range(os)
    BY <1>0, <2>1, ListOfEach
  <2> QED
    BY <2>1, <2>2, OtherIsDeclared DEF VouchesFor
<1> HIDE DEF root, bs, gs, ls, rs, os
<1>8. PICK B : B = FlattenSeq(bs) /\ IsList(B) /\ \A i \in DOMAIN bs : \A x : VouchesFor(bs[i], x) => VouchesFor(B, x)
  BY <1>3, FlatVouches
<1>9. PICK G : G = FlattenSeq(gs) /\ IsList(G) /\ \A i \in DOMAIN gs : \A x : VouchesFor(gs[i], x) => VouchesFor(G, x)
  BY <1>4, FlatVouches
<1>10. PICK V : V = FlattenSeq(ls) /\ IsList(V) /\ \A i \in DOMAIN ls : \A x : VouchesFor(ls[i], x) => VouchesFor(V, x)
  BY <1>5, FlatVouches
<1>11. PICK R : R = FlattenSeq(rs) /\ IsList(R) /\ \A i \in DOMAIN rs : \A x : VouchesFor(rs[i], x) => VouchesFor(R, x)
  BY <1>6, FlatVouches
<1>12. PICK s : s = StructureMentions(f)
  OBVIOUS
<1>13. IsList(s) /\ \A x : VouchesFor(B, x) \/ VouchesFor(G, x) \/ VouchesFor(V, x) \/ VouchesFor(R, x) \/ VouchesFor(os, x)
                            => VouchesFor(s, x)
  <2>1. PICK s1 : s1 = <<root>> \o B /\ IsList(s1) /\ \A x : VouchesFor(B, x) => VouchesFor(s1, x)
    BY <1>2, <1>8, JoinVouches
  <2>2. PICK s2 : s2 = s1 \o G /\ IsList(s2) /\ \A x : VouchesFor(s1, x) \/ VouchesFor(G, x) => VouchesFor(s2, x)
    BY <1>9, <2>1, JoinVouches
  <2>3. PICK s3 : s3 = s2 \o V /\ IsList(s3) /\ \A x : VouchesFor(s2, x) \/ VouchesFor(V, x) => VouchesFor(s3, x)
    BY <1>10, <2>2, JoinVouches
  <2>4. PICK s4 : s4 = s3 \o R /\ IsList(s4) /\ \A x : VouchesFor(s3, x) \/ VouchesFor(R, x) => VouchesFor(s4, x)
    BY <1>11, <2>3, JoinVouches
  <2>5. PICK s5 : s5 = s4 \o os /\ IsList(s5) /\ \A x : VouchesFor(s4, x) \/ VouchesFor(os, x) => VouchesFor(s5, x)
    BY <1>7, <2>4, JoinVouches
  <2>6. s5 = s
    BY <1>1, <1>8, <1>9, <1>10, <1>11, <1>12, <2>1, <2>2, <2>3, <2>4, <2>5, Zenon
  <2> QED
    BY <2>1, <2>2, <2>3, <2>4, <2>5, <2>6
<1>14. \A i \in DOMAIN f.blocks : VouchesFor(s, <<"block", f.blocks[i].name>>)
  BY <1>0, <1>3, <1>8, <1>13, BlockIsDeclared
<1>15. \A i \in DOMAIN f.blocks : \A j \in DOMAIN f.blocks[i].items : VouchesFor(s, <<"item", f.blocks[i].items[j].name>>)
  <2> SUFFICES ASSUME NEW i \in DOMAIN f.blocks, NEW j \in DOMAIN f.blocks[i].items
               PROVE  VouchesFor(s, <<"item", f.blocks[i].items[j].name>>)
    OBVIOUS
  <2>1. PICK b : b = f.blocks[i] /\ IsList(b.tables) /\ IsList(b.items) /\ bs[i] = BlockMentions(b) /\ i \in DOMAIN bs
    BY <1>0, <1>3
  <2>2. VouchesFor(bs[i], <<"item", b.items[j].name>>)
    BY <2>1, BlockIsDeclared
  <2> QED
    BY <1>8, <1>13, <2>1, <2>2
<1>16. \A i \in DOMAIN f.groups : VouchesFor(s, <<"record_group", f.groups[i].name>>)
  BY <1>0, <1>4, <1>9, <1>13, GroupIsDeclared
<1>17. \A i \in DOMAIN f.lovs : VouchesFor(s, <<"lov", f.lovs[i].name>>)
  BY <1>5, <1>10, <1>13, LovIsDeclared
<1>18. \A i \in DOMAIN f.relations : VouchesFor(s, <<"relation", f.relations[i].name>>)
  BY <1>6, <1>11, <1>13, RelationIsDeclared
<1>19. \A i \in DOMAIN f.others : VouchesFor(s, <<f.others[i].kind, f.others[i].name>>)
  BY <1>7, <1>13
<1> QED
  BY <1>12, <1>13, <1>14, <1>15, <1>16, <1>17, <1>18, <1>19

\* Every name of Declared.
LEMMA DeclaredIsVouchedFor ==
  ASSUME form \in DOMAIN Forms
  PROVE  IsList(StructureMentions(Form)) /\ \A x \in Declared : VouchesFor(StructureMentions(Form), x)
<1>1. IsForm(Form)
  BY FormIsForm
<1>2. PICK s : s = StructureMentions(Form)
  OBVIOUS
<1>3. /\ IsList(s)
      /\ \A i \in DOMAIN Form.blocks : VouchesFor(s, <<"block", Form.blocks[i].name>>)
      /\ \A i \in DOMAIN Form.blocks : \A j \in DOMAIN Form.blocks[i].items :
              VouchesFor(s, <<"item", Form.blocks[i].items[j].name>>)
      /\ \A i \in DOMAIN Form.groups : VouchesFor(s, <<"record_group", Form.groups[i].name>>)
      /\ \A i \in DOMAIN Form.lovs : VouchesFor(s, <<"lov", Form.lovs[i].name>>)
      /\ \A i \in DOMAIN Form.relations : VouchesFor(s, <<"relation", Form.relations[i].name>>)
      /\ \A i \in DOMAIN Form.others : VouchesFor(s, <<Form.others[i].kind, Form.others[i].name>>)
  BY <1>1, <1>2, StructureVouches
<1>4. ASSUME NEW x \in Declared PROVE VouchesFor(s, x)
  <2>1. CASE x \in Named("block", Form.blocks)
    BY <1>3, <2>1 DEF Named
  <2>2. CASE x \in Named("lov", Form.lovs)
    BY <1>3, <2>2 DEF Named
  <2>3. CASE x \in Named("record_group", Form.groups)
    BY <1>3, <2>3 DEF Named
  <2>4. CASE x \in Named("relation", Form.relations)
    BY <1>3, <2>4 DEF Named
  <2>5. CASE x \in UNION {Named("item", Form.blocks[i].items) : i \in DOMAIN Form.blocks}
    BY <1>3, <2>5 DEF Named
  <2>6. CASE x \in {<<Form.others[i].kind, Form.others[i].name>> : i \in DOMAIN Form.others}
    BY <1>3, <2>6
  <2>7. PICK I : I = UNION {Named("item", Form.blocks[i].items) : i \in DOMAIN Form.blocks}
    OBVIOUS
  <2>8. PICK O : O = {<<Form.others[i].kind, Form.others[i].name>> : i \in DOMAIN Form.others}
    OBVIOUS
  <2>9. Declared = Named("block", Form.blocks) \cup Named("lov", Form.lovs) \cup Named("record_group", Form.groups)
                     \cup Named("relation", Form.relations) \cup I \cup O
    BY <2>7, <2>8, Zenon DEF Declared
  <2> QED
    BY <1>4, <2>1, <2>2, <2>3, <2>4, <2>5, <2>6, <2>7, <2>8, <2>9
<1> QED
  BY <1>2, <1>3, <1>4

LEMMA ReferencesAreListed ==
  ASSUME NEW f, NEW u, IsUnit(u)
  PROVE  IsList(References(f, u))
<1> DEFINE me == NodeOf(u)
           units == {f.units[i].name : i \in {j \in DOMAIN f.units : f.units[j].kind = "program_unit"}}
           target(l) == LiteralEdge[l.kind]
           literal(l) == IF l.kind \notin DOMAIN LiteralEdge THEN <<>>
                         ELSE <<Mention(<<target(l)[1], l.value>>, me, target(l)[2], l.builtin,
                                        IF target(l)[1] \in OwnKinds THEN "reference" ELSE "declared",
                                        [Plain EXCEPT !.external = target(l)[1] \in ExternalKinds])>>
           item(i) == Mention(<<"item", i>>, me, "references", "bind", "reference", Plain)
           shared(v) == Uses(me, <<"global", v>>, "shares", "bind")
           table(t) == Uses(me, <<"table", t>>, "queries", "SQL")
           package(p) == Uses(me, <<"package", p.name>>, "calls", p.call)
           call(c) == IF c \in units
                      THEN Mention(<<"program_unit", c>>, me, "calls", "call", "declared", Plain)
                      ELSE Mention(<<"procedure", c>>, me, "calls", "call", "missing", Outside)
           ls == [i \in DOMAIN u.literals |-> literal(u.literals[i])]
           is == [i \in DOMAIN u.items |-> item(u.items[i])]
           vs == [i \in DOMAIN u.globals |-> shared(u.globals[i])]
           ts == [i \in DOMAIN u.tables |-> table(u.tables[i])]
           ps == [i \in DOMAIN u.packages |-> package(u.packages[i])]
           cs == [i \in DOMAIN u.calls |-> call(u.calls[i])]
<1>1. References(f, u) = FlattenSeq(ls) \o is \o vs \o ts \o ps \o cs
  BY DEF References, Map
<1>2. \A l : IsList(literal(l))
  BY OneIsList, NoneIsList
<1> HIDE DEF literal, item, shared, table, package, call
<1>3. IsList(ls) /\ \A i \in DOMAIN ls : IsList(ls[i])
  <2>1. ls = [i \in DOMAIN u.literals |-> ls[i]] /\ \A i \in DOMAIN ls : IsList(ls[i])
    BY <1>2
  <2> HIDE DEF ls
  <2> QED
    BY <2>1, ListOfEach DEF IsUnit
<1>4. IsList(is)
  <2>1. is = [i \in DOMAIN u.items |-> is[i]]
    OBVIOUS
  <2> HIDE DEF is
  <2> QED
    BY <2>1, ListOfEach DEF IsUnit
<1>5. IsList(vs)
  <2>1. vs = [i \in DOMAIN u.globals |-> vs[i]]
    OBVIOUS
  <2> HIDE DEF vs
  <2> QED
    BY <2>1, ListOfEach DEF IsUnit
<1>6. IsList(ts)
  <2>1. ts = [i \in DOMAIN u.tables |-> ts[i]]
    OBVIOUS
  <2> HIDE DEF ts
  <2> QED
    BY <2>1, ListOfEach DEF IsUnit
<1>7. IsList(ps)
  <2>1. ps = [i \in DOMAIN u.packages |-> ps[i]]
    OBVIOUS
  <2> HIDE DEF ps
  <2> QED
    BY <2>1, ListOfEach DEF IsUnit
<1>8. IsList(cs)
  <2>1. cs = [i \in DOMAIN u.calls |-> cs[i]]
    OBVIOUS
  <2> HIDE DEF cs
  <2> QED
    BY <2>1, ListOfEach DEF IsUnit
<1> HIDE DEF ls, is, vs, ts, ps, cs
<1>9. IsList(FlattenSeq(ls))
  BY <1>3, ListsFlatten
<1>10. IsList(FlattenSeq(ls) \o is)
  BY <1>4, <1>9, ListsJoin
<1>11. IsList(FlattenSeq(ls) \o is \o vs)
  BY <1>5, <1>10, ListsJoin
<1>12. IsList(FlattenSeq(ls) \o is \o vs \o ts)
  BY <1>6, <1>11, ListsJoin
<1>13. IsList(FlattenSeq(ls) \o is \o vs \o ts \o ps)
  BY <1>7, <1>12, ListsJoin
<1>14. IsList(FlattenSeq(ls) \o is \o vs \o ts \o ps \o cs)
  BY <1>8, <1>13, ListsJoin
<1> QED
  BY <1>1, <1>14

LEMMA RegisteredAreListed ==
  ASSUME NEW f, IsList(f.units)
  PROVE  IsList(Registered(f))
<1> DEFINE unit(u) == IF u.kind = "program_unit" THEN <<Mention(NodeOf(u), None, "", "", "declared", Plain)>>
                      ELSE <<>>
           us == [i \in DOMAIN f.units |-> unit(f.units[i])]
<1>1. Registered(f) = FlattenSeq(us)
  BY DEF Registered, Map
<1>2. \A u : IsList(unit(u))
  BY OneIsList, NoneIsList
<1> HIDE DEF unit
<1>3. us = [i \in DOMAIN f.units |-> us[i]] /\ \A i \in DOMAIN us : IsList(us[i])
  BY <1>2
<1> HIDE DEF us
<1>4. IsList(us)
  BY <1>3, ListOfEach
<1> QED
  BY <1>1, <1>3, <1>4, ListsFlatten

\* Reading the code of a unit unsettles nothing.
LEMMA ReadKeeps ==
  ASSUME NEW f, NEW task, NEW risk, NEW g, IsGraph(g), NEW u, IsUnit(u)
  PROVE  /\ IsGraph(Read(f, task, risk, g, u))
         /\ \A x : Settled(g, x) => Settled(Read(f, task, risk, g, u), x)
<1>1. PICK m : Read(f, task, risk, g, u) = FoldLeft(See, See(g, m), References(f, u))
  BY DEF Read
<1>2. PICK s : s = References(f, u) /\ IsList(s)
  BY ReferencesAreListed
<1>3. PICK h : h = See(g, m) /\ IsGraph(h) /\ \A x : Settled(g, x) => Settled(h, x)
  BY SeeKeeps
<1>4. PICK v : v = FoldLeft(See, h, s) /\ Seen(v, h, s, Len(s))
  BY <1>2, <1>3, SeeingKeeps
<1>5. v = Read(f, task, risk, g, u)
  BY <1>1, <1>2, <1>3, <1>4
<1> QED
  BY <1>3, <1>4, <1>5 DEF Seen

\* However a form is analysed, what is built of it is a graph, and what its
\* structure declares is in it and not missing.
LEMMA BuildSettles ==
  ASSUME NEW f, IsForm(f), NEW task, NEW risk
  PROVE  /\ IsGraph(Build(f, task, risk))
         /\ \A x : VouchesFor(StructureMentions(f), x) => Settled(Build(f, task, risk), x)
<1>1. PICK s : s = StructureMentions(f) /\ IsList(s)
  BY StructureVouches
<1>2. IsList(f.units) /\ \A u \in Range(f.units) : IsUnit(u)
  BY DEF IsForm
<1>3. PICK a : a = s \o Registered(f) /\ IsList(a) /\ \A x : VouchesFor(s, x) => VouchesFor(a, x)
  BY <1>1, <1>2, RegisteredAreListed, JoinVouches
<1>4. IsGraph(EmptyGraph)
  <2>1. PICK e : e = EmptyGraph
    OBVIOUS
  <2>2. e = [nodes |-> e.nodes, edges |-> e.edges] /\ e.nodes = <<>> /\ e.edges = <<>>
    BY <2>1 DEF EmptyGraph
  <2>3. IsList(e.edges) /\ Range(e.edges) = {} /\ DOMAIN e.edges = {} /\ DOMAIN e.nodes = {}
    BY <2>2, NoneIsList
  <2>4. IsFiniteSet(DOMAIN e.nodes)
    BY <2>3, FS_EmptySet
  <2>5. IsGraph(e)
    BY <2>2, <2>3, <2>4 DEF IsGraph
  <2> QED
    BY <2>1, <2>5
<1>5. PICK base : base = FoldLeft(See, EmptyGraph, a) /\ Seen(base, EmptyGraph, a, Len(a))
  BY <1>3, <1>4, SeeingKeeps
<1>6. IsGraph(base) /\ \A x : VouchesFor(s, x) => Settled(base, x)
  <2>1. Len(a) \in Nat /\ DOMAIN a = 1..Len(a)
    BY <1>3, ListRange
  <2>2. \A x : VouchesFor(a, x) => \E k \in 1..Len(a) : Vouches(a[k]) /\ a[k].id = x
    BY <2>1 DEF VouchesFor, Range
  <2> QED
    BY <1>3, <1>5, <2>2 DEF Seen
<1>7. PICK n \in Nat : n = Len(f.units) /\ DOMAIN f.units = 1..n
  BY <1>2, ListRange
<1> DEFINE op == [name |-> "read", form |-> f, task |-> task, risk |-> risk]
<1>8. PICK r : /\ Steps(r, op, FoldLeft(See, EmptyGraph, s \o Registered(f)), f.units)
               /\ Build(f, task, risk) = r[Len(f.units)]
  BY <1>1, <1>7, BuildingSteps
<1>9. r[0] = base /\ \A i \in 1..n : r[i] = Read(f, task, risk, r[i - 1], f.units[i])
  BY <1>3, <1>5, <1>7, <1>8 DEF Steps, Applied
<1> DEFINE Good(k) == IsGraph(r[k]) /\ \A x : Settled(base, x) => Settled(r[k], x)
           bad == {k \in 0..n : ~Good(k)}
<1>10. bad = {}
  <2> SUFFICES ASSUME bad # {} PROVE FALSE
    OBVIOUS
  <2>1. PICK k \in bad : \A j \in bad : k <= j
    <3>1. bad \subseteq Nat
      OBVIOUS
    <3> HIDE DEF bad
    <3> QED
      BY <3>1, LeastNumber
  <2>2. k # 0
    BY <1>6, <1>9, <2>1
  <2>3. k - 1 \in 0..n /\ k - 1 \notin bad /\ k \in 1..n
    BY <2>1, <2>2
  <2>4. Good(k - 1) /\ r[k] = Read(f, task, risk, r[k - 1], f.units[k])
    BY <1>9, <2>3
  <2>5. PICK u : u = f.units[k] /\ IsUnit(u)
    BY <1>2, <1>7, <2>3 DEF Range
  <2>6. PICK v : v = r[k - 1] /\ IsGraph(v) /\ \A x : Settled(base, x) => Settled(v, x)
    BY <2>4
  <2>7. PICK w : w = Read(f, task, risk, v, u) /\ IsGraph(w) /\ \A x : Settled(v, x) => Settled(w, x)
    BY <2>5, <2>6, ReadKeeps
  <2>8. w = r[k]
    BY <2>4, <2>5, <2>6, <2>7
  <2>9. Good(k)
    BY <2>6, <2>7, <2>8
  <2> QED
    BY <2>1, <2>9
<1>11. Good(n)
  BY <1>10
<1> QED
  BY <1>1, <1>6, <1>7, <1>8, <1>11

-----------------------------------------------------------------------------
(* The graph of a session *)

\* A graph of this form: no form but its own is needed to tell.
Sound(g) == IsGraph(g) /\ \A x \in Declared : Settled(g, x)

\* What is on record, in memory and about to be written.
GraphsAreSound ==
  /\ saved # None => Sound(saved)
  /\ \A p \in Process : proc[p].graph # None \/ proc[p].pc = "save" => Sound(proc[p].graph)

LEMMA SoundIsTrue ==
  ASSUME NEW g, Sound(g)
  PROVE  GraphIsTrue(g)
<1>1. IsGraph(g) /\ \A x \in Declared : x \in DOMAIN g.nodes /\ ~g.nodes[x].missing
  BY DEF Sound, Settled
<1>2. Reload(g) = g
  BY <1>1, ReloadIsTheGraph
<1>3. \A x \in DOMAIN g.nodes, forward \in BOOLEAN, asked \in Int : NearestFirst(g, x, forward, asked)
  BY <1>1, WalksAreNearestFirst
<1>4. Summary(g).missing <= Cardinality(DOMAIN g.nodes \ Declared)
  <2>1. PICK M : M = {x \in DOMAIN g.nodes : g.nodes[x].missing}
    OBVIOUS
  <2>2. PICK N : N = DOMAIN g.nodes \ Declared
    OBVIOUS
  <2>3. IsFiniteSet(N)
    BY <1>1, <2>2, FS_Difference DEF IsGraph
  <2>4. M \in SUBSET N
    BY <1>1, <2>1, <2>2
  <2>5. Cardinality(M) <= Cardinality(N)
    BY <2>3, <2>4, FS_Subset
  <2>6. Summary(g).missing = Cardinality(M)
    BY <2>1 DEF Summary
  <2> QED
    BY <2>2, <2>5, <2>6
<1>5. \A asked : asked \in {0, 2, MaxDepth + 1} => asked \in Int
  BY GraphAssumption
<1> QED
  BY <1>1, <1>2, <1>3, <1>4, <1>5 DEF GraphIsTrue

\* However the analyses stand, what is built is sound.
LEMMA BuiltIsSound ==
  ASSUME form \in DOMAIN Forms
  PROVE  Sound(GraphNow)
<1>1. PICK f : f = Form /\ IsForm(f)
  BY FormIsForm
<1>2. PICK task : task = [n \in UnitNodes |-> TaskOf(n)]
  OBVIOUS
<1>3. PICK risk : risk = [n \in UnitNodes |-> IF analysis[TaskOf(n)] = None THEN None ELSE analysis[TaskOf(n)].risk]
  OBVIOUS
<1>4. GraphNow = Build(f, task, risk)
  BY <1>1, <1>2, <1>3 DEF GraphNow
<1>5. /\ IsGraph(Build(f, task, risk))
      /\ \A x : VouchesFor(StructureMentions(f), x) => Settled(Build(f, task, risk), x)
  BY <1>1, BuildSettles
<1>6. \A x \in Declared : VouchesFor(StructureMentions(f), x)
  BY <1>1, DeclaredIsVouchedFor
<1> QED
  BY <1>4, <1>5, <1>6 DEF Sound

\* Where the graph of a process comes from.
GraphFrom(s, t) ==
  \/ t.graph = s.graph /\ (t.pc = "save" => s.pc = "save")
  \/ t.graph = None /\ t.pc # "save"
  \/ saved # None /\ t.graph = Reload(saved)
  \/ t.graph = GraphNow

LEMMA GraphsComeFrom ==
  ASSUME Typed, [Next]_vars
  PROVE  /\ form' = form
         /\ saved' = saved \/ \E p \in Process : proc[p].pc = "save" /\ saved' = proc[p].graph
         /\ \A q \in Process : GraphFrom(proc[q], proc'[q])
<1>1. CASE UNCHANGED vars
  BY <1>1 DEF vars, GraphFrom
<1> SUFFICES ASSUME NEW p \in Process, Opening(p) \/ Serving(p) \/ FoldOpinion(p)
             PROVE  /\ form' = form
                    /\ saved' = saved \/ \E r \in Process : proc[r].pc = "save" /\ saved' = proc[r].graph
                    /\ \A q \in Process : GraphFrom(proc[q], proc'[q])
  BY <1>1 DEF Next
<1>2. proc = [q \in Process |-> proc[q]] /\ \A q \in Process : ProcessTyped(proc[q])
  BY DEF Typed
<1>3. PICK s : s = proc[p] /\ ProcessTyped(s)
  BY <1>2
<1>4. s \in [pc : Places, ready : BOOLEAN, alone : BOOLEAN, engine : Engine \cup {None}, sheet : BOOLEAN,
             todo : SUBSET Unit, read : {s.read}, graph : {s.graph}, opinion : {s.opinion}]
  BY <1>3 DEF ProcessTyped
<1>5. \A q \in Process : GraphFrom(proc[q], proc[q])
  BY DEF GraphFrom
<1>6. ASSUME NEW t, Becomes(p, t), GraphFrom(s, t) PROVE \A q \in Process : GraphFrom(proc[q], proc'[q])
  <2>1. proc'[p] = t /\ \A q \in Process : q # p => proc'[q] = proc[q]
    BY <1>2, <1>6 DEF Becomes
  <2> QED
    BY <1>3, <1>5, <1>6, <2>1
<1>7. GraphFrom(s, Down)
  BY DEF GraphFrom, Down
<1>8. ASSUME NEW e \in Engine, NEW sheet \in BOOLEAN, Open(p, e, sheet)
      PROVE  form' = form /\ saved' = saved /\ \A q \in Process : GraphFrom(proc[q], proc'[q])
  <2>1. form' = form /\ saved' = saved
    BY <1>8 DEF Open
  <2>2. proc' = [q \in Process |->
           IF q # p THEN [proc[q] EXCEPT !.alone = FALSE]
           ELSE [Down EXCEPT !.pc = "analyse", !.alone = Up = {}, !.engine = e, !.sheet = sheet,
                             !.todo = StaleUnits(e)]]
    BY <1>8 DEF Open
  <2>3. PICK t : t = [Down EXCEPT !.pc = "analyse", !.alone = Up = {}, !.engine = e, !.sheet = sheet,
                                  !.todo = StaleUnits(e)]
    OBVIOUS
  <2>4. t.graph = None /\ t.pc = "analyse"
    BY <2>3 DEF Down
  <2>5. ASSUME NEW q \in Process PROVE GraphFrom(proc[q], proc'[q])
    <3>1. CASE q = p
      BY <2>2, <2>3, <2>4, <3>1 DEF GraphFrom
    <3>2. CASE q # p
      <4>1. proc'[q] = [proc[q] EXCEPT !.alone = FALSE]
        BY <2>2, <3>2
      <4>2. proc'[q].graph = proc[q].graph /\ proc'[q].pc = proc[q].pc
        BY <1>2, <4>1 DEF ProcessTyped
      <4> QED
        BY <4>2 DEF GraphFrom
    <3> QED
      BY <3>1, <3>2
  <2> QED
    BY <2>1, <2>5
<1>9. ASSUME NEW t, NEW graph, t = AfterGraph(s, graph) PROVE t.graph = graph /\ t.pc # "save"
  BY <1>4, <1>9 DEF AfterGraph
<1>10. ASSUME NEW sheet \in BOOLEAN, Reopen(p, sheet)
       PROVE  form' = form /\ saved' = saved /\ \E t : Becomes(p, t) /\ GraphFrom(s, t)
  <2>1. PICK t : t = [s EXCEPT !.pc = "analyse", !.sheet = sheet, !.todo = StaleUnits(s.engine)]
    OBVIOUS
  <2>2. t.graph = s.graph /\ t.pc = "analyse"
    BY <1>4, <2>1
  <2>3. GraphFrom(s, t)
    BY <2>2 DEF GraphFrom
  <2> QED
    BY <1>3, <1>10, <2>1, <2>3 DEF Reopen
<1>11. ASSUME Examine(p)
       PROVE  form' = form /\ saved' = saved /\ \E t : Becomes(p, t) /\ GraphFrom(s, t)
  <2>1. PICK u \in Unit : Becomes(p, [s EXCEPT !.todo = @ \ {u}])
    BY <1>3, <1>11 DEF Examine
  <2>2. PICK t : t = [s EXCEPT !.todo = @ \ {u}]
    OBVIOUS
  <2>3. t.graph = s.graph /\ t.pc = s.pc
    BY <1>4, <2>2
  <2>4. GraphFrom(s, t)
    BY <2>3 DEF GraphFrom
  <2> QED
    BY <1>11, <2>1, <2>2, <2>4 DEF Examine
<1>12. ASSUME LoadGraph(p)
       PROVE  form' = form /\ saved' = saved /\ \E t : Becomes(p, t) /\ GraphFrom(s, t)
  <2>1. PICK h : h = IF saved = None THEN None ELSE Reload(saved)
    OBVIOUS
  <2>2. PICK t : t = AfterGraph(s, h) /\ t.graph = h /\ t.pc # "save"
    BY <1>9
  <2>3. GraphFrom(s, t)
    BY <2>1, <2>2 DEF GraphFrom
  <2> QED
    BY <1>3, <1>12, <2>1, <2>2, <2>3 DEF LoadGraph
<1>13. ASSUME BuildGraph(p)
       PROVE  form' = form /\ saved' = saved /\ \E t : Becomes(p, t) /\ GraphFrom(s, t)
  <2>1. PICK h : h = GraphNow
    OBVIOUS
  <2>2. PICK t : t = [s EXCEPT !.pc = "save", !.graph = h]
    OBVIOUS
  <2>3. t.graph = h
    BY <1>4, <2>2
  <2>4. GraphFrom(s, t)
    BY <2>1, <2>3 DEF GraphFrom
  <2> QED
    BY <1>3, <1>13, <2>1, <2>2, <2>4 DEF BuildGraph
<1>14. ASSUME SaveGraph(p)
       PROVE  form' = form /\ s.pc = "save" /\ saved' = s.graph /\ \E t : Becomes(p, t) /\ GraphFrom(s, t)
  <2>1. PICK t : t = AfterGraph(s, s.graph) /\ t.graph = s.graph /\ t.pc # "save"
    BY <1>9
  <2>2. GraphFrom(s, t)
    BY <2>1 DEF GraphFrom
  <2> QED
    BY <1>3, <1>14, <2>1, <2>2 DEF SaveGraph
<1>15. ASSUME Specify(p)
       PROVE  form' = form /\ saved' = saved /\ \E t : Becomes(p, t) /\ GraphFrom(s, t)
  <2>1. PICK u \in Unit : Becomes(p, [s EXCEPT !.pc = "compare", !.read.fresh = Generate(Form.units[u], analysis[u], Metadata(p))])
    BY <1>3, <1>15 DEF Specify
  <2>2. PICK t : t = [s EXCEPT !.pc = "compare", !.read.fresh = Generate(Form.units[u], analysis[u], Metadata(p))]
    OBVIOUS
  <2>3. t.graph = s.graph /\ t.pc = "compare"
    BY <1>4, <2>2
  <2>4. GraphFrom(s, t)
    BY <2>3 DEF GraphFrom
  <2> QED
    BY <1>15, <2>1, <2>2, <2>4 DEF Specify
<1>16. ASSUME Compare(p)
       PROVE  form' = form /\ saved' = saved /\ \E t : Becomes(p, t) /\ GraphFrom(s, t)
  <2>1. PICK u \in Unit : Becomes(p, [s EXCEPT !.pc = "write", !.read.existing = [id \in DOMAIN cases[u] |-> cases[u][id].state]])
    BY <1>3, <1>16 DEF Compare
  <2>2. PICK t : t = [s EXCEPT !.pc = "write", !.read.existing = [id \in DOMAIN cases[u] |-> cases[u][id].state]]
    OBVIOUS
  <2>3. t.graph = s.graph /\ t.pc = "write"
    BY <1>4, <2>2
  <2>4. GraphFrom(s, t)
    BY <2>3 DEF GraphFrom
  <2> QED
    BY <1>16, <2>1, <2>2, <2>4 DEF Compare
<1>17. ASSUME Write(p)
       PROVE  form' = form /\ saved' = saved /\ \E t : Becomes(p, t) /\ GraphFrom(s, t)
  <2>1. PICK u \in Unit : Becomes(p, Down) \/ Becomes(p, [s EXCEPT !.pc = "specify", !.todo = @ \ {u}, !.read = Reading])
    BY <1>3, <1>17 DEF Write
  <2>2. PICK t : t = [s EXCEPT !.pc = "specify", !.todo = @ \ {u}, !.read = Reading]
    OBVIOUS
  <2>3. t.graph = s.graph /\ t.pc = "specify"
    BY <1>4, <2>2
  <2>4. GraphFrom(s, t)
    BY <2>3 DEF GraphFrom
  <2> QED
    BY <1>7, <1>17, <2>1, <2>2, <2>4 DEF Write
<1>18. ASSUME Serve(p)
       PROVE  form' = form /\ saved' = saved /\ \E t : Becomes(p, t) /\ GraphFrom(s, t)
  <2>1. PICK t : t = [s EXCEPT !.pc = "idle", !.ready = TRUE]
    OBVIOUS
  <2>2. t.graph = s.graph /\ t.pc = "idle"
    BY <1>4, <2>1
  <2>3. GraphFrom(s, t)
    BY <2>2 DEF GraphFrom
  <2> QED
    BY <1>3, <1>18, <2>1, <2>3 DEF Serve
<1>19. ASSUME Stop(p)
       PROVE  form' = form /\ saved' = saved /\ \E t : Becomes(p, t) /\ GraphFrom(s, t)
  BY <1>7, <1>19 DEF Stop
<1>20. ASSUME NEW o, Becomes(p, [s EXCEPT !.opinion = o]) PROVE \E t : Becomes(p, t) /\ GraphFrom(s, t)
  <2>1. PICK t : t = [s EXCEPT !.opinion = o]
    OBVIOUS
  <2>2. t.graph = s.graph /\ t.pc = s.pc
    BY <1>4, <2>1
  <2> QED
    BY <1>20, <2>1, <2>2 DEF GraphFrom
<1>21. ASSUME NEW u \in Unit, NEW value, TakeOpinion(p, u, value)
       PROVE  form' = form /\ saved' = saved /\ \E t : Becomes(p, t) /\ GraphFrom(s, t)
  BY <1>3, <1>20, <1>21 DEF TakeOpinion
<1>22. ASSUME FoldOpinion(p)
       PROVE  form' = form /\ saved' = saved /\ \E t : Becomes(p, t) /\ GraphFrom(s, t)
  BY <1>3, <1>20, <1>22 DEF FoldOpinion
<1>23. ASSUME NEW u, NEW id, NEW row, ChangeCase(p, u, id, row)
       PROVE  form' = form /\ saved' = saved /\ proc' = proc
  BY <1>23 DEF ChangeCase
<1>24. CASE Opening(p)
  <2>1. CASE \E e \in Engine, sheet \in BOOLEAN : Open(p, e, sheet)
    BY <1>8, <2>1
  <2>2. CASE SaveGraph(p)
    BY <1>3, <1>6, <1>14, <2>2
  <2>3. CASE \/ \E sheet \in BOOLEAN : Reopen(p, sheet)
             \/ Examine(p) \/ LoadGraph(p) \/ BuildGraph(p)
             \/ Specify(p) \/ Compare(p) \/ Write(p) \/ Serve(p) \/ Stop(p)
    <3>1. form' = form /\ saved' = saved /\ \E t : Becomes(p, t) /\ GraphFrom(s, t)
      BY <1>10, <1>11, <1>12, <1>13, <1>15, <1>16, <1>17, <1>18, <1>19, <2>3
    <3> QED
      BY <1>6, <3>1
  <2> QED
    BY <1>24, <2>1, <2>2, <2>3 DEF Opening
<1>25. CASE Serving(p)
  <2>1. PICK u \in Unit :
         \/ \E id, row : ChangeCase(p, u, id, row)
         \/ \E state, text : Decide(p, u, state, text)
         \/ \E value : TakeOpinion(p, u, value)
    BY <1>25 DEF Serving, DecideTestCase, RecordTestRun
  <2>2. CASE \E id, row : ChangeCase(p, u, id, row)
    BY <1>5, <1>23, <2>2
  <2>3. CASE \E state, text : Decide(p, u, state, text)
    BY <1>5, <2>3 DEF Decide
  <2>4. CASE \E value : TakeOpinion(p, u, value)
    BY <1>6, <1>21, <2>4
  <2> QED
    BY <2>1, <2>2, <2>3, <2>4
<1> QED
  BY <1>6, <1>22, <1>24, <1>25

LEMMA GraphsStaySound ==
  ASSUME Typed, GraphsAreSound, [Next]_vars
  PROVE  GraphsAreSound' /\ (saved' # saved => Sound(saved'))
<1>1. /\ form' = form
      /\ saved' = saved \/ \E p \in Process : proc[p].pc = "save" /\ saved' = proc[p].graph
      /\ \A q \in Process : GraphFrom(proc[q], proc'[q])
  BY GraphsComeFrom
<1>2. Sound(GraphNow)
  BY BuiltIsSound DEF Typed
<1>3. saved # None => Sound(saved) /\ Reload(saved) = saved
  BY ReloadIsTheGraph DEF GraphsAreSound, Sound
<1>4. \A p \in Process : proc[p].graph # None \/ proc[p].pc = "save" => Sound(proc[p].graph)
  BY DEF GraphsAreSound
<1>5. saved' # saved => Sound(saved')
  BY <1>1, <1>4
<1>6. \A q \in Process : proc'[q].graph # None \/ proc'[q].pc = "save" => Sound(proc'[q].graph)
  BY <1>1, <1>2, <1>3, <1>4 DEF GraphFrom
<1>7. Declared' = Declared
  BY <1>1, SameForm DEF Declared
<1>8. saved' # None => Sound(saved')
  BY <1>3, <1>5
<1>9. (saved' # None => Sound(saved)') /\ \A q \in Process : proc'[q].graph # None \/ proc'[q].pc = "save" => Sound(proc[q].graph)'
  BY <1>6, <1>7, <1>8 DEF Sound
<1> QED
  BY <1>5, <1>9 DEF GraphsAreSound

LEMMA SoundInitially == ASSUME Init PROVE Typed /\ Floors /\ GraphsAreSound
<1>1. saved = None /\ \A p \in Process : proc[p] = Down
  BY DEF Init
<1>2. Down.graph = None /\ Down.pc = "down"
  BY DEF Down
<1>3. GraphsAreSound
  BY <1>1, <1>2 DEF GraphsAreSound
<1> QED
  BY <1>3, FloorInitially DEF FloorInv

\* Every graph that is saved with a session is true: walked either way, however
\* deep, it shows no node twice, each at its distance, the nearest first and all
\* of them unless the limit was reached; read back it is the same; and nothing
\* its form declares is absent or counts as missing.  (_walk, add_node, add_edge,
\* build, from_dict)
THEOREM SavedGraphsAreTrue == Spec => SavedGraphIsTrue
<1>1. Init => Typed /\ Floors /\ GraphsAreSound
  BY SoundInitially
<1>2. Typed /\ Floors /\ GraphsAreSound /\ [Next]_vars => (Typed /\ Floors /\ GraphsAreSound)'
  BY FloorPreserved, GraphsStaySound DEF FloorInv
<1>3. Typed /\ Floors /\ GraphsAreSound /\ [Next]_vars => [saved' # saved => GraphIsTrue(saved')]_vars
  BY GraphsStaySound, SoundIsTrue
<1> QED
  BY <1>1, <1>2, <1>3, PTL DEF Spec, SavedGraphIsTrue

\* So is, at every moment, the graph any process answers with: whether it built
\* it, found it in the session's file or kept it over a new opening.
\* (refresh_graph, depends_on, impact, summary)
ShownGraphsAreTrue == \A p \in Process : proc[p].graph # None => GraphIsTrue(proc[p].graph)

THEOREM GraphsShownAreTrue == Spec => []ShownGraphsAreTrue
<1>1. Init => Typed /\ Floors /\ GraphsAreSound
  BY SoundInitially
<1>2. Typed /\ Floors /\ GraphsAreSound /\ [Next]_vars => (Typed /\ Floors /\ GraphsAreSound)'
  BY FloorPreserved, GraphsStaySound DEF FloorInv
<1>3. GraphsAreSound => ShownGraphsAreTrue
  BY SoundIsTrue DEF GraphsAreSound, ShownGraphsAreTrue
<1> QED
  BY <1>1, <1>2, <1>3, PTL DEF Spec
=============================================================================
