---------------------------- MODULE UnitAnalysis ----------------------------
(***************************************************************************)
(* What the deterministic engine says of one code unit (analysis.py): its  *)
(* migration risk (risk.py), whether it still behaves the same             *)
(* (behavior.py), and the cases of its test specification (testspec.py).   *)
(*                                                                         *)
(* Everything is computed from the facts plsql.analyze reads off the text, *)
(* here a record (DependencyGraph lists the fields it shares):             *)
(*   [kind, point, verdict, small, builtins : name -> count, sysvars :     *)
(*    name -> count, literals, items, globals, tables, packages, calls,    *)
(*    sql : set of verbs, handler, branches, lines]                        *)
(* under the rules of an engine version.  Weights are in hundredths.       *)
(***************************************************************************)
EXTENDS Integers, Sequences, FiniteSets, FiniteSetsExt, Functions

CONSTANTS Engine,   \* engine versions, oldest first
          Catalog,  \* spec_for: Catalog[e][b] = [category, class, risk, known]
          Points    \* Points[e][t] = [weight, why, known, moves, commits]: trigger points

Levels == <<"LOW", "MEDIUM", "HIGH", "CRITICAL">>
Behaviors == <<"PRESERVED", "UNCERTAIN", "CHANGED">>
RankIn(scale, x) == CHOOSE i \in DOMAIN scale : scale[i] = x
AtMost(limit, n) == IF n < limit THEN n ELSE limit

Used(f) == DOMAIN f.builtins
Family(e, f, c) == {b \in Used(f) : Catalog[e][b].category = c}
Families(e, f) == {Catalog[e][b].category : b \in Used(f)}
Unknown(e, f) == {b \in Used(f) : ~Catalog[e][b].known}
IsTrigger(f) == f.kind = "trigger"
Writes(f) == f.sql \cap {"insert", "update", "delete"}
Dynamic(f) == (f.sql \cap {"execute_immediate"}) \cup (Used(f) \cap {"FORMS_DDL"})
LiteralsOf(f, test(_)) == {i \in DOMAIN f.literals : test(f.literals[i])}

-----------------------------------------------------------------------------
(* Risk *)

\* _occurrence_multiplier: 1 + log2(count), for counts up to four.
Damped(count) == IF count <= 1 THEN 100 ELSE IF count = 2 THEN 200 ELSE IF count = 3 THEN 258 ELSE 300

\* A construct of this weight is dangerous on its own.
Floor(weight) == IF weight >= 80 THEN "HIGH" ELSE "LOW"

Factor(id, points, floor) == [id |-> id, points |-> points, floor |-> floor]
When(condition, factor) == IF condition THEN {factor} ELSE {}

\* assess: the factors found in the body, each with its points and its floor.
Factors(e, f) ==
  LET row(b) == Catalog[e][b]
      point == Points[e][f.point]
      weigh(b) == (row(b).risk * Damped(f.builtins[b]) * 4) \div 100
      top(c) == Max({row(b).risk : b \in Family(e, f, c)})
      forms == {f.literals[i].value : i \in LiteralsOf(f, LAMBDA l : l.kind = "form")}
      opens == Used(f) \cap {"CALL_FORM", "OPEN_FORM", "NEW_FORM"}
      indirect == Used(f) \cap {"NAME_IN", "COPY"}
      read == Cardinality(LiteralsOf(f, LAMBDA l : l.builtin \in indirect))
      unclassified == Cardinality(Unknown(e, f)) +
                        (IF f.verdict = "UNKNOWN" /\ IsTrigger(f) THEN 1 ELSE 0)
  IN When(IsTrigger(f) /\ point.why,
          Factor("trigger_point", point.weight * 8, Floor(point.weight)))
     \cup {Factor(c, MapThenSumSet(weigh, Family(e, f, c)), Floor(top(c))) : c \in Families(e, f)}
     \cup When(f.sysvars # <<>>,
               Factor("system_vars",
                      MapThenSumSet(LAMBDA v : (row(v).risk * Damped(f.sysvars[v]) * 3) \div 100,
                                    DOMAIN f.sysvars), "LOW"))
     \cup When(f.globals # <<>>, Factor("globals", AtMost(450, 150 * Len(f.globals)), "LOW"))
     \cup When(Dynamic(f) # {}, Factor("dynamic", 600, "HIGH"))
     \cup When(Writes(f) # {}, Factor("dml", 300, "LOW"))
     \cup When(Writes(f) # {} /\ ~f.handler, Factor("dml_no_handler", 200, "LOW"))
     \cup When(forms # {}, Factor("cross_module", 400 * Cardinality(forms), "LOW"))
     \cup When(forms = {} /\ opens # {}, Factor("cross_module_unresolved", 400, "HIGH"))
     \cup When(MapThenSumSet(LAMBDA b : f.builtins[b], indirect) > read,
               Factor("indirection_unresolved", 500, "HIGH"))
     \cup When(unclassified > 0, Factor("catalog_debt", AtMost(800, 400 * unclassified), "LOW"))
     \cup When(f.calls # <<>>, Factor("unresolved_calls", AtMost(400, 100 * Len(f.calls)), "LOW"))
     \cup When(f.lines > 60, Factor("size", AtMost(400, (f.lines * 100) \div 60), "LOW"))

\* score_from_raw and level_for: 100 * (1 - 0.5 ^ (raw / 12)) reaches 20, 45
\* and 70 between these hundredths of raw points.
LevelFor(raw) ==
  IF raw < 387 THEN "LOW" ELSE IF raw < 1035 THEN "MEDIUM" ELSE IF raw < 2085 THEN "HIGH" ELSE "CRITICAL"

Risk(e, f) ==
  LET factors == Factors(e, f)
      scored == LevelFor(MapThenSumSet(LAMBDA x : x.points, factors))
      levels == {RankIn(Levels, scored)} \cup {RankIn(Levels, x.floor) : x \in factors}
  IN Levels[Max(levels)]

-----------------------------------------------------------------------------
(* Behaviour *)

ChangingFamilies == {"transaction", "timer", "client_platform", "form_state", "reporting"}
UncertainFamilies == {"indirection", "dynamic_sql", "unknown"}
ChangingBuiltins == {"LOCK_RECORD", "SHOW_ALERT", "HOST", "USER_EXIT"}
RedrawBuiltins == {"SYNCHRONIZE", "PAUSE"}

\* classify: what observably differs, and what the rules cannot tell.
Changed(e, f) ==
  When(IsTrigger(f) /\ Points[e][f.point].moves = "gone", f.point)
    \cup (Used(f) \cap ChangingBuiltins)
    \cup {b \in Used(f) \ RedrawBuiltins : Catalog[e][b].category \in ChangingFamilies}
    \cup {b \in Used(f) \ ChangingBuiltins : Catalog[e][b].class = "UNSUPPORTED"}

Uncertain(e, f) ==
  LET point == Points[e][f.point] IN
  When(IsTrigger(f) /\ point.moves = "relocated", "moves")
    \cup When(IsTrigger(f) /\ f.verdict = "UNKNOWN", "point")
    \cup {b \in Used(f) : Catalog[e][b].category \in UncertainFamilies}
    \cup When("execute_immediate" \in f.sql, "execute immediate")
    \cup When(f.globals # <<>>, "globals")
    \cup When(Unknown(e, f) # {}, "outside the catalog")

\* The answer: [value, notes], the notes being the uncertainties it lists.
Classify(e, f) ==
  IF f.small THEN [value |-> "UNCERTAIN", notes |-> {"too small"}]
  ELSE [value |-> IF Changed(e, f) # {} THEN "CHANGED"
                  ELSE IF Uncertain(e, f) # {} THEN "UNCERTAIN" ELSE "PRESERVED",
        notes |-> Uncertain(e, f)]

\* merge_ai: an opinion is taken in only when it is more cautious.
MergeAlways(answer, opinion) == [answer EXCEPT !.value = opinion]  \* slip

Merge(answer, opinion) ==
  IF RankIn(Behaviors, opinion) <= RankIn(Behaviors, answer.value) THEN answer
  ELSE [value |-> opinion,
        notes |-> IF opinion = "CHANGED" THEN answer.notes ELSE answer.notes \cup {"AI"}]

\* analyze_task: one row of unit_analysis.
Analyze(e, f) == [engine |-> e, risk |-> Risk(e, f), behavior |-> Classify(e, f)]

-----------------------------------------------------------------------------
(* Test specification *)

\* _REGRESSION_CLASSES: constructs whose behaviour moves.
MovingClasses == {"ARCHITECTURAL_REDESIGN", "CLIENT_SIDE_REPLACEMENT", "UNSUPPORTED", "MANUAL_REVIEW"}

\* The items a body names, against the item metadata of the module (None when
\* the module is not at hand): required, bounded, and those nothing is known of.
Required(f, metadata) == {i \in DOMAIN metadata : i \in Range(f.items) /\ metadata[i].required}
Bounded(f, metadata) == {i \in DOMAIN metadata : i \in Range(f.items) /\ metadata[i].bounded}
Unverified(f, metadata) == Range(f.items) \ DOMAIN metadata

\* generate: the cases, named by what case_id is made of - kind and title.
\* row: the stored analysis; its findings are of the engine that wrote it.
Generate(f, row, metadata) ==
  LET point == Points[row.engine][f.point]
      family(c) == Family(row.engine, f, c) # {}
      case(condition, kind, title) == When(condition, <<kind, title>>)
  IN {<<"normal", "as in Forms">>}
     \cup case(Required(f, metadata) # {}, "nulls", "required")
     \cup case(Unverified(f, metadata) # {}, "nulls", "unverified")
     \cup case(Bounded(f, metadata) # {}, "boundary", "edge")
     \cup case(family("transaction") \/ Writes(f) # {} \/ (IsTrigger(f) /\ point.commits),
               "transaction", "commit")
     \cup case(Writes(f) # {} /\ f.tables # <<>>, "side_effect", "rows")
     \cup case(f.globals # <<>>, "side_effect", "globals")
     \cup case("execute_immediate" \in f.sql, "side_effect", "dynamic")
     \cup case(f.handler, "exception", "handled")
     \cup case(~f.handler /\ (f.sql # {} \/ f.branches), "exception", "unhandled")
     \cup {<<"regression", Catalog[row.engine][b].category>> :
             b \in {x \in Used(f) : Catalog[row.engine][x].class \in MovingClasses}}
     \cup {<<"question", note>> : note \in row.behavior.notes}
=============================================================================
