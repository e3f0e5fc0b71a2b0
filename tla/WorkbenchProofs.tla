-------------------------- MODULE WorkbenchProofs --------------------------
(***************************************************************************)
(* What the record of a conversion run says is true, and one request to a  *)
(* provider is under way at a time, for every set of sessions, tasks,      *)
(* browsers and providers and for every bound.  The inductive invariant    *)
(* says of every row what holds for good (RowIsTrue), and of the row of    *)
(* the run under way what holds at each place of the conversion thread.    *)
(* The end of the module is about the page the same sessions export: what  *)
(* every kept plan, placed page and written page is made of (ExportInv).   *)
(***************************************************************************)
EXTENDS WorkbenchJob, PageExport, FiniteSetTheorems, SequenceTheorems, WellFoundedInduction, TLAPS

Prints == {Fingerprint[t] : t \in Tasks}
Outcomes == {"completed", "cancelled", "crashed"}
Loop == {"check", "convert", "save", "merge", "advance", "sync"}

WorkerState ==
  [pc : {"none", "final", "finish", "stop"} \cup Loop, run : Nat, left : Seq(Tasks \cup Strangers),
   task : Tasks \cup {None}, result : Proposal \cup {None},
   first : [Prints -> Tasks \cup {None}], outcome : Outcomes]

JobState == [running : BOOLEAN, run : Nat, home : Sessions \cup {None}, done : Nat, failed : Nat]

Typed ==
  /\ runs \in [Sessions -> Seq(Run)]
  /\ latest \in [Sessions -> [Tasks -> Nat]]
  /\ cautious \in [Sessions -> SUBSET Tasks]
  /\ up \in BOOLEAN /\ store \in Sessions /\ provider \in Providers
  /\ job \in JobState /\ worker \in WorkerState
  /\ captured \in [Cancels -> Nat \cup {None}]

-----------------------------------------------------------------------------
(* Rows: r is a row, l the latest proposals and c the cautious tasks of its *)
(* session.                                                                 *)

Saved(r) == {t \in Tasks : r.proposals[t] # None}
Converted(r, t) == r.proposals[t] # None /\ r.proposals[t].answer # Failed

Counted(r) ==
  /\ IsFiniteSet(Saved(r))
  /\ r.failed <= r.done /\ r.done <= Cardinality(Saved(r)) /\ Cardinality(Saved(r)) <= r.done + 1
  /\ r.status = "completed" => Saved(r) = r.units /\ r.done = Cardinality(r.units)

Alike(r) ==
  /\ \A t, u \in Tasks :
       Converted(r, t) /\ Converted(r, u) /\ Fingerprint[t] = Fingerprint[u] /\ Fingerprint[t] # None
         => r.proposals[t] = r.proposals[u]
  /\ \A t \in Saved(r) : r.proposals[t].by = r.announced

Cut(r) ==
  /\ r.late <= 1 /\ (r.late > 0 => r.cancel)
  /\ r.status = "cancelled" => r.cancel

Warned(r, c) == \A t \in Saved(r) : r.proposals[t].answer \in Cautious => t \in c

RowIsTrue(r, l, c) ==
  /\ Counted(r) /\ Alike(r) /\ Cut(r)
  /\ \A t \in Saved(r) : l[t] # 0
  /\ r.status \in {"completed", "cancelled"} => Warned(r, c)

RowsAreTrue ==
  \A s \in Sessions : \A i \in DOMAIN runs[s] : RowIsTrue(runs[s][i], latest[s], cautious[s])

-----------------------------------------------------------------------------
(* The run under way: w is the conversion thread and j the job in memory.   *)

Elements(q) == {q[i] : i \in DOMAIN q}
Distinct(q) == \A i, k \in DOMAIN q : q[i] = q[k] => i = k
Left(w) == Elements(w.left)
InHand(w) == IF w.pc \in {"convert", "save"} THEN {w.task} ELSE {}

\* The units in the order they are still to come: none twice, none done.
UnitsLeft(w, r) ==
  w.pc \in Loop =>
    /\ Distinct(w.left)
    /\ Left(w) \cap (Saved(r) \cup InHand(w)) = {}
    /\ r.units = Saved(r) \cup InHand(w) \cup (Tasks \cap Left(w))
    /\ w.outcome = "completed"

UnitInHand(w, r) ==
  /\ w.pc \in {"convert", "save"} => w.task \in Tasks \ Saved(r) /\ r.late = 0
  /\ w.pc = "merge" => w.task \in Saved(r) /\ r.proposals[w.task] = w.result

\* What is counted in memory lags the rows by the unit in hand, and the record
\* lags the memory.
Counts(w, r, j) ==
  /\ j.failed <= j.done /\ r.done <= j.done /\ j.done <= Cardinality(Saved(r))
  /\ w.pc \in {"check", "convert", "save"} => r.done = Cardinality(Saved(r))
  /\ w.pc \in {"merge", "advance"} => j.done + 1 = Cardinality(Saved(r))
  /\ w.pc = "sync" => j.done = Cardinality(Saved(r))
  /\ w.pc = "finish" => r.done = j.done /\ r.failed = j.failed

\* The record of the job's run, when it is at its end.
Settles(r, j) == r.lost \/ (r.status # "running" /\ r.done = j.done /\ r.failed = j.failed)

Ends(w, r, j) ==
  /\ w.pc # "stop" => r.status \in {"running", "crashed"}
  /\ w.pc = "stop" => Settles(r, j)
  /\ w.pc \in {"final", "finish"} /\ w.outcome = "completed" =>
       Saved(r) = r.units /\ j.done = Cardinality(r.units)
  /\ w.outcome = "cancelled" => r.cancel

\* The first unit with each body, and what was answered for it.
Remembered(w, r, l) ==
  w.pc \in Loop =>
    /\ \A f \in Prints : w.first[f] # None /\ f # None =>
         /\ Converted(r, w.first[f]) /\ Fingerprint[w.first[f]] = f /\ l[w.first[f]] = w.run
    /\ \A t \in Tasks :
         Converted(r, t) /\ Fingerprint[t] # None /\ ~(w.pc = "merge" /\ t = w.task) =>
           /\ w.first[Fingerprint[t]] # None
           /\ r.proposals[t] = r.proposals[w.first[Fingerprint[t]]]
    /\ w.pc = "merge" => l[w.task] = w.run
    /\ w.pc \in {"save", "merge"} =>
         /\ w.result # None /\ w.result.by = r.announced
         /\ Fingerprint[w.task] # None /\ w.first[Fingerprint[w.task]] # None =>
              w.result = r.proposals[w.first[Fingerprint[w.task]]]

\* Every warning is stored, but the one of the unit in hand.
Warning(w, r, c) ==
  \A t \in Saved(r) : r.proposals[t].answer \in Cautious =>
    t \in c \/ w.outcome = "crashed" \/ (w.pc = "merge" /\ t = w.task)

Progress(w, r, j, l, c) ==
  /\ UnitsLeft(w, r) /\ UnitInHand(w, r) /\ Counts(w, r, j) /\ Ends(w, r, j)
  /\ Remembered(w, r, l) /\ Warning(w, r, c)

UnderWay ==
  worker.pc # "none" =>
    /\ up /\ job.home = store /\ job.run = worker.run /\ worker.run \in DOMAIN runs[store]
    /\ worker.run # 0 /\ Mine.announced = provider
    /\ Progress(worker, Mine, job, latest[store], cautious[store])

Standing ==
  /\ job.running <=> worker.pc # "none"
  /\ ~job.running /\ job.run # 0 =>
       job.home \in Sessions /\ job.run \in DOMAIN runs[job.home] /\ Settles(runs[job.home][job.run], job)
  /\ ~up => ~job.running
  /\ RunningRowsAreLive

IInv == Typed /\ RowsAreTrue /\ UnderWay /\ Standing

\* The explanation under way is the one inside the provider, and no
\* conversion runs beside it.
OneAtATime ==
  /\ calls = IF active = None THEN {} ELSE {active}
  /\ active # None => ~job.running

\* Explanations are numbered upwards, and none twice.
Explanation ==
  [id : Nat, context : Sessions \X Providers, status : {"running", "completed", "failed", "cancelled"}]

Numbered ==
  /\ spent \in [crashes : Nat, visits : Nat, failures : Nat, explanations : Nat]
  /\ explained \in Seq(Explanation)
  /\ \A n \in DOMAIN explained : explained[n].id <= spent.explanations
  /\ \A n, m \in DOMAIN explained : explained[n].id = explained[m].id => n = m

-----------------------------------------------------------------------------
(* Steps of the conversion thread, from w to v *)

Numbers(r, j) == {r.done, r.failed, r.late, j.done, j.failed} \subseteq Nat

\* The loop is left: exhausted, cancelled between two units, or broken off.
LEMMA LeavingTheLoop ==
  ASSUME NEW w, NEW r, NEW j, NEW l, NEW c, NEW v, Progress(w, r, j, l, c), RowIsTrue(r, l, c), Numbers(r, j),
         w.pc \in Loop, v.pc = "final", v.outcome \in Outcomes,
         v.outcome = "completed" => w.pc = "check" /\ w.left = <<>>,
         v.outcome = "cancelled" => w.pc = "check" /\ r.cancel
  PROVE  Progress(v, r, j, l, c)
<1>1. UnitsLeft(v, r) /\ UnitInHand(v, r) /\ Remembered(v, r, l)
  BY DEF UnitsLeft, UnitInHand, Remembered, Loop
<1>2. Counts(v, r, j)
  BY DEF Progress, Counts
<1>3. v.outcome = "completed" => Saved(r) = r.units /\ j.done = Cardinality(r.units)
  <2>1. ASSUME v.outcome = "completed" PROVE Saved(r) = r.units
    <3>1. Left(w) = {} /\ InHand(w) = {}
      BY <2>1 DEF Left, Elements, InHand
    <3> QED BY <3>1 DEF Progress, UnitsLeft
  <2>2. ASSUME v.outcome = "completed" PROVE j.done = Cardinality(Saved(r))
    BY <2>2 DEF Progress, Counts, RowIsTrue, Counted, Numbers
  <2> QED BY <2>1, <2>2
<1>4. Ends(v, r, j)
  BY <1>3 DEF Progress, Ends, Loop
<1>5. Warning(v, r, c)
  BY DEF Progress, Warning, UnitsLeft, Loop, Outcomes
<1> QED BY <1>1, <1>2, <1>4, <1>5 DEF Progress

LEMMA HeadAndTail ==
  ASSUME NEW S, NEW q \in Seq(S), q # <<>>, Distinct(q)
  PROVE  /\ Head(q) \in S /\ Tail(q) \in Seq(S) /\ Distinct(Tail(q))
         /\ Head(q) \notin Elements(Tail(q)) /\ Elements(q) = {Head(q)} \cup Elements(Tail(q))
<1>1. Len(q) \in Nat /\ Len(q) > 0 /\ DOMAIN q = 1..Len(q) /\ \A i \in 1..Len(q) : q[i] \in S
  BY LenProperties, EmptySeq
<1>2. Tail(q) \in Seq(S) /\ DOMAIN Tail(q) = 1..(Len(q) - 1) /\ \A i \in 1..(Len(q) - 1) : Tail(q)[i] = q[i + 1]
  BY <1>1
<1>3. Head(q) = q[1] /\ 1 \in DOMAIN q
  BY <1>1
<1>4. Elements(q) \subseteq {Head(q)} \cup Elements(Tail(q))
  <2>1. ASSUME NEW i \in DOMAIN q, i # 1 PROVE q[i] = Tail(q)[i - 1] /\ i - 1 \in DOMAIN Tail(q)
    BY <1>1, <1>2, <2>1
  <2> QED BY <1>3, <2>1 DEF Elements
<1>5. {Head(q)} \cup Elements(Tail(q)) \subseteq Elements(q)
  <2>1. ASSUME NEW i \in DOMAIN Tail(q) PROVE Tail(q)[i] = q[i + 1] /\ i + 1 \in DOMAIN q
    BY <1>1, <1>2
  <2> QED BY <1>3, <2>1 DEF Elements
<1>6. Distinct(Tail(q))
  BY <1>1, <1>2 DEF Distinct
<1>7. Head(q) \notin Elements(Tail(q))
  BY <1>1, <1>2, <1>3 DEF Distinct, Elements
<1>8. Head(q) \in S
  BY <1>1, <1>3
<1> QED BY <1>2, <1>4, <1>5, <1>6, <1>7, <1>8

\* The head of what is left is taken in hand, or skipped if it is no task.
LEMMA TakingAUnit ==
  ASSUME NEW w, NEW r, NEW j, NEW l, NEW c, NEW v, Progress(w, r, j, l, c), RowIsTrue(r, l, c), Numbers(r, j),
         w.pc = "check", w.left \in Seq(Tasks \cup Strangers), w.left # <<>>,
         v.left = Tail(w.left), v.first = w.first, v.run = w.run, v.outcome = w.outcome,
         \/ v.pc = "check" /\ Head(w.left) \notin Tasks
         \/ v.pc = "convert" /\ v.task = Head(w.left) /\ v.task \in Tasks /\ ~r.cancel
  PROVE  Progress(v, r, j, l, c)
<1>0. "check" \in Loop /\ v.pc \in Loop /\ v.pc \in {"check", "convert"}
  BY DEF Loop
<1>1. Distinct(v.left) /\ Head(w.left) \notin Left(v) /\ Left(w) = {Head(w.left)} \cup Left(v)
  <2>1. Distinct(w.left)
    BY <1>0 DEF Progress, UnitsLeft
  <2> QED BY <2>1, HeadAndTail DEF Left
<1>2. InHand(w) = {} /\ (v.pc = "check" => InHand(v) = {}) /\ (v.pc = "convert" => InHand(v) = {Head(w.left)})
  BY DEF InHand
<1>3. /\ Left(w) \cap Saved(r) = {} /\ r.units = Saved(r) \cup (Tasks \cap Left(w)) /\ w.outcome = "completed"
  BY <1>0, <1>2 DEF Progress, UnitsLeft
<1>4. UnitsLeft(v, r)
  BY <1>0, <1>1, <1>2, <1>3 DEF UnitsLeft
<1>5. UnitInHand(v, r)
  <2>1. ~r.cancel => r.late = 0
    BY DEF RowIsTrue, Cut, Numbers
  <2> QED BY <1>0, <1>1, <1>3, <2>1 DEF UnitInHand
<1>6. Counts(v, r, j) /\ Ends(v, r, j) /\ Warning(v, r, c)
  BY <1>0 DEF Progress, Counts, Ends, Warning
<1>7. Remembered(v, r, l)
  BY <1>0 DEF Progress, Remembered
<1> QED BY <1>4, <1>5, <1>6, <1>7 DEF Progress

\* The unit has an answer of the run's provider, the same as its twin's.
LEMMA Converting ==
  ASSUME NEW w, NEW r, NEW j, NEW l, NEW c, NEW v, Progress(w, r, j, l, c),
         w.pc = "convert", v.pc = "save",
         v.left = w.left, v.first = w.first, v.run = w.run, v.outcome = w.outcome, v.task = w.task,
         v.result # None, v.result.by = r.announced,
         Fingerprint[w.task] # None /\ w.first[Fingerprint[w.task]] # None =>
           v.result = r.proposals[w.first[Fingerprint[w.task]]]
  PROVE  Progress(v, r, j, l, c)
<1>1. UnitsLeft(v, r) /\ UnitInHand(v, r)
  BY DEF Progress, UnitsLeft, UnitInHand, Loop, Left, InHand
<1>2. Counts(v, r, j) /\ Ends(v, r, j) /\ Warning(v, r, c)
  BY DEF Progress, Counts, Ends, Warning
<1>3. Remembered(v, r, l)
  BY DEF Progress, Remembered, Loop
<1> QED BY <1>1, <1>2, <1>3 DEF Progress

\* g is the function f, but for x.
Updated(g, f, S, x, y) == \A z \in S : g[z] = (IF z = x THEN y ELSE f[z])

\* The proposal is stored: r becomes q and l becomes m.
LEMMA SavingAProposal ==
  ASSUME NEW w, NEW r, NEW j, NEW l, NEW c, NEW v, NEW q, NEW m,
         Progress(w, r, j, l, c), RowIsTrue(r, l, c), Numbers(r, j),
         w.pc = "save", v.pc = "merge", w.run # 0, w.first \in [Prints -> Tasks \cup {None}],
         v.left = w.left, v.first = w.first, v.run = w.run, v.outcome = w.outcome, v.task = w.task, v.result = w.result,
         Updated(q.proposals, r.proposals, Tasks, w.task, w.result),
         q.late = (IF r.cancel THEN 1 ELSE r.late), q.cancel = r.cancel, q.status = r.status, q.units = r.units,
         q.done = r.done, q.failed = r.failed, q.announced = r.announced,
         Updated(m, l, Tasks, w.task, w.run)
  PROVE  Progress(v, q, j, m, c) /\ RowIsTrue(q, m, c)
<1>1. w.task \in Tasks /\ w.task \notin Saved(r) /\ r.late = 0 /\ w.outcome = "completed"
  BY DEF Progress, UnitInHand, UnitsLeft, Loop
<1>2. w.result # None /\ w.result.by = r.announced
  BY DEF Progress, Remembered, Loop
<1>3. /\ Fingerprint[w.task] # None /\ w.first[Fingerprint[w.task]] # None =>
           w.result = r.proposals[w.first[Fingerprint[w.task]]]
      /\ \A f \in Prints : w.first[f] # None /\ f # None =>
           /\ Converted(r, w.first[f]) /\ Fingerprint[w.first[f]] = f /\ l[w.first[f]] = w.run
      /\ \A t \in Tasks :
           Converted(r, t) /\ Fingerprint[t] # None =>
             /\ w.first[Fingerprint[t]] # None
             /\ r.proposals[t] = r.proposals[w.first[Fingerprint[t]]]
  BY DEF Progress, Remembered, Loop
<1>5. /\ \A t \in Tasks : t # w.task => q.proposals[t] = r.proposals[t] /\ m[t] = l[t]
      /\ q.proposals[w.task] = w.result /\ m[w.task] = w.run
  BY <1>1 DEF Updated
<1>4. Saved(q) = Saved(r) \cup {w.task} /\ q.proposals[w.task] = w.result
  BY <1>1, <1>2, <1>5 DEF Saved
<1>6. IsFiniteSet(Saved(q)) /\ Cardinality(Saved(q)) = Cardinality(Saved(r)) + 1
  <2>1. IsFiniteSet(Saved(r))
    BY DEF RowIsTrue, Counted
  <2> QED BY ONLY <1>1, <1>4, <2>1, FS_AddElement
<1>n. Cardinality(Saved(r)) \in Nat
  BY FS_CardinalityType DEF RowIsTrue, Counted
<1>7. Counted(q)
  <2>1. r.status \in {"running", "crashed"}
    BY DEF Progress, Ends
  <2>2. r.done = Cardinality(Saved(r)) /\ r.failed <= r.done
    BY DEF Progress, Counts, RowIsTrue, Counted
  <2> QED BY <1>6, <1>n, <2>1, <2>2 DEF Counted
<1>8. Alike(q)
  <2>1. \A t \in Tasks : Converted(q, t) /\ t # w.task => Converted(r, t)
    BY <1>5 DEF Converted
  <2>2. ASSUME NEW t \in Tasks, Converted(q, t), t # w.task, Fingerprint[t] = Fingerprint[w.task], Fingerprint[t] # None
        PROVE  q.proposals[t] = q.proposals[w.task]
    BY <1>1, <1>3, <1>4, <1>5, <2>1, <2>2
  <2>3. ASSUME NEW t \in Tasks, NEW u \in Tasks, t # w.task, u # w.task, Converted(q, t), Converted(q, u),
               Fingerprint[t] = Fingerprint[u], Fingerprint[t] # None
        PROVE  q.proposals[t] = q.proposals[u]
    BY <1>5, <2>1, <2>3 DEF RowIsTrue, Alike
  <2>4. \A t \in Saved(q) : q.proposals[t].by = q.announced
    BY <1>2, <1>4, <1>5 DEF RowIsTrue, Alike, Saved
  <2> QED BY <2>2, <2>3, <2>4 DEF Alike
<1>9. Cut(q)
  BY <1>1 DEF RowIsTrue, Cut
<1>10. RowIsTrue(q, m, c)
  <2>1. \A t \in Saved(q) : m[t] # 0
    BY <1>1, <1>4, <1>5 DEF RowIsTrue, Saved
  <2>2. q.status \notin {"completed", "cancelled"}
    BY DEF Progress, Ends
  <2> QED BY <1>7, <1>8, <1>9, <2>1, <2>2 DEF RowIsTrue
<1>11. UnitsLeft(v, q) /\ UnitInHand(v, q)
  <2>1. /\ Distinct(w.left) /\ Left(w) \cap (Saved(r) \cup {w.task}) = {}
        /\ r.units = Saved(r) \cup {w.task} \cup (Tasks \cap Left(w))
    BY DEF Progress, UnitsLeft, InHand, Loop
  <2>2. Left(v) = Left(w) /\ InHand(v) = {}
    BY DEF Left, InHand
  <2> QED BY <1>1, <1>4, <2>1, <2>2 DEF UnitsLeft, UnitInHand
<1>12. Counts(v, q, j)
  <2>1. /\ j.failed <= j.done /\ r.done <= j.done /\ j.done <= Cardinality(Saved(r))
        /\ r.done = Cardinality(Saved(r))
    BY DEF Progress, Counts
  <2> QED BY <1>6, <1>n, <2>1 DEF Counts, Numbers
<1>13. Ends(v, q, j) /\ Warning(v, q, c)
  <2>1. \A t \in Saved(r) : r.proposals[t].answer \in Cautious => t \in c
    BY <1>1 DEF Progress, Warning
  <2>2. Warning(v, q, c)
    BY <1>4, <1>5, <2>1 DEF Warning, Saved
  <2> QED BY <1>1, <2>2 DEF Progress, Ends
<1>14. Remembered(v, q, m)
  <2>1. \A f \in Prints : w.first[f] # None /\ f # None => w.first[f] \in Tasks \ {w.task}
    <3>1. ASSUME NEW f \in Prints, w.first[f] # None, f # None PROVE w.first[f] \in Saved(r) /\ w.first[f] \in Tasks
      BY <1>3, <3>1 DEF Converted, Saved
    <3> QED BY <1>1, <3>1
  <2>2. Fingerprint[w.task] \in Prints /\ \A t \in Tasks : Fingerprint[t] \in Prints
    BY <1>1 DEF Prints
  <2>3. \A f \in Prints : v.first[f] # None /\ f # None =>
          /\ Converted(q, v.first[f]) /\ Fingerprint[v.first[f]] = f /\ m[v.first[f]] = v.run
    BY <1>3, <1>5, <2>1 DEF Converted
  <2>4. \A t \in Tasks : Converted(q, t) /\ Fingerprint[t] # None /\ t # v.task =>
          /\ v.first[Fingerprint[t]] # None
          /\ q.proposals[t] = q.proposals[v.first[Fingerprint[t]]]
    BY <1>3, <1>5, <2>1, <2>2 DEF Converted
  <2>5. Fingerprint[v.task] # None /\ v.first[Fingerprint[v.task]] # None =>
          v.result = q.proposals[v.first[Fingerprint[v.task]]]
    BY <1>3, <1>5, <2>1, <2>2
  <2>6. m[v.task] = v.run
    BY <1>5
  <2> QED BY <1>2, <2>3, <2>4, <2>5, <2>6 DEF Remembered
<1> QED BY <1>10, <1>11, <1>12, <1>13, <1>14 DEF Progress

\* The warning of the unit in hand is stored, and the unit remembered as the
\* first with its body: c becomes d.
LEMMA Merging ==
  ASSUME NEW w, NEW r, NEW j, NEW l, NEW c, NEW v, NEW d,
         Progress(w, r, j, l, c), RowIsTrue(r, l, c),
         w.pc = "merge", v.pc = "advance", w.first \in [Prints -> Tasks \cup {None}],
         v.left = w.left, v.run = w.run, v.outcome = w.outcome, v.task = w.task,
         Updated(v.first, w.first, Prints, Fingerprint[w.task],
                 IF w.result.answer # Failed /\ Fingerprint[w.task] # None /\ w.first[Fingerprint[w.task]] = None
                 THEN w.task ELSE w.first[Fingerprint[w.task]]),
         c \subseteq d, w.result.answer \in Cautious => w.task \in d
  PROVE  Progress(v, r, j, l, d) /\ RowIsTrue(r, l, d)
<1>1. w.task \in Saved(r) /\ w.task \in Tasks /\ r.proposals[w.task] = w.result /\ Fingerprint[w.task] \in Prints
  BY DEF Progress, UnitInHand, Saved, Prints
<1>2. UnitsLeft(v, r) /\ UnitInHand(v, r)
  BY DEF Progress, UnitsLeft, UnitInHand, Loop, Left, InHand
<1>3. Counts(v, r, j) /\ Ends(v, r, j)
  BY DEF Progress, Counts, Ends
<1>4. Warning(v, r, d)
  BY <1>1 DEF Progress, Warning
<1>5. Remembered(v, r, l)
  <2>1. /\ \A f \in Prints : w.first[f] # None /\ f # None =>
             /\ Converted(r, w.first[f]) /\ Fingerprint[w.first[f]] = f /\ l[w.first[f]] = w.run
        /\ \A t \in Tasks :
             Converted(r, t) /\ Fingerprint[t] # None /\ t # w.task =>
               /\ w.first[Fingerprint[t]] # None
               /\ r.proposals[t] = r.proposals[w.first[Fingerprint[t]]]
        /\ w.result # None /\ l[w.task] = w.run
        /\ Fingerprint[w.task] # None /\ w.first[Fingerprint[w.task]] # None =>
             w.result = r.proposals[w.first[Fingerprint[w.task]]]
    BY DEF Progress, Remembered, Loop
  <2>2. None \notin Tasks
    BY ConstantsAssumption
  <2>f. \A f \in Prints :
          v.first[f] = (IF f = Fingerprint[w.task] /\ w.result.answer # Failed /\ f # None /\ w.first[f] = None
                        THEN w.task ELSE w.first[f])
    BY DEF Updated
  <2>3. ASSUME NEW f \in Prints, v.first[f] # None, f # None
        PROVE  Converted(r, v.first[f]) /\ Fingerprint[v.first[f]] = f /\ l[v.first[f]] = v.run
    BY <1>1, <2>f, <2>1, <2>3 DEF Converted
  <2>4. ASSUME NEW t \in Tasks, Converted(r, t), Fingerprint[t] # None
        PROVE  /\ v.first[Fingerprint[t]] # None
               /\ r.proposals[t] = r.proposals[v.first[Fingerprint[t]]]
    <3>1. Fingerprint[t] \in Prints
      BY DEF Prints
    <3>2. CASE t # w.task /\ w.first[Fingerprint[t]] # None
      BY <1>1, <2>f, <2>1, <2>4, <3>1, <3>2
    <3>3. CASE t = w.task /\ w.first[Fingerprint[t]] # None
      BY <1>1, <2>f, <2>1, <2>4, <3>1, <3>3
    <3>4. CASE t = w.task /\ w.first[Fingerprint[t]] = None
      BY <1>1, <2>f, <2>2, <2>4, <3>1, <3>4 DEF Converted
    <3> QED BY <2>1, <2>4, <3>2, <3>3, <3>4
  <2> QED BY <2>3, <2>4 DEF Remembered
<1>6. RowIsTrue(r, l, d)
  BY DEF RowIsTrue, Warned
<1> QED BY <1>2, <1>3, <1>4, <1>5, <1>6 DEF Progress

\* The unit is counted in memory: j becomes k.
LEMMA Advancing ==
  ASSUME NEW w, NEW r, NEW j, NEW l, NEW c, NEW v, NEW k, Progress(w, r, j, l, c), RowIsTrue(r, l, c), Numbers(r, j),
         w.pc = "advance", v.pc = "sync",
         v.left = w.left, v.first = w.first, v.run = w.run, v.outcome = w.outcome,
         k.done = j.done + 1, k.failed \in {j.failed, j.failed + 1}
  PROVE  Progress(v, r, k, l, c)
<1>1. UnitsLeft(v, r) /\ UnitInHand(v, r)
  BY DEF Progress, UnitsLeft, UnitInHand, Loop, Left, InHand
<1>n. Cardinality(Saved(r)) \in Nat
  BY FS_CardinalityType DEF RowIsTrue, Counted
<1>2. Counts(v, r, k)
  BY <1>n DEF Progress, Counts, Numbers
<1>3. Ends(v, r, k) /\ Warning(v, r, c)
  BY DEF Progress, Ends, Warning
<1>4. Remembered(v, r, l)
  BY DEF Progress, Remembered, Loop
<1> QED BY <1>1, <1>2, <1>3, <1>4 DEF Progress

\* The record catches up with the memory, in the loop or after it.
LEMMA Syncing ==
  ASSUME NEW w, NEW r, NEW j, NEW l, NEW c, NEW v, NEW q, Progress(w, r, j, l, c), RowIsTrue(r, l, c), Numbers(r, j),
         \/ w.pc = "sync" /\ v.pc = "check"
         \/ w.pc = "final" /\ v.pc = "finish",
         v.left = w.left, v.first = w.first, v.run = w.run, v.outcome = w.outcome,
         q.done = j.done, q.failed = j.failed, q.proposals = r.proposals, q.late = r.late, q.cancel = r.cancel,
         q.status = r.status, q.units = r.units, q.announced = r.announced
  PROVE  Progress(v, q, j, l, c) /\ RowIsTrue(q, l, c)
<1>1. Saved(q) = Saved(r) /\ \A t : Converted(q, t) <=> Converted(r, t)
  BY DEF Saved, Converted
<1>n. Cardinality(Saved(r)) \in Nat
  BY FS_CardinalityType DEF RowIsTrue, Counted
<1>2. UnitsLeft(v, q) /\ UnitInHand(v, q)
  BY <1>1 DEF Progress, UnitsLeft, UnitInHand, Loop, Left, InHand
<1>3. Counts(v, q, j)
  BY <1>1, <1>n DEF Progress, Counts, Numbers
<1>4. Ends(v, q, j) /\ Warning(v, q, c)
  BY <1>1 DEF Progress, Ends, Warning
<1>5. Remembered(v, q, l)
  BY <1>1 DEF Progress, Remembered, Loop
<1>6. Counted(q)
  <2>1. q.status # "completed"
    BY DEF Progress, Ends
  <2>2. j.failed <= j.done /\ r.done <= j.done /\ j.done <= Cardinality(Saved(r)) /\ Cardinality(Saved(r)) <= r.done + 1
    BY DEF Progress, Counts, RowIsTrue, Counted
  <2>3. IsFiniteSet(Saved(q))
    BY <1>1 DEF RowIsTrue, Counted
  <2> QED BY <1>1, <1>n, <2>1, <2>2, <2>3 DEF Counted, Numbers
<1>7. Alike(q)
  BY <1>1 DEF RowIsTrue, Alike
<1>8. RowIsTrue(q, l, c)
  BY <1>1, <1>6, <1>7 DEF RowIsTrue, Cut, Warned
<1> QED BY <1>2, <1>3, <1>4, <1>5, <1>8 DEF Progress

\* The end is written, or cannot be.
LEMMA Ending ==
  ASSUME NEW w, NEW r, NEW j, NEW l, NEW c, NEW v, NEW q, Progress(w, r, j, l, c), RowIsTrue(r, l, c), Numbers(r, j),
         v.pc = "stop", v.outcome = w.outcome, w.outcome \in Outcomes,
         q.done = r.done, q.failed = r.failed, q.proposals = r.proposals, q.late = r.late, q.cancel = r.cancel,
         q.units = r.units, q.announced = r.announced,
         \/ w.pc = "finish" /\ q.status = w.outcome
         \/ w.pc \in {"final", "finish"} /\ q.status = r.status /\ q.lost
  PROVE  Progress(v, q, j, l, c) /\ RowIsTrue(q, l, c)
<1>1. Saved(q) = Saved(r) /\ \A t : Converted(q, t) <=> Converted(r, t)
  BY DEF Saved, Converted
<1>2. UnitsLeft(v, q) /\ UnitInHand(v, q) /\ Remembered(v, q, l)
  BY DEF UnitsLeft, UnitInHand, Remembered, Loop
<1>3. Counts(v, q, j)
  BY <1>1 DEF Progress, Counts
<1>4. Ends(v, q, j)
  BY DEF Progress, Ends, Settles, Counts, Outcomes
<1>5. Warning(v, q, c)
  BY <1>1 DEF Progress, Warning
<1>6. Counted(q)
  <2>1. ASSUME q.status = "completed" PROVE Saved(q) = q.units /\ q.done = Cardinality(q.units)
    BY <1>1, <2>1 DEF Progress, Ends, Counts
  <2> QED BY <1>1, <2>1 DEF RowIsTrue, Counted
<1>7. Alike(q)
  BY <1>1 DEF RowIsTrue, Alike
<1>8. Cut(q)
  BY DEF Progress, Ends, RowIsTrue, Cut
<1>9. q.status \in {"completed", "cancelled"} => Warned(q, c)
  BY <1>1 DEF Progress, Ends, Warning, Warned
<1>10. RowIsTrue(q, l, c)
  BY <1>1, <1>6, <1>7, <1>8, <1>9 DEF RowIsTrue
<1> QED BY <1>2, <1>3, <1>4, <1>5, <1>10 DEF Progress

\* What others do to a row: ask for a cancellation, or declare it crashed.
Touched(r, q) ==
  /\ \A f \in {"done", "failed", "late", "lost", "proposals", "units", "announced"} : q[f] = r[f]
  /\ r.cancel => q.cancel
  /\ q.status = r.status \/ (r.status = "running" /\ q.status = "crashed")

LEMMA Touching ==
  ASSUME NEW r, NEW q, Touched(r, q)
  PROVE  /\ \A l, c : RowIsTrue(r, l, c) => RowIsTrue(q, l, c)
         /\ \A w, j, l, c : Progress(w, r, j, l, c) => Progress(w, q, j, l, c)
         /\ \A j : Settles(r, j) => Settles(q, j)
<1>0. /\ q.done = r.done /\ q.failed = r.failed /\ q.late = r.late /\ q.lost = r.lost
      /\ q.proposals = r.proposals /\ q.units = r.units /\ q.announced = r.announced
      /\ r.cancel => q.cancel
      /\ q.status = r.status \/ (r.status = "running" /\ q.status = "crashed")
  BY DEF Touched
<1>1. Saved(q) = Saved(r) /\ \A t : Converted(q, t) <=> Converted(r, t)
  BY <1>0 DEF Saved, Converted
<1>2. ASSUME NEW l, NEW c, RowIsTrue(r, l, c) PROVE RowIsTrue(q, l, c)
  <2>1. Counted(q)
    BY <1>0, <1>1, <1>2 DEF RowIsTrue, Counted
  <2>2. Alike(q)
    BY <1>0, <1>1, <1>2 DEF RowIsTrue, Alike
  <2>3. Cut(q)
    BY <1>0, <1>2 DEF RowIsTrue, Cut
  <2>4. q.status \in {"completed", "cancelled"} => Warned(q, c)
    BY <1>0, <1>1, <1>2 DEF RowIsTrue, Warned
  <2> QED BY <1>1, <1>2, <2>1, <2>2, <2>3, <2>4 DEF RowIsTrue
<1>3. \A j : Settles(r, j) => Settles(q, j)
  BY <1>0 DEF Settles
<1>4. ASSUME NEW w, NEW j, NEW l, NEW c, Progress(w, r, j, l, c) PROVE Progress(w, q, j, l, c)
  <2>1. UnitsLeft(w, q) /\ UnitInHand(w, q)
    BY <1>0, <1>1, <1>4 DEF Progress, UnitsLeft, UnitInHand
  <2>2. Counts(w, q, j)
    BY <1>0, <1>1, <1>4 DEF Progress, Counts
  <2>3. Ends(w, q, j)
    BY <1>0, <1>1, <1>3, <1>4 DEF Progress, Ends
  <2>4. Remembered(w, q, l)
    BY <1>0, <1>1, <1>4 DEF Progress, Remembered
  <2>5. Warning(w, q, c)
    BY <1>0, <1>1, <1>4 DEF Progress, Warning
  <2> QED BY <2>1, <2>2, <2>3, <2>4, <2>5 DEF Progress
<1> QED BY <1>2, <1>3, <1>4

-----------------------------------------------------------------------------
(* Steps of the whole *)

LEMMA RowChange ==
  ASSUME Typed, NEW s \in Sessions, NEW i \in DOMAIN runs[s], NEW q \in Run,
         runs' = [runs EXCEPT ![s][i] = q]
  PROVE  /\ runs' \in [Sessions -> Seq(Run)] /\ runs'[s][i] = q
         /\ \A x \in Sessions : DOMAIN runs'[x] = DOMAIN runs[x]
         /\ \A x \in Sessions : \A k \in DOMAIN runs[x] : x # s \/ k # i => runs'[x][k] = runs[x][k]
<1>1. runs[s] \in Seq(Run) /\ runs \in [Sessions -> Seq(Run)]
  BY DEF Typed
<1>2. /\ [runs[s] EXCEPT ![i] = q] \in Seq(Run)
      /\ DOMAIN [runs[s] EXCEPT ![i] = q] = DOMAIN runs[s]
      /\ [runs[s] EXCEPT ![i] = q][i] = q
      /\ \A k \in DOMAIN runs[s] : k # i => [runs[s] EXCEPT ![i] = q][k] = runs[s][k]
  BY <1>1, ExceptSeq, LenProperties
<1>3. runs' = [runs EXCEPT ![s] = [runs[s] EXCEPT ![i] = q]]
  OBVIOUS
<1> QED BY <1>1, <1>2, <1>3

LEMMA RowsStayTrue ==
  ASSUME NEW r, NEW l, NEW c, NEW m, NEW d, RowIsTrue(r, l, c), c \subseteq d,
         \A t \in Tasks : l[t] # 0 => m[t] # 0
  PROVE  RowIsTrue(r, m, d)
<1>1. \A t \in Saved(r) : m[t] # 0
  BY DEF RowIsTrue, Saved
<1> QED BY <1>1 DEF RowIsTrue, Warned

\* The conversion thread takes a step: its row becomes q.
LEMMA ThreadMoves ==
  ASSUME IInv, worker.pc # "none", NEW q \in Run,
         runs' = [runs EXCEPT ![store][worker.run] = q] \/ (UNCHANGED runs /\ q = Mine),
         q.announced = Mine.announced,
         latest' \in [Sessions -> [Tasks -> Nat]], cautious' \in [Sessions -> SUBSET Tasks],
         \A x \in Sessions \ {store} : latest'[x] = latest[x] /\ cautious'[x] = cautious[x],
         \A t \in Tasks : latest[store][t] # 0 => latest'[store][t] # 0,
         cautious[store] \subseteq cautious'[store],
         worker' \in WorkerState, worker'.pc # "none", worker'.run = worker.run,
         job' \in JobState, job'.running = job.running, job'.run = job.run, job'.home = job.home,
         UNCHANGED <<up, store, provider, captured>>,
         RowIsTrue(q, latest'[store], cautious'[store]),
         Progress(worker', q, job', latest'[store], cautious'[store])
  PROVE  IInv'
<1>0. store \in Sessions /\ worker.run \in DOMAIN runs[store] /\ Typed
  BY DEF IInv, Typed, UnderWay
<1>1. /\ runs' \in [Sessions -> Seq(Run)] /\ runs'[store][worker.run] = q
      /\ \A x \in Sessions : DOMAIN runs'[x] = DOMAIN runs[x]
      /\ \A x \in Sessions : \A k \in DOMAIN runs[x] : x # store \/ k # worker.run => runs'[x][k] = runs[x][k]
  <2>1. CASE runs' = [runs EXCEPT ![store][worker.run] = q]
    BY <1>0, <2>1, RowChange
  <2>2. CASE UNCHANGED runs /\ q = Mine
    BY <1>0, <2>2 DEF Mine, Typed
  <2> QED BY <2>1, <2>2
<1>2. Typed'
  BY <1>0, <1>1 DEF Typed
<1>3. RowsAreTrue'
  <2>1. ASSUME NEW x \in Sessions, NEW i \in DOMAIN runs[x]
        PROVE  RowIsTrue(runs'[x][i], latest'[x], cautious'[x])
    <3>1. RowIsTrue(runs[x][i], latest[x], cautious[x])
      BY DEF IInv, RowsAreTrue
    <3>2. CASE x # store
      BY <1>1, <3>1, <3>2
    <3>3. CASE x = store /\ i = worker.run
      BY <1>1, <3>3
    <3>4. CASE x = store /\ i # worker.run
      <4>1. runs'[x][i] = runs[x][i]
        BY <1>1, <3>4
      <4>2. cautious[x] \subseteq cautious'[x] /\ \A t \in Tasks : latest[x][t] # 0 => latest'[x][t] # 0
        BY <3>4
      <4> QED BY ONLY <3>1, <4>1, <4>2, RowsStayTrue
    <3> QED BY <3>2, <3>3, <3>4
  <2> QED BY <1>1, <2>1 DEF RowsAreTrue
<1>4. UnderWay'
  BY <1>0, <1>1 DEF IInv, UnderWay, Mine
<1>5. Standing'
  <2>1. job'.running /\ up'
    BY DEF IInv, Standing, UnderWay
  <2>2. RunningRowsAreLive'
    <3>1. ASSUME NEW i \in DOMAIN runs[store], runs'[store][i].status = "running"
          PROVE  (worker'.pc \notin {"none", "stop"} /\ worker'.run = i) \/ runs'[store][i].lost
      <4>1. CASE i = worker.run
        <5>1. worker'.pc = "stop" => q.lost \/ q.status # "running"
          BY DEF Progress, Ends, Settles
        <5> QED BY <1>0, <1>1, <3>1, <4>1, <5>1
      <4>2. CASE i # worker.run
        BY <1>0, <1>1, <3>1, <4>2 DEF IInv, Standing, UnderWay, RunningRowsAreLive
      <4> QED BY <4>1, <4>2
    <3> QED BY <1>0, <1>1, <3>1 DEF RunningRowsAreLive
  <2> QED BY <2>1, <2>2 DEF Standing
<1> QED BY <1>2, <1>3, <1>4, <1>5 DEF IInv

\* What a step of the thread may build on.
LEMMA AtWork ==
  ASSUME IInv, worker.pc # "none"
  PROVE  /\ store \in Sessions /\ worker.run \in DOMAIN runs[store] /\ worker.run # 0
         /\ Mine \in Run /\ worker \in WorkerState /\ job \in JobState /\ Numbers(Mine, job)
         /\ latest \in [Sessions -> [Tasks -> Nat]] /\ cautious \in [Sessions -> SUBSET Tasks]
         /\ latest[store] \in [Tasks -> Nat]
         /\ Mine.announced = provider /\ provider \in Providers
         /\ RowIsTrue(Mine, latest[store], cautious[store])
         /\ Progress(worker, Mine, job, latest[store], cautious[store])
<1>1. store \in Sessions /\ worker.run \in DOMAIN runs[store] /\ runs[store] \in Seq(Run)
  BY DEF IInv, Typed, UnderWay
<1>2. Mine \in Run
  BY <1>1 DEF Mine
<1>3. Numbers(Mine, job)
  BY <1>2 DEF Numbers, Run, IInv, Typed, JobState
<1> QED BY <1>1, <1>2, <1>3 DEF IInv, Typed, UnderWay, RowsAreTrue, Mine

\* The thread moves on and writes nothing.
LEMMA ThreadGoesOn ==
  ASSUME IInv, worker.pc # "none", UNCHANGED <<disk, job, up, store, provider, captured>>,
         worker' \in WorkerState, worker'.pc # "none", worker'.run = worker.run,
         Progress(worker', Mine, job, latest[store], cautious[store])
  PROVE  IInv'
<1>1. UNCHANGED <<runs, latest, cautious, job, up, store, provider, captured>>
  BY DEF disk
<1>2. Mine \in Run /\ job \in JobState /\ RowIsTrue(Mine, latest[store], cautious[store])
      /\ latest \in [Sessions -> [Tasks -> Nat]] /\ cautious \in [Sessions -> SUBSET Tasks]
  BY AtWork
<1>3. RowIsTrue(Mine, latest'[store], cautious'[store]) /\ Progress(worker', Mine, job', latest'[store], cautious'[store])
  BY <1>1, <1>2
<1> QED BY <1>1, <1>2, <1>3, ThreadMoves

\* The thread writes its row, and nothing else on disk.
LEMMA ThreadWrites ==
  ASSUME IInv, worker.pc # "none", NEW q \in Run,
         runs' = [runs EXCEPT ![store][worker.run] = q], q.announced = Mine.announced,
         UNCHANGED <<latest, cautious, job, up, store, provider, captured>>,
         worker' \in WorkerState, worker'.pc # "none", worker'.run = worker.run,
         RowIsTrue(q, latest[store], cautious[store]),
         Progress(worker', q, job, latest[store], cautious[store])
  PROVE  IInv'
<1>1. job \in JobState /\ latest \in [Sessions -> [Tasks -> Nat]] /\ cautious \in [Sessions -> SUBSET Tasks]
  BY AtWork
<1>2. RowIsTrue(q, latest'[store], cautious'[store]) /\ Progress(worker', q, job', latest'[store], cautious'[store])
  OBVIOUS
<1> QED BY <1>1, <1>2, ThreadMoves

LEMMA LeavingKeepsInvariant ==
  ASSUME IInv, NoMoreUnits \/ NoticeCancel \/ Break
  PROVE  IInv'
<1>1. worker.pc # "none" /\ worker.pc \in Loop
  BY DEF NoMoreUnits, NoticeCancel, Break, Loop
<1>2. worker \in WorkerState /\ Numbers(Mine, job)
      /\ RowIsTrue(Mine, latest[store], cautious[store])
      /\ Progress(worker, Mine, job, latest[store], cautious[store])
  BY <1>1, AtWork
<1>3. UNCHANGED <<disk, job, up, store, provider, captured>>
  BY DEF NoMoreUnits, NoticeCancel, Break, WorkerOnly
<1>4. worker.outcome = "completed"
  BY <1>1, <1>2 DEF Progress, UnitsLeft
<1>5. /\ worker' \in WorkerState /\ worker'.pc = "final" /\ worker'.run = worker.run /\ worker'.outcome \in Outcomes
      /\ worker'.outcome = "completed" => worker.pc = "check" /\ worker.left = <<>>
      /\ worker'.outcome = "cancelled" => worker.pc = "check" /\ Mine.cancel
  <2>1. CASE NoMoreUnits
    BY <1>2, <1>4, <2>1 DEF NoMoreUnits, Goto, WorkerState, Outcomes
  <2>2. CASE NoticeCancel
    BY <1>2, <2>2 DEF NoticeCancel, WorkerState, Outcomes
  <2>3. CASE Break
    BY <1>2, <2>3 DEF Break, WorkerState, Outcomes
  <2> QED BY <2>1, <2>2, <2>3
<1>6. Progress(worker', Mine, job, latest[store], cautious[store])
  BY ONLY <1>1, <1>2, <1>5, LeavingTheLoop
<1> QED BY <1>1, <1>3, <1>5, <1>6, ThreadGoesOn

LEMMA TakingKeepsInvariant ==
  ASSUME IInv, SkipStranger \/ TakeUnit
  PROVE  IInv'
<1>1. worker.pc # "none" /\ worker.pc = "check" /\ worker.left # <<>> /\ ~Mine.cancel
  BY DEF SkipStranger, TakeUnit
<1>2. worker \in WorkerState /\ Numbers(Mine, job)
      /\ RowIsTrue(Mine, latest[store], cautious[store])
      /\ Progress(worker, Mine, job, latest[store], cautious[store])
  BY <1>1, AtWork
<1>3. UNCHANGED <<disk, job, up, store, provider, captured>>
  BY DEF SkipStranger, TakeUnit, WorkerOnly
<1>4. worker.left \in Seq(Tasks \cup Strangers) /\ Tail(worker.left) \in Seq(Tasks \cup Strangers)
  BY <1>1, <1>2, HeadAndTail DEF WorkerState, Progress, UnitsLeft, Loop
<1>5. /\ worker' \in WorkerState /\ worker'.run = worker.run /\ worker'.left = Tail(worker.left)
      /\ worker'.first = worker.first /\ worker'.outcome = worker.outcome
      /\ \/ worker'.pc = "check" /\ Head(worker.left) \notin Tasks
         \/ worker'.pc = "convert" /\ worker'.task = Head(worker.left) /\ worker'.task \in Tasks /\ ~Mine.cancel
  <2>1. CASE SkipStranger
    BY <1>1, <1>2, <1>4, <2>1 DEF SkipStranger, WorkerState
  <2>2. CASE TakeUnit
    BY <1>1, <1>2, <1>4, <2>2 DEF TakeUnit, WorkerState, Loop
  <2> QED BY <2>1, <2>2
<1>6. Progress(worker', Mine, job, latest[store], cautious[store])
  BY ONLY <1>1, <1>2, <1>4, <1>5, TakingAUnit
<1> QED BY <1>1, <1>3, <1>5, <1>6, ThreadGoesOn

\* The twin's proposal is the one this run saved for the first unit with the body.
LEMMA TheTwinIsTheFirst ==
  ASSUME IInv, worker.pc = "convert"
  PROVE  LET f == Fingerprint[worker.task] IN
         /\ f # None /\ worker.first[f] # None =>
              /\ TwinProposal = Mine.proposals[worker.first[f]] /\ Reusable
              /\ TwinProposal \in Proposal /\ TwinProposal.by = provider
         /\ f = None \/ worker.first[f] = None => ~Reusable
<1> DEFINE f == Fingerprint[worker.task]
<1>1. /\ Mine \in Run /\ worker \in WorkerState /\ Mine.announced = provider
      /\ RowIsTrue(Mine, latest[store], cautious[store])
      /\ Progress(worker, Mine, job, latest[store], cautious[store])
  BY AtWork
<1>2. worker.task \in Tasks /\ f \in Prints /\ None \notin Tasks
  BY <1>1, ConstantsAssumption DEF Progress, UnitInHand, Prints
<1>3. ASSUME f # None, worker.first[f] # None
      PROVE  /\ Converted(Mine, worker.first[f]) /\ latest[store][worker.first[f]] = worker.run
             /\ worker.first[f] \in Tasks
  BY <1>1, <1>2, <1>3 DEF Progress, Remembered, Loop, WorkerState
<1>4. ASSUME f # None, worker.first[f] # None
      PROVE  /\ TwinProposal = Mine.proposals[worker.first[f]] /\ Reusable
             /\ TwinProposal \in Proposal /\ TwinProposal.by = provider
  <2>1. TwinProposal = Mine.proposals[worker.first[f]]
    BY <1>3, <1>4 DEF TwinProposal, Mine
  <2>2. TwinProposal # None /\ TwinProposal.answer # Failed /\ worker.first[f] \in Saved(Mine)
    BY <1>3, <1>4, <2>1 DEF Converted, Saved
  <2>3. TwinProposal \in Proposal
    BY <1>1, <1>3, <1>4, <2>1, <2>2 DEF Run
  <2>4. TwinProposal.by = provider
    BY <1>1, <2>1, <2>2 DEF RowIsTrue, Alike
  <2> QED BY <2>1, <2>2, <2>3, <2>4 DEF Reusable
<1>5. ASSUME f = None \/ worker.first[f] = None PROVE ~Reusable
  BY <1>5 DEF Reusable, TwinProposal
<1> QED BY <1>4, <1>5

LEMMA ConvertingKeepsInvariant ==
  ASSUME IInv, Reuse \/ Ask
  PROVE  IInv'
<1>1. worker.pc # "none" /\ worker.pc = "convert"
  BY DEF Reuse, Ask
<1>2. /\ worker \in WorkerState /\ Mine.announced = provider /\ provider \in Providers
      /\ Progress(worker, Mine, job, latest[store], cautious[store])
  BY <1>1, AtWork
<1>3. UNCHANGED <<disk, job, up, store, provider, captured>>
  BY DEF Reuse, Ask, WorkerOnly
<1> DEFINE f == Fingerprint[worker.task]
<1>4. /\ f # None /\ worker.first[f] # None =>
           /\ TwinProposal = Mine.proposals[worker.first[f]] /\ Reusable
           /\ TwinProposal \in Proposal /\ TwinProposal.by = provider
      /\ f = None \/ worker.first[f] = None => ~Reusable
  BY <1>1, TheTwinIsTheFirst
<1>5. PICK a \in Proposal :
        /\ worker' = [worker EXCEPT !.pc = "save", !.result = a] /\ a.by = provider
        /\ f # None /\ worker.first[f] # None => a = Mine.proposals[worker.first[f]]
  <2>1. CASE Reuse
    BY <1>4, <2>1 DEF Reuse
  <2>2. CASE Ask
    <3>1. PICK a \in Answers \cup {Failed} :
            worker' = [worker EXCEPT !.pc = "save", !.result = [answer |-> a, by |-> provider]]
      BY <2>2 DEF Ask
    <3>2. [answer |-> a, by |-> provider] \in Proposal /\ ~(f # None /\ worker.first[f] # None)
      BY <1>2, <1>4, <2>2 DEF Ask, Proposal
    <3> QED BY <3>1, <3>2
  <2> QED BY <2>1, <2>2
<1>6. /\ worker' \in WorkerState /\ worker'.pc = "save" /\ worker'.run = worker.run /\ worker'.left = worker.left
      /\ worker'.first = worker.first /\ worker'.outcome = worker.outcome /\ worker'.task = worker.task
      /\ worker'.result = a
  BY <1>2, <1>5 DEF WorkerState, Loop
<1>7. a # None
  BY ConstantsAssumption DEF Proposal
<1>8. Progress(worker', Mine, job, latest[store], cautious[store])
  BY <1>1, <1>2, <1>5, <1>6, <1>7, Converting
<1> QED BY <1>1, <1>3, <1>6, <1>8, ThreadGoesOn

LEMMA SavingKeepsInvariant ==
  ASSUME IInv, SaveProposal
  PROVE  IInv'
<1> DEFINE q == [Mine EXCEPT !.proposals[worker.task] = worker.result,
                             !.late = IF Mine.cancel THEN @ + 1 ELSE @]
           m == [latest[store] EXCEPT ![worker.task] = worker.run]
<1>1. worker.pc # "none" /\ worker.pc = "save"
  BY DEF SaveProposal
<1>2. /\ worker \in WorkerState /\ worker.run # 0 /\ job \in JobState /\ Mine \in Run /\ Numbers(Mine, job)
      /\ store \in Sessions /\ latest \in [Sessions -> [Tasks -> Nat]] /\ cautious \in [Sessions -> SUBSET Tasks]
      /\ RowIsTrue(Mine, latest[store], cautious[store])
      /\ Progress(worker, Mine, job, latest[store], cautious[store])
  BY <1>1, AtWork
<1>3. /\ runs' = [runs EXCEPT ![store][worker.run] = q] /\ latest' = [latest EXCEPT ![store] = m]
      /\ UNCHANGED <<cautious, job, up, store, provider, captured>>
  BY <1>2 DEF SaveProposal, WorkerOnly
<1>4. worker.task \in Tasks /\ worker.result \in Proposal /\ Mine.late = 0
  BY <1>1, <1>2 DEF Progress, UnitInHand, Remembered, Loop, WorkerState
<1>5. /\ worker' \in WorkerState /\ worker'.pc = "merge" /\ worker'.run = worker.run /\ worker'.left = worker.left
      /\ worker'.first = worker.first /\ worker'.outcome = worker.outcome /\ worker'.task = worker.task
      /\ worker'.result = worker.result
  BY <1>2 DEF SaveProposal, Goto, WorkerState, Loop
<1>6. /\ Updated(q.proposals, Mine.proposals, Tasks, worker.task, worker.result)
      /\ q.late = (IF Mine.cancel THEN 1 ELSE Mine.late)
      /\ q.cancel = Mine.cancel /\ q.status = Mine.status /\ q.units = Mine.units /\ q.lost = Mine.lost
      /\ q.done = Mine.done /\ q.failed = Mine.failed /\ q.announced = Mine.announced /\ q.total = Mine.total
  BY <1>2, <1>4 DEF Run, Updated
<1>7. q \in Run
  <2> DEFINE p == [Mine EXCEPT !.proposals[worker.task] = worker.result]
             late == IF Mine.cancel THEN p.late + 1 ELSE p.late
  <2>0. p \in Run
    BY <1>2, <1>4 DEF Run
  <2>1. late \in Nat
    BY <2>0 DEF Run
  <2>2. q = [p EXCEPT !.late = late]
    OBVIOUS
  <2> HIDE DEF p, late, q
  <2> QED BY <2>0, <2>1, <2>2 DEF Run
<1>8. /\ Updated(m, latest[store], Tasks, worker.task, worker.run)
      /\ latest' \in [Sessions -> [Tasks -> Nat]] /\ latest'[store] = m
      /\ \A x \in Sessions \ {store} : latest'[x] = latest[x]
      /\ \A t \in Tasks : latest[store][t] # 0 => latest'[store][t] # 0
  BY <1>2, <1>3 DEF WorkerState, Updated
<1>9. worker.first \in [Prints -> Tasks \cup {None}]
  BY <1>2 DEF WorkerState
<1> HIDE DEF q, m
<1>10. Progress(worker', q, job, m, cautious[store]) /\ RowIsTrue(q, m, cautious[store])
  BY ONLY <1>1, <1>2, <1>5, <1>6, <1>8, <1>9, SavingAProposal
<1>11. /\ cautious'[store] = cautious[store] /\ job' = job /\ cautious' \in [Sessions -> SUBSET Tasks]
       /\ \A x \in Sessions \ {store} : cautious'[x] = cautious[x]
  BY <1>2, <1>3
<1>12. Progress(worker', q, job', latest'[store], cautious'[store]) /\ RowIsTrue(q, latest'[store], cautious'[store])
  BY <1>8, <1>10, <1>11
<1> QED BY <1>1, <1>2, <1>3, <1>5, <1>6, <1>7, <1>8, <1>11, <1>12, ThreadMoves

LEMMA MergingKeepsInvariant ==
  ASSUME IInv, MergeBehavior
  PROVE  IInv'
<1> DEFINE d == cautious'[store]
<1>1. worker.pc # "none" /\ worker.pc = "merge"
  BY DEF MergeBehavior
<1>2. /\ worker \in WorkerState /\ job \in JobState /\ Mine \in Run /\ store \in Sessions
      /\ latest \in [Sessions -> [Tasks -> Nat]] /\ cautious \in [Sessions -> SUBSET Tasks]
      /\ RowIsTrue(Mine, latest[store], cautious[store])
      /\ Progress(worker, Mine, job, latest[store], cautious[store])
  BY <1>1, AtWork
<1>3. UNCHANGED <<runs, latest, job, up, store, provider, captured>>
  BY DEF MergeBehavior, WorkerOnly
<1>4. worker.task \in Tasks /\ Fingerprint[worker.task] \in Prints
  BY <1>1, <1>2 DEF Progress, UnitInHand, Saved, Prints
<1>5. /\ cautious' \in [Sessions -> SUBSET Tasks] /\ cautious[store] \subseteq d
      /\ \A x \in Sessions \ {store} : cautious'[x] = cautious[x]
      /\ worker.result.answer \in Cautious => worker.task \in d
  <2>1. CASE worker.result.answer \in Cautious
    <3>1. cautious' = [cautious EXCEPT ![store] = cautious[store] \cup {worker.task}]
      BY <2>1 DEF MergeBehavior
    <3> QED BY <1>2, <1>4, <3>1
  <2>2. CASE worker.result.answer \notin Cautious
    <3>1. cautious' = cautious
      BY <2>2 DEF MergeBehavior
    <3> QED BY <1>2, <2>2, <3>1
  <2> QED BY <2>1, <2>2
<1>6. worker.first \in [Prints -> Tasks \cup {None}]
  BY <1>2 DEF WorkerState
<1>7. /\ worker'.pc = "advance" /\ worker'.run = worker.run /\ worker'.left = worker.left
      /\ worker'.outcome = worker.outcome /\ worker'.task = worker.task
  BY <1>2 DEF MergeBehavior, WorkerState
<1>x. /\ worker'.first = [worker.first EXCEPT ![Fingerprint[worker.task]] = First(Fingerprint[worker.task])]
      /\ worker' = [worker EXCEPT !.pc = "advance", !.first = worker'.first]
  BY <1>2 DEF MergeBehavior, WorkerState
<1>8. First(Fingerprint[worker.task]) \in Tasks \cup {None}
  BY <1>4, <1>6 DEF First
<1>9. worker' \in WorkerState
  <2> DEFINE u == [worker EXCEPT !.pc = "advance"]
             g == [worker.first EXCEPT ![Fingerprint[worker.task]] = First(Fingerprint[worker.task])]
  <2>1. worker' = [u EXCEPT !.first = g]
    BY <1>x
  <2>2. u \in WorkerState
    BY <1>2 DEF WorkerState, Loop
  <2>3. g \in [Prints -> Tasks \cup {None}]
    BY <1>6, <1>8
  <2> HIDE DEF u, g
  <2> QED BY <2>1, <2>2, <2>3 DEF WorkerState
<1>10. Updated(worker'.first, worker.first, Prints, Fingerprint[worker.task],
               IF worker.result.answer # Failed /\ Fingerprint[worker.task] # None
                    /\ worker.first[Fingerprint[worker.task]] = None
               THEN worker.task ELSE worker.first[Fingerprint[worker.task]])
  BY <1>4, <1>6, <1>x DEF First, Updated
<1> HIDE DEF d
<1>11. Progress(worker', Mine, job, latest[store], d) /\ RowIsTrue(Mine, latest[store], d)
  BY ONLY <1>1, <1>2, <1>5, <1>6, <1>7, <1>10, Merging
<1>12. /\ Progress(worker', Mine, job', latest'[store], cautious'[store]) /\ RowIsTrue(Mine, latest'[store], cautious'[store])
       /\ latest' = latest /\ job' = job
  BY <1>3, <1>11 DEF d
<1> QED BY <1>1, <1>2, <1>3, <1>5, <1>7, <1>9, <1>12, ThreadMoves DEF d

LEMMA AdvancingKeepsInvariant ==
  ASSUME IInv, Advance
  PROVE  IInv'
<1>1. worker.pc # "none" /\ worker.pc = "advance"
  BY DEF Advance
<1>2. /\ worker \in WorkerState /\ job \in JobState /\ Mine \in Run /\ Numbers(Mine, job) /\ store \in Sessions
      /\ latest \in [Sessions -> [Tasks -> Nat]] /\ cautious \in [Sessions -> SUBSET Tasks]
      /\ RowIsTrue(Mine, latest[store], cautious[store])
      /\ Progress(worker, Mine, job, latest[store], cautious[store])
  BY <1>1, AtWork
<1>3. UNCHANGED <<runs, latest, cautious, up, store, provider, captured>>
  BY DEF Advance, WorkerOnly, disk
<1>4. /\ worker' \in WorkerState /\ worker'.pc = "sync" /\ worker'.run = worker.run /\ worker'.left = worker.left
      /\ worker'.first = worker.first /\ worker'.outcome = worker.outcome
  BY <1>2 DEF Advance, Goto, WorkerState, Loop
<1>5. /\ job' \in JobState /\ job'.done = job.done + 1 /\ job'.failed \in {job.failed, job.failed + 1}
      /\ job'.running = job.running /\ job'.run = job.run /\ job'.home = job.home
  <2> DEFINE k == [job EXCEPT !.done = @ + 1]
             failed == IF worker.result.answer = Failed THEN k.failed + 1 ELSE k.failed
  <2>1. job' = [k EXCEPT !.failed = failed]
    BY DEF Advance
  <2>2. /\ k \in JobState /\ k.done = job.done + 1 /\ k.failed = job.failed
        /\ k.running = job.running /\ k.run = job.run /\ k.home = job.home
    BY <1>2 DEF JobState
  <2>3. failed \in Nat /\ failed \in {job.failed, job.failed + 1}
    BY <2>2 DEF JobState
  <2> HIDE DEF k, failed
  <2> QED BY <2>1, <2>2, <2>3 DEF JobState
<1>6. Progress(worker', Mine, job', latest[store], cautious[store])
  BY ONLY <1>1, <1>2, <1>4, <1>5, Advancing
<1> QED BY <1>1, <1>2, <1>3, <1>4, <1>5, <1>6, ThreadMoves

LEMMA SyncingKeepsInvariant ==
  ASSUME IInv, Sync \/ FinalSync
  PROVE  IInv'
<1> DEFINE q == [Mine EXCEPT !.done = job.done, !.failed = job.failed]
<1>1. worker.pc # "none"
  BY DEF Sync, FinalSync
<1>2. /\ worker \in WorkerState /\ job \in JobState /\ Mine \in Run /\ Numbers(Mine, job)
      /\ RowIsTrue(Mine, latest[store], cautious[store])
      /\ Progress(worker, Mine, job, latest[store], cautious[store])
  BY <1>1, AtWork
<1>3. /\ runs' = [runs EXCEPT ![store][worker.run] = q]
      /\ UNCHANGED <<latest, cautious, job, up, store, provider, captured>>
  BY DEF Sync, FinalSync, Synced, WorkerOnly
<1>4. /\ worker' \in WorkerState /\ worker'.run = worker.run /\ worker'.left = worker.left
      /\ worker'.first = worker.first /\ worker'.outcome = worker.outcome
      /\ \/ worker.pc = "sync" /\ worker'.pc = "check"
         \/ worker.pc = "final" /\ worker'.pc = "finish"
  <2>1. CASE Sync
    BY <1>2, <2>1 DEF Sync, WorkerState, Loop
  <2>2. CASE FinalSync
    BY <1>2, <2>2 DEF FinalSync, Goto, WorkerState
  <2> QED BY <2>1, <2>2
<1>5. /\ q \in Run /\ q.done = job.done /\ q.failed = job.failed /\ q.proposals = Mine.proposals /\ q.late = Mine.late
      /\ q.cancel = Mine.cancel /\ q.status = Mine.status /\ q.units = Mine.units /\ q.announced = Mine.announced
  BY <1>2 DEF Run, JobState
<1> HIDE DEF q
<1>6. Progress(worker', q, job, latest[store], cautious[store]) /\ RowIsTrue(q, latest[store], cautious[store])
  BY ONLY <1>2, <1>4, <1>5, Syncing
<1> QED BY <1>1, <1>3, <1>4, <1>5, <1>6, ThreadWrites

LEMMA EndingKeepsInvariant ==
  ASSUME IInv, Finish \/ LoseRecord
  PROVE  IInv'
<1>1. worker.pc # "none"
  BY DEF Finish, LoseRecord
<1>2. /\ worker \in WorkerState /\ job \in JobState /\ Mine \in Run /\ Numbers(Mine, job)
      /\ store \in Sessions /\ worker.run \in DOMAIN runs[store] /\ runs \in [Sessions -> Seq(Run)]
      /\ RowIsTrue(Mine, latest[store], cautious[store])
      /\ Progress(worker, Mine, job, latest[store], cautious[store])
  BY <1>1, AtWork DEF IInv, Typed
<1>3. UNCHANGED <<latest, cautious, job, up, store, provider, captured>>
  BY DEF Finish, LoseRecord, WorkerOnly
<1>4. /\ worker' \in WorkerState /\ worker'.pc = "stop" /\ worker'.run = worker.run /\ worker'.outcome = worker.outcome
      /\ worker.outcome \in Outcomes
  BY <1>2 DEF Finish, LoseRecord, Goto, WorkerState
<1>5. PICK q \in Run :
        /\ runs' = [runs EXCEPT ![store][worker.run] = q]
        /\ q.done = Mine.done /\ q.failed = Mine.failed /\ q.proposals = Mine.proposals /\ q.late = Mine.late
        /\ q.cancel = Mine.cancel /\ q.units = Mine.units /\ q.announced = Mine.announced
        /\ \/ worker.pc = "finish" /\ q.status = worker.outcome
           \/ worker.pc \in {"final", "finish"} /\ q.status = Mine.status /\ q.lost
  <2>1. CASE Finish
    <3> DEFINE q == [Mine EXCEPT !.status = worker.outcome]
    <3>1. runs' = [runs EXCEPT ![store][worker.run] = q]
      BY <2>1 DEF Finish, Mine
    <3>2. q \in Run
      BY <1>2, <1>4 DEF Run, Outcomes, Statuses
    <3> QED BY <1>2, <2>1, <3>1, <3>2 DEF Finish, Run
  <2>2. CASE LoseRecord
    <3> DEFINE q == [Mine EXCEPT !.lost = TRUE]
    <3>1. runs' = [runs EXCEPT ![store][worker.run] = q]
      BY <2>2 DEF LoseRecord, Mine
    <3>2. q \in Run
      BY <1>2 DEF Run
    <3> QED BY <1>2, <2>2, <3>1, <3>2 DEF LoseRecord, Run
  <2> QED BY <2>1, <2>2
<1>6. Progress(worker', q, job, latest[store], cautious[store]) /\ RowIsTrue(q, latest[store], cautious[store])
  BY ONLY <1>2, <1>4, <1>5, Ending
<1> QED BY <1>1, <1>3, <1>4, <1>5, <1>6, ThreadWrites

LEMMA AtRest ==
  /\ Idle \in WorkerState /\ Idle.pc = "none" /\ Idle.outcome = "completed" /\ \A f \in Prints : Idle.first[f] = None
  /\ NoJob \in JobState /\ NoJob.run = 0 /\ NoJob.running = FALSE /\ NoJob.done = 0 /\ NoJob.failed = 0
<1>1. Idle.first \in [Prints -> Tasks \cup {None}] /\ \A f \in Prints : Idle.first[f] = None
  BY DEF Idle, Prints
<1>2. Idle \in WorkerState
  BY <1>1 DEF Idle, WorkerState, Outcomes
<1> QED BY <1>1, <1>2 DEF Idle, NoJob, JobState

\* The thread ends: the last the row said of the job stays.
LEMMA StoppingKeepsInvariant ==
  ASSUME IInv, Stop
  PROVE  IInv'
<1>1. worker.pc = "stop" /\ worker' = Idle /\ job' = [job EXCEPT !.running = FALSE]
      /\ UNCHANGED <<runs, latest, cautious, up, store, provider, captured>>
  BY DEF Stop, WorkerOnly, disk
<1>2. /\ job \in JobState /\ Progress(worker, Mine, job, latest[store], cautious[store])
      /\ store \in Sessions /\ worker.run \in DOMAIN runs[store]
  BY <1>1, AtWork
<1>3. /\ job' \in JobState /\ job'.running = FALSE /\ job'.run = job.run /\ job'.home = job.home
      /\ job'.done = job.done /\ job'.failed = job.failed
  BY <1>1, <1>2 DEF JobState
<1>4. Settles(Mine, job')
  BY <1>1, <1>2, <1>3 DEF Progress, Ends, Settles
<1>5. Typed' /\ RowsAreTrue' /\ UnderWay'
  BY <1>1, <1>3, AtRest DEF IInv, Typed, RowsAreTrue, UnderWay
<1>6. RunningRowsAreLive'
  BY <1>1 DEF IInv, Standing, RunningRowsAreLive
<1>7. job.home = store /\ job.run = worker.run /\ up
  BY <1>1 DEF IInv, UnderWay
<1>8. Standing'
  BY <1>1, <1>2, <1>3, <1>4, <1>6, <1>7, AtRest DEF Standing, Mine
<1> QED BY <1>5, <1>8 DEF IInv

-----------------------------------------------------------------------------
(* The steps of everybody else *)

\* What only others look at does not matter.
LEMMA UnseenKeepsInvariant ==
  ASSUME IInv, UNCHANGED <<runs, latest, cautious, up, store, provider, job, worker>>,
         captured' \in [Cancels -> Nat \cup {None}]
  PROVE  IInv'
<1>1. Typed' /\ RowsAreTrue'
  BY DEF IInv, Typed, RowsAreTrue
<1>2. UnderWay'
  BY DEF IInv, UnderWay, Mine
<1>3. Standing'
  BY DEF IInv, Standing, RunningRowsAreLive
<1> QED BY <1>1, <1>2, <1>3 DEF IInv

LEMMA FiniteTasks == IsFiniteSet(Tasks)
<1>1. Len(Order) \in Nat /\ DOMAIN Order = 1..Len(Order)
  BY ConstantsAssumption, LenProperties
<1>2. IsFiniteSet(1..Len(Order))
  BY <1>1, FS_Interval
<1>3. Order \in Surjection(1..Len(Order), Tasks)
  BY <1>1, ConstantsAssumption DEF Surjection, Tasks
<1> QED BY <1>2, <1>3, FS_Surjection

\* A batch names no unit twice.
LEMMA BatchesAreDistinct ==
  ASSUME NEW s \in Sessions, NEW ids \in Batches(s)
  PROVE  ids \in Seq(Tasks \cup Strangers) /\ Distinct(ids)
<1>1. CASE ids \in Listings(Pending(s))
  <2> DEFINE S == Pending(s)
  <2>1. S \subseteq Tasks /\ Cardinality(S) \in Nat
    BY FiniteTasks, FS_Subset, FS_CardinalityType DEF Pending
  <2>2. ids \in [1..Cardinality(S) -> S] /\ \A i, j \in DOMAIN ids : i < j => Position(ids[i]) < Position(ids[j])
    BY <1>1 DEF Listings
  <2> HIDE DEF S
  <2>3. \A t \in Tasks : Position(t) \in Nat
    <3>1. ASSUME NEW t \in Tasks PROVE Position(t) \in DOMAIN Order
      BY DEF Tasks, Position
    <3>2. Order \in Seq(Tasks)
      BY ConstantsAssumption
    <3>3. DOMAIN Order \subseteq Nat
      BY <3>2, LenProperties
    <3> QED BY <3>1, <3>3
  <2>4. Distinct(ids)
    <3>1. ASSUME NEW i \in DOMAIN ids, NEW k \in DOMAIN ids, ids[i] = ids[k], i # k PROVE FALSE
      <4>1. i \in Nat /\ k \in Nat /\ Position(ids[i]) \in Nat
        BY <2>1, <2>2, <2>3
      <4>2. i < k \/ k < i
        BY <3>1, <4>1
      <4>3. Position(ids[i]) < Position(ids[k]) \/ Position(ids[k]) < Position(ids[i])
        BY <2>2, <4>2
      <4> QED BY <3>1, <4>1, <4>3
    <3> QED BY <3>1 DEF Distinct
  <2>5. ids \in Seq(Tasks \cup Strangers)
    BY <2>1, <2>2
  <2> QED BY <2>4, <2>5
<1>2. CASE \E t \in Tasks \cup Strangers : ids = <<t>>
  BY <1>2 DEF Distinct
<1> QED BY <1>1, <1>2 DEF Batches

\* The row of a run that has just begun.
LEMMA Starting ==
  ASSUME NEW w, NEW r, NEW j, NEW l, NEW c,
         w.pc = "check", w.outcome = "completed", Distinct(w.left), \A f \in Prints : w.first[f] = None,
         \A t \in Tasks : r.proposals[t] = None, r.units = Tasks \cap Left(w), r.status = "running",
         r.done = 0, r.failed = 0, r.late = 0, j.done = 0, j.failed = 0
  PROVE  Progress(w, r, j, l, c) /\ RowIsTrue(r, l, c)
<1>1. Saved(r) = {} /\ IsFiniteSet(Saved(r)) /\ Cardinality(Saved(r)) = 0 /\ \A t \in Tasks : ~Converted(r, t)
  BY FS_EmptySet DEF Saved, Converted
<1>2. UnitsLeft(w, r) /\ UnitInHand(w, r) /\ Counts(w, r, j) /\ Ends(w, r, j)
  BY <1>1 DEF UnitsLeft, UnitInHand, Counts, Ends, InHand
<1>3. Remembered(w, r, l) /\ Warning(w, r, c)
  BY <1>1 DEF Remembered, Warning
<1>4. Counted(r) /\ Alike(r) /\ Cut(r)
  BY <1>1 DEF Counted, Alike, Cut
<1> QED BY <1>1, <1>2, <1>3, <1>4 DEF Progress, RowIsTrue

LEMMA ProposingKeepsInvariant ==
  ASSUME IInv, NEW b \in Browsers, Propose(b)
  PROVE  IInv'
<1>1. PICK ids \in Batches(store) \ {<<>>} :
        /\ runs' = [runs EXCEPT ![store] = Append(@, NewRun(ids, provider))]
        /\ job' = [NoJob EXCEPT !.running = TRUE, !.run = NextId(store), !.home = store]
        /\ worker' = [Idle EXCEPT !.pc = "check", !.run = NextId(store), !.left = ids]
  BY DEF Propose
<1> DEFINE q == NewRun(ids, provider)  n == Len(runs[store]) + 1
<1>2. /\ up /\ worker.pc = "none" /\ store \in Sessions /\ provider \in Providers
      /\ UNCHANGED <<latest, cautious, up, store, provider, captured>>
  BY DEF Propose, MayStart, IInv, Typed, Standing
<1>3. ids \in Seq(Tasks \cup Strangers) /\ Distinct(ids)
  BY <1>1, <1>2, BatchesAreDistinct
<1>4. runs \in [Sessions -> Seq(Run)] /\ Len(runs[store]) \in Nat /\ DOMAIN runs[store] = 1..Len(runs[store])
  BY <1>2, LenProperties DEF IInv, Typed
<1>5. /\ \A t \in Tasks : q.proposals[t] = None
      /\ q.units = Tasks \cap {ids[i] : i \in DOMAIN ids} /\ q.status = "running" /\ q.announced = provider
      /\ q.done = 0 /\ q.failed = 0 /\ q.late = 0
  BY DEF NewRun
<1>6. q \in Run
  BY <1>2, <1>3, LenProperties DEF NewRun, Run, Statuses
<1> HIDE DEF q
<1>7. /\ runs' \in [Sessions -> Seq(Run)] /\ DOMAIN runs'[store] = 1..n /\ runs'[store][n] = q
      /\ \A i \in DOMAIN runs[store] : runs'[store][i] = runs[store][i]
      /\ \A x \in Sessions : x # store => runs'[x] = runs[x]
  <2>1. runs'[store] = Append(runs[store], q) /\ \A x \in Sessions : x # store => runs'[x] = runs[x]
    BY <1>1, <1>2, <1>4 DEF q
  <2>2. /\ Append(runs[store], q) \in Seq(Run) /\ DOMAIN Append(runs[store], q) = 1..n
        /\ Append(runs[store], q)[n] = q
        /\ \A i \in DOMAIN runs[store] : Append(runs[store], q)[i] = runs[store][i]
    BY <1>2, <1>4, <1>6
  <2>3. runs' \in [Sessions -> Seq(Run)]
    BY <1>1, <1>2, <1>4, <2>2 DEF q
  <2> QED BY <2>1, <2>2, <2>3
<1>8. /\ worker' \in WorkerState /\ worker'.pc = "check" /\ worker'.run = n /\ worker'.left = ids
      /\ worker'.outcome = "completed" /\ worker'.first = Idle.first
  <2>1. [Idle EXCEPT !.pc = "check"] \in WorkerState
    BY AtRest DEF WorkerState, Loop
  <2>n. n \in Nat
    BY <1>4
  <2>2. ASSUME NEW w \in WorkerState PROVE [w EXCEPT !.run = n] \in WorkerState /\ [w EXCEPT !.left = ids] \in WorkerState
    <3> HIDE DEF n
    <3>1. [w EXCEPT !.run = n] \in WorkerState
      BY ONLY <2>n, <2>2 DEF WorkerState
    <3>2. [w EXCEPT !.left = ids] \in WorkerState
      BY ONLY <1>3, <2>2 DEF WorkerState
    <3> QED BY <3>1, <3>2
  <2>3. worker' = [[[Idle EXCEPT !.pc = "check"] EXCEPT !.run = n] EXCEPT !.left = ids]
    BY <1>1 DEF NextId
  <2>4. worker' \in WorkerState
    BY <2>1, <2>2, <2>3
  <2> QED BY <1>1, <2>4, AtRest DEF WorkerState, NextId
<1>9. /\ job' \in JobState /\ job'.running /\ job'.run = n /\ job'.home = store /\ job'.done = 0 /\ job'.failed = 0
  <2>1. [NoJob EXCEPT !.running = TRUE] \in JobState
    BY AtRest DEF JobState
  <2>2. \A k \in JobState : [k EXCEPT !.run = n] \in JobState /\ [k EXCEPT !.home = store] \in JobState
    BY <1>2, <1>4 DEF JobState
  <2>3. job' = [[[NoJob EXCEPT !.running = TRUE] EXCEPT !.run = n] EXCEPT !.home = store]
    BY <1>1 DEF NextId
  <2>4. job' \in JobState
    BY <2>1, <2>2, <2>3
  <2> QED BY <1>1, <2>4, AtRest DEF JobState, NextId
<1>10. Progress(worker', q, job', latest[store], cautious[store]) /\ RowIsTrue(q, latest[store], cautious[store])
  <2>1. q.units = Tasks \cap Left(worker') /\ \A f \in Prints : worker'.first[f] = None
    BY <1>5, <1>8, AtRest DEF Left, Elements
  <2> QED BY ONLY <1>3, <1>5, <1>8, <1>9, <2>1, Starting
<1>11. Typed'
  BY <1>2, <1>7, <1>8, <1>9 DEF IInv, Typed
<1>12. RowsAreTrue'
  <2>1. ASSUME NEW i \in DOMAIN runs'[store] PROVE RowIsTrue(runs'[store][i], latest[store], cautious[store])
    <3>1. CASE i = n
      BY <1>7, <1>10, <3>1
    <3>2. CASE i # n
      <4>1. i \in DOMAIN runs[store]
        BY <1>4, <1>7, <3>2
      <4> QED BY <1>2, <1>7, <4>1 DEF IInv, RowsAreTrue
    <3> QED BY <3>1, <3>2
  <2> QED BY <1>2, <1>7, <2>1 DEF IInv, RowsAreTrue
<1>13. UnderWay'
  BY <1>2, <1>4, <1>5, <1>7, <1>8, <1>9, <1>10 DEF UnderWay, Mine
<1>14. RunningRowsAreLive'
  <2>1. ASSUME NEW i \in DOMAIN runs'[store], runs'[store][i].status = "running", i # n PROVE runs'[store][i].lost
    <3>1. i \in DOMAIN runs[store]
      BY <1>4, <1>7, <2>1
    <3> QED BY <1>2, <1>7, <2>1, <3>1 DEF IInv, Standing, RunningRowsAreLive
  <2> QED BY <1>2, <1>8, <2>1 DEF RunningRowsAreLive
<1>15. Standing'
  BY <1>2, <1>8, <1>9, <1>14 DEF Standing
<1> QED BY <1>11, <1>12, <1>13, <1>15 DEF IInv

LEMMA CancelTouches ==
  ASSUME NEW r \in Run
  PROVE  [r EXCEPT !.cancel = TRUE] \in Run /\ Touched(r, [r EXCEPT !.cancel = TRUE])
<1> DEFINE q == [r EXCEPT !.cancel = TRUE]
<1>1. q \in Run
  BY DEF Run
<1>2. /\ q.done = r.done /\ q.failed = r.failed /\ q.late = r.late /\ q.lost = r.lost /\ q.status = r.status
      /\ q.proposals = r.proposals /\ q.units = r.units /\ q.announced = r.announced /\ q.cancel
  BY DEF Run
<1> HIDE DEF q
<1>3. Touched(r, q)
  BY <1>2 DEF Touched
<1> QED BY <1>1, <1>3 DEF q

LEMMA UntouchedIsTouched == ASSUME NEW r PROVE Touched(r, r)
BY DEF Touched

\* Opening a file touches its rows, and leaves none running.
LEMMA OpeningTouches ==
  ASSUME NEW rows \in Seq(Run)
  PROVE  /\ Reconciled(rows) \in Seq(Run) /\ DOMAIN Reconciled(rows) = DOMAIN rows
         /\ \A i \in DOMAIN rows : /\ Touched(rows[i], Reconciled(rows)[i])
                                   /\ Reconciled(rows)[i].status # "running"
<1>1. DOMAIN rows = 1..Len(rows) /\ Len(rows) \in Nat /\ \A i \in DOMAIN rows : rows[i] \in Run
  BY LenProperties, ElementOfSeq
<1>2. ASSUME NEW r \in Run, r.status = "running"
      PROVE  LET q == [r EXCEPT !.status = "crashed"] IN q \in Run /\ Touched(r, q) /\ q.status = "crashed"
  <2> DEFINE q == [r EXCEPT !.status = "crashed"]
  <2>1. q \in Run
    BY DEF Run, Statuses
  <2>2. /\ q.done = r.done /\ q.failed = r.failed /\ q.late = r.late /\ q.lost = r.lost /\ q.cancel = r.cancel
        /\ q.proposals = r.proposals /\ q.units = r.units /\ q.announced = r.announced /\ q.status = "crashed"
    BY DEF Run
  <2> HIDE DEF q
  <2>3. Touched(r, q)
    BY <1>2, <2>2 DEF Touched
  <2> QED BY <2>1, <2>2, <2>3 DEF q
<1>3. DOMAIN Reconciled(rows) = DOMAIN rows
  BY DEF Reconciled
<1>4. ASSUME NEW i \in DOMAIN rows
      PROVE  /\ Reconciled(rows)[i] \in Run /\ Touched(rows[i], Reconciled(rows)[i])
             /\ Reconciled(rows)[i].status # "running"
  <2>1. CASE rows[i].status = "running"
    <3>1. Reconciled(rows)[i] = [rows[i] EXCEPT !.status = "crashed"]
      BY <2>1 DEF Reconciled
    <3> QED BY <1>1, <1>2, <2>1, <3>1
  <2>2. CASE rows[i].status # "running"
    <3>1. Reconciled(rows)[i] = rows[i]
      BY <2>2 DEF Reconciled
    <3> QED BY <1>1, <2>2, <3>1, UntouchedIsTouched
  <2> QED BY <2>1, <2>2
<1>5. Reconciled(rows) = [i \in 1..Len(rows) |-> Reconciled(rows)[i]]
  BY <1>1 DEF Reconciled
<1>6. Reconciled(rows) \in [1..Len(rows) -> Run]
  BY <1>1, <1>4, <1>5
<1>7. Reconciled(rows) \in Seq(Run)
  BY <1>1, <1>6
<1> QED BY <1>3, <1>4, <1>7

RowsAreTouched ==
  /\ runs' \in [Sessions -> Seq(Run)]
  /\ \A s \in Sessions : DOMAIN runs'[s] = DOMAIN runs[s] /\ \A i \in DOMAIN runs[s] : Touched(runs[s][i], runs'[s][i])

LEMMA OpenTouches ==
  ASSUME Typed, NEW s \in Sessions, Open(s)
  PROVE  RowsAreTouched /\ \A i \in DOMAIN runs'[s] : runs'[s][i].status # "running"
<1>1. /\ runs \in [Sessions -> Seq(Run)] /\ runs'[s] = Reconciled(runs[s])
      /\ \A x \in Sessions : x # s => runs'[x] = runs[x]
  BY DEF Typed, Open
<1>2. /\ Reconciled(runs[s]) \in Seq(Run) /\ DOMAIN Reconciled(runs[s]) = DOMAIN runs[s]
      /\ \A i \in DOMAIN runs[s] : /\ Touched(runs[s][i], Reconciled(runs[s])[i])
                                   /\ Reconciled(runs[s])[i].status # "running"
  BY <1>1, OpeningTouches
<1>3. runs' \in [Sessions -> Seq(Run)]
  BY <1>1, <1>2 DEF Open
<1> QED BY <1>1, <1>2, <1>3, UntouchedIsTouched DEF RowsAreTouched

\* Rows that are only touched stay true, and so does what is known of the job.
LEMMA TouchedRowsKeep ==
  ASSUME IInv, RowsAreTouched, UNCHANGED <<latest, cautious, job>>
  PROVE  /\ RowsAreTrue'
         /\ ~job.running /\ job.run # 0 =>
              job.home \in Sessions /\ job.run \in DOMAIN runs'[job.home] /\ Settles(runs'[job.home][job.run], job)
<1>1. ASSUME NEW s \in Sessions, NEW i \in DOMAIN runs'[s] PROVE RowIsTrue(runs'[s][i], latest[s], cautious[s])
  <2>1. i \in DOMAIN runs[s] /\ Touched(runs[s][i], runs'[s][i])
    BY DEF RowsAreTouched
  <2> QED BY <2>1, Touching DEF IInv, RowsAreTrue
<1>2. ASSUME ~job.running, job.run # 0
      PROVE  /\ job.home \in Sessions /\ job.run \in DOMAIN runs'[job.home]
             /\ Settles(runs'[job.home][job.run], job)
  <2>1. job.home \in Sessions /\ job.run \in DOMAIN runs[job.home] /\ Settles(runs[job.home][job.run], job)
    BY <1>2 DEF IInv, Standing
  <2>2. job.run \in DOMAIN runs'[job.home] /\ Touched(runs[job.home][job.run], runs'[job.home][job.run])
    BY <2>1 DEF RowsAreTouched
  <2> QED BY <2>1, <2>2, Touching
<1> QED BY <1>1, <1>2 DEF RowsAreTrue

\* A cancellation, or another process that opens a file, beside a running server.
LEMMA TouchingKeepsInvariant ==
  ASSUME IInv, RowsAreTouched, UNCHANGED <<latest, cautious, up, store, provider, job, worker>>,
         captured' \in [Cancels -> Nat \cup {None}]
  PROVE  IInv'
<1>1. Typed'
  BY DEF IInv, Typed, RowsAreTouched
<1>2. UnderWay'
  <2>1. ASSUME worker.pc # "none"
        PROVE  /\ worker.run \in DOMAIN runs'[store] /\ runs'[store][worker.run].announced = provider
               /\ Progress(worker, runs'[store][worker.run], job, latest[store], cautious[store])
    <3>1. store \in Sessions /\ worker.run \in DOMAIN runs[store]
      BY <2>1, AtWork
    <3>2. worker.run \in DOMAIN runs'[store] /\ Touched(Mine, runs'[store][worker.run])
      BY <3>1 DEF RowsAreTouched, Mine
    <3>3. Mine.announced = provider /\ Progress(worker, Mine, job, latest[store], cautious[store])
      BY <2>1, AtWork
    <3>4. runs'[store][worker.run].announced = Mine.announced
      BY <3>2 DEF Touched
    <3> QED BY <3>2, <3>3, <3>4, Touching
  <2> QED BY <2>1 DEF IInv, UnderWay, Mine
<1>3. RunningRowsAreLive'
  <2>1. ASSUME up, NEW i \in DOMAIN runs'[store], runs'[store][i].status = "running"
        PROVE  (worker.pc \notin {"none", "stop"} /\ worker.run = i) \/ runs'[store][i].lost
    <3>1. store \in Sessions /\ i \in DOMAIN runs[store] /\ Touched(runs[store][i], runs'[store][i])
      BY DEF IInv, Typed, RowsAreTouched
    <3>2. runs[store][i].status = "running" /\ runs'[store][i].lost = runs[store][i].lost
      BY <2>1, <3>1 DEF Touched
    <3> QED BY <2>1, <3>1, <3>2 DEF IInv, Standing, RunningRowsAreLive
  <2> QED BY <2>1 DEF RunningRowsAreLive
<1>4. Standing'
  BY <1>3, TouchedRowsKeep DEF IInv, Standing
<1> QED BY <1>1, <1>2, <1>4, TouchedRowsKeep DEF IInv

\* The server opens a file, while no conversion runs.
LEMMA OpeningKeepsInvariant ==
  ASSUME IInv, NEW s \in Sessions, Open(s), ~job.running, up', store' = s, provider' \in Providers,
         UNCHANGED <<latest, cautious, job, worker, captured>>
  PROVE  IInv'
<1>1. RowsAreTouched /\ \A i \in DOMAIN runs'[s] : runs'[s][i].status # "running"
  BY OpenTouches DEF IInv
<1>2. Typed'
  BY <1>1 DEF IInv, Typed, RowsAreTouched
<1>3. worker.pc = "none"
  BY DEF IInv, Standing
<1>4. Standing'
  BY <1>1, <1>3, TouchedRowsKeep DEF IInv, Standing, RunningRowsAreLive
<1> QED BY <1>1, <1>2, <1>3, <1>4, TouchedRowsKeep DEF IInv, UnderWay

LEMMA RequestCancelKeepsInvariant ==
  ASSUME IInv, NEW k \in Cancels, RequestCancel(k)
  PROVE  IInv'
<1> DEFINE i == captured[k]
<1>1. captured' \in [Cancels -> Nat \cup {None}] /\ UNCHANGED <<latest, cautious, up, store, provider, job, worker>>
  BY DEF RequestCancel, IInv, Typed
<1>2. RowsAreTouched
  <2>1. CASE Cancellable(runs[store], i)
    <3>1. runs' = [runs EXCEPT ![store][i].cancel = TRUE]
      BY <2>1 DEF RequestCancel
    <3> DEFINE q == [runs[store][i] EXCEPT !.cancel = TRUE]
    <3>2. runs' = [runs EXCEPT ![store][i] = q]
      BY <3>1
    <3>3. store \in Sessions /\ i \in DOMAIN runs[store] /\ runs[store][i] \in Run /\ Typed
      BY <2>1, ElementOfSeq DEF Cancellable, IInv, Typed
    <3>4. q \in Run /\ Touched(runs[store][i], q)
      BY <3>3, CancelTouches
    <3> HIDE DEF q, i
    <3>5. /\ runs' \in [Sessions -> Seq(Run)] /\ runs'[store][i] = q
          /\ \A x \in Sessions : DOMAIN runs'[x] = DOMAIN runs[x]
          /\ \A x \in Sessions : \A n \in DOMAIN runs[x] : x # store \/ n # i => runs'[x][n] = runs[x][n]
      BY <3>2, <3>3, <3>4, RowChange
    <3>6. ASSUME NEW x \in Sessions, NEW n \in DOMAIN runs[x] PROVE Touched(runs[x][n], runs'[x][n])
      <4>1. CASE x = store /\ n = i
        BY <3>4, <3>5, <4>1
      <4>2. CASE x # store \/ n # i
        BY <3>5, <4>2, UntouchedIsTouched
      <4> QED BY <4>1, <4>2
    <3> QED BY <3>5, <3>6 DEF RowsAreTouched
  <2>2. CASE ~Cancellable(runs[store], i)
    <3>1. runs' = runs
      BY <2>2 DEF RequestCancel
    <3> QED BY <3>1, UntouchedIsTouched DEF RowsAreTouched, IInv, Typed
  <2> QED BY <2>1, <2>2
<1> QED BY <1>1, <1>2, TouchingKeepsInvariant

LEMMA CrashKeepsInvariant == IInv /\ Crash => IInv'
<1> SUFFICES ASSUME IInv, Crash PROVE IInv'
  OBVIOUS
<1>1. UNCHANGED <<runs, latest, cautious, store, provider>> /\ ~up' /\ up' = FALSE
      /\ job' = NoJob /\ worker' = Idle /\ captured' = [k \in Cancels |-> None]
  BY DEF Crash, disk
<1>2. Typed' /\ RowsAreTrue' /\ UnderWay'
  BY <1>1, AtRest DEF IInv, Typed, RowsAreTrue, UnderWay
<1>3. Standing'
  BY <1>1, AtRest DEF Standing, RunningRowsAreLive
<1> QED BY <1>2, <1>3 DEF IInv

LEMMA SetProviderKeepsInvariant ==
  ASSUME IInv, NEW p \in Providers, SetProvider(p)
  PROVE  IInv'
<1>1. UNCHANGED <<runs, latest, cautious, up, store, job, worker, captured>> /\ provider' = p /\ worker.pc = "none"
  BY DEF SetProvider, disk, IInv, Standing
<1> QED BY <1>1 DEF IInv, Typed, RowsAreTrue, UnderWay, Standing, RunningRowsAreLive

LEMMA InitIsInvariant == Init => IInv
<1> SUFFICES ASSUME Init PROVE IInv
  OBVIOUS
<1>1. /\ runs = [s \in Sessions |-> <<>>] /\ \A s \in Sessions : runs[s] = <<>> /\ DOMAIN runs[s] = {}
      /\ up = TRUE /\ store \in Sessions /\ provider \in Providers /\ job = NoJob /\ worker = Idle
  BY DEF Init
<1>2. Typed
  BY <1>1, AtRest DEF Init, Typed
<1>3. RowsAreTrue /\ UnderWay /\ Standing
  BY <1>1, AtRest DEF RowsAreTrue, UnderWay, Standing, RunningRowsAreLive
<1> QED BY <1>2, <1>3 DEF IInv

LEMMA NextKeepsInvariant == IInv /\ [Next]_vars => IInv'
<1> SUFFICES ASSUME IInv, [Next]_vars PROVE IInv'
  OBVIOUS
<1> USE DEF IInv
<1>1. ASSUME NEW b \in Browsers, Look(b) PROVE IInv'
  BY <1>1, UnseenKeepsInvariant DEF Look, disk, Typed
<1>2. ASSUME NEW b \in Browsers, Propose(b) PROVE IInv'
  BY <1>2, ProposingKeepsInvariant
<1>3. ASSUME NEW k \in Cancels, ReadRun(k) PROVE IInv'
  <2>1. captured' \in [Cancels -> Nat \cup {None}]
    BY <1>3 DEF ReadRun, Typed, JobState
  <2> QED BY <1>3, <2>1, UnseenKeepsInvariant DEF ReadRun, disk
<1>4. ASSUME NEW k \in Cancels, RequestCancel(k) PROVE IInv'
  BY <1>4, RequestCancelKeepsInvariant
<1>5. ASSUME NEW s \in Sessions, OpenModule(s) PROVE IInv'
  BY <1>5, OpeningKeepsInvariant DEF OpenModule, Typed
<1>6. ASSUME NEW p \in Providers, SetProvider(p) PROVE IInv'
  BY <1>6, SetProviderKeepsInvariant
<1>7. ASSUME NEW refresh \in BOOLEAN, StartExplanation(refresh) PROVE IInv'
  BY <1>7, UnseenKeepsInvariant DEF StartExplanation, disk, Typed
<1>8. ASSUME NEW n \in DOMAIN explained, CancelExplanation(n) PROVE IInv'
  BY <1>8, UnseenKeepsInvariant DEF CancelExplanation, disk, Typed
<1>9. ASSUME NEW i \in calls, SettleExplanation(i) PROVE IInv'
  BY <1>9, UnseenKeepsInvariant DEF SettleExplanation, disk, Typed
<1>10. CASE Worker
  BY <1>10, LeavingKeepsInvariant, TakingKeepsInvariant, ConvertingKeepsInvariant, SavingKeepsInvariant,
     MergingKeepsInvariant, AdvancingKeepsInvariant, SyncingKeepsInvariant, EndingKeepsInvariant,
     StoppingKeepsInvariant DEF Worker
<1>11. CASE Break \/ LoseRecord
  BY <1>11, LeavingKeepsInvariant, EndingKeepsInvariant
<1>12. CASE Crash
  BY <1>12, CrashKeepsInvariant
<1>13. ASSUME NEW s \in Sessions, Restart(s) PROVE IInv'
  <2>1. ~job.running
    BY <1>13 DEF Restart, Standing
  <2> QED BY <1>13, <2>1, OpeningKeepsInvariant DEF Restart
<1>14. ASSUME NEW s \in Sessions, Visit(s) PROVE IInv'
  <2>1. RowsAreTouched
    BY <1>14, OpenTouches DEF Visit
  <2> QED BY <1>14, <2>1, TouchingKeepsInvariant DEF Visit, Typed
<1>15. CASE UNCHANGED vars
  BY <1>15, UnseenKeepsInvariant DEF vars, disk, Typed
<1> QED BY <1>1, <1>2, <1>3, <1>4, <1>5, <1>6, <1>7, <1>8, <1>9, <1>10, <1>11, <1>12, <1>13, <1>14, <1>15
        DEF Next, Request, Settle, Environment

LEMMA Invariance == Spec => []IInv
BY InitIsInvariant, NextKeepsInvariant, PTL DEF Spec

\* What the run record of a session says is true, whatever is cut off, cancelled,
\* lost or opened again.
THEOREM RunRecordsAreTrue == Spec => []RunRecordIsTrue
<1>1. IInv => RunRecordIsTrue
  <2> SUFFICES ASSUME IInv PROVE RunRecordIsTrue
    OBVIOUS
  <2>1. OutcomeBeforeStop
    BY DEF IInv, Standing, Settles, OutcomeBeforeStop
  <2>2. ASSUME NEW s \in Sessions, NEW i \in DOMAIN runs[s]
        PROVE  RowIsTrue(runs[s][i], latest[s], cautious[s]) /\ runs[s][i] \in Run
    <3>1. runs[s] \in Seq(Run)
      BY DEF IInv, Typed
    <3> QED BY <3>1, ElementOfSeq, LenProperties DEF IInv, RowsAreTrue
  <2>3. RecordedProgressIsReal
    BY <2>2 DEF RecordedProgressIsReal, RowIsTrue, Counted, Saved
  <2>4. RunsAnswerAlike
    BY <2>2 DEF RunsAnswerAlike, RowIsTrue, Alike, Saved, Converted
  <2>5. CancelSkipsTheRest
    BY <2>2 DEF CancelSkipsTheRest, RowIsTrue, Cut
  <2>6. RunningRowsAreLive
    BY DEF IInv, Standing
  <2> QED BY <2>1, <2>3, <2>4, <2>5, <2>6 DEF RunRecordIsTrue
<1> QED BY <1>1, Invariance, PTL

\* A run that completed or was cancelled in good order stored every warning its
\* proposals carry, the reused ones included.
THEOREM WarningsAreStored == Spec => []CautionIsKept
<1>1. IInv => CautionIsKept
  BY DEF IInv, RowsAreTrue, RowIsTrue, Warned, Saved, CautionIsKept
<1> QED BY <1>1, Invariance, PTL

-----------------------------------------------------------------------------
(* Explanations *)

LEMMA Spending ==
  ASSUME NEW what \in {"crashes", "visits", "failures", "explanations"}, Spend(what),
         spent \in [crashes : Nat, visits : Nat, failures : Nat, explanations : Nat]
  PROVE  /\ spent' \in [crashes : Nat, visits : Nat, failures : Nat, explanations : Nat]
         /\ spent'.explanations = IF what = "explanations" THEN spent.explanations + 1 ELSE spent.explanations
BY DEF Spend

Discarded ==
  \A n \in DOMAIN explained : \A m \in DOMAIN explained' :
    explained[n].id = explained'[m].id /\ explained[n].status = "cancelled" => explained'[m].status = "cancelled"

LEMMA KeptAsTheyAre ==
  ASSUME Numbered, explained' = explained, spent' \in [crashes : Nat, visits : Nat, failures : Nat, explanations : Nat],
         spent'.explanations = spent.explanations
  PROVE  Numbered' /\ Discarded
BY DEF Numbered, Discarded

\* A new explanation has a number of its own; the oldest may be dropped.
LEMMA StartingIsNumbered ==
  ASSUME Typed, Numbered, NEW refresh \in BOOLEAN, StartExplanation(refresh)
  PROVE  Numbered' /\ Discarded
<1> DEFINE id == spent.explanations + 1
           e == [id |-> id, context |-> Context, status |-> "running"]
           q == Append(explained, e)
           len == Len(explained)
<1>1. /\ spent' \in [crashes : Nat, visits : Nat, failures : Nat, explanations : Nat]
      /\ spent'.explanations = id
  BY Spending DEF StartExplanation, Numbered
<1>2. explained' = q \/ explained' = Tail(q)
  BY DEF StartExplanation, Trimmed
<1>3. e \in Explanation /\ e.id = id /\ e.status = "running" /\ id \in Nat
  BY DEF Explanation, Context, Typed, Numbered
<1>4. len \in Nat /\ DOMAIN explained = 1..len /\ explained \in Seq(Explanation)
      /\ \A n \in DOMAIN explained : explained[n] \in Explanation /\ explained[n].id \in Nat
  <2>1. explained \in Seq(Explanation)
    BY DEF Numbered
  <2>2. len \in Nat /\ DOMAIN explained = 1..len /\ \A n \in DOMAIN explained : explained[n] \in Explanation
    BY <2>1, LenProperties, ElementOfSeq
  <2>3. \A x \in Explanation : x.id \in Nat
    BY DEF Explanation
  <2> QED BY <2>1, <2>2, <2>3
<1> HIDE DEF e, id
<1>5. /\ q \in Seq(Explanation) /\ Len(q) = len + 1 /\ DOMAIN q = 1..(len + 1) /\ q[len + 1] = e
      /\ \A n \in 1..len : q[n] = explained[n]
  BY <1>3, <1>4
<1>6. \A n \in 1..len : explained[n].id < id
  BY <1>4, <1>3 DEF Numbered, id
<1>7. /\ \A n \in DOMAIN q : q[n].id <= id
      /\ \A n, m \in DOMAIN q : q[n].id = q[m].id => n = m
  <2>1. \A n \in DOMAIN q : n = len + 1 \/ n \in 1..len
    BY <1>4, <1>5
  <2>2. \A n \in DOMAIN q : q[n].id <= id /\ (n # len + 1 => q[n].id # id)
    BY <1>3, <1>4, <1>5, <1>6, <2>1
  <2>3. \A n, m \in 1..len : q[n].id = q[m].id => n = m
    BY <1>4, <1>5 DEF Numbered
  <2> QED BY <1>3, <1>5, <2>1, <2>2, <2>3
<1>8. \A n \in 1..len : \A m \in DOMAIN q : explained[n].id = q[m].id => q[m] = explained[n]
  BY <1>4, <1>5, <1>7
<1> HIDE DEF q
<1>9. explained' \in Seq(Explanation) /\ \A m \in DOMAIN explained' : \E k \in DOMAIN q : explained'[m] = q[k]
  <2>1. CASE explained' = q
    BY <1>5, <2>1
  <2>2. CASE explained' = Tail(q)
    <3>1. Tail(q) \in Seq(Explanation) /\ DOMAIN Tail(q) = 1..len /\ \A m \in 1..len : Tail(q)[m] = q[m + 1]
      BY <1>4, <1>5
    <3> QED BY <1>4, <1>5, <2>2, <3>1
  <2> QED BY <1>2, <2>1, <2>2
<1>10. \A n, m \in DOMAIN explained' : explained'[n].id = explained'[m].id => n = m
  <2>1. CASE explained' = q
    BY <1>7, <2>1
  <2>2. CASE explained' = Tail(q)
    <3>1. DOMAIN Tail(q) = 1..len /\ \A m \in 1..len : Tail(q)[m] = q[m + 1] /\ m + 1 \in DOMAIN q
      BY <1>4, <1>5
    <3>2. ASSUME NEW n \in 1..len, NEW m \in 1..len, Tail(q)[n].id = Tail(q)[m].id PROVE n = m
      <4>1. n + 1 = m + 1
        BY <1>7, <3>1, <3>2
      <4> QED BY <4>1
    <3> QED BY <2>2, <3>1, <3>2
  <2> QED BY <1>2, <2>1, <2>2
<1>11. \A n \in DOMAIN explained' : explained'[n].id <= spent'.explanations
  BY <1>1, <1>7, <1>9
<1>12. Discarded
  BY <1>4, <1>8, <1>9 DEF Discarded
<1> QED BY <1>1, <1>9, <1>10, <1>11, <1>12 DEF Numbered

\* A provider settles, or the user discards: numbers stay, and so does a discard.
LEMMA ChangingIsNumbered ==
  ASSUME Numbered, UNCHANGED spent, explained' \in Seq(Explanation), DOMAIN explained' = DOMAIN explained,
         \A n \in DOMAIN explained :
           /\ explained'[n].id = explained[n].id
           /\ explained[n].status = "cancelled" => explained'[n].status = "cancelled"
  PROVE  Numbered' /\ Discarded
BY DEF Numbered, Discarded

LEMMA SettlingIsNumbered ==
  ASSUME Numbered, NEW i \in calls, SettleExplanation(i)
  PROVE  Numbered' /\ Discarded
<1>1. PICK status \in {"completed", "failed"} :
        explained' = [n \in DOMAIN explained |-> Settled(explained[n], i, status)]
  BY DEF SettleExplanation
<1>2. /\ Len(explained) \in Nat /\ DOMAIN explained = 1..Len(explained)
      /\ \A n \in DOMAIN explained : explained[n] \in Explanation
  BY LenProperties, ElementOfSeq DEF Numbered
<1>3. ASSUME NEW n \in DOMAIN explained
      PROVE  /\ explained'[n] \in Explanation /\ explained'[n].id = explained[n].id
             /\ explained[n].status = "cancelled" => explained'[n].status = "cancelled"
  <2>1. CASE explained[n].id = i /\ explained[n].status # "cancelled"
    <3>1. explained'[n] = [explained[n] EXCEPT !.status = status]
      BY <1>1, <2>1 DEF Settled
    <3> QED BY <1>2, <2>1, <3>1 DEF Explanation
  <2>2. CASE ~(explained[n].id = i /\ explained[n].status # "cancelled")
    <3>1. explained'[n] = explained[n]
      BY <1>1, <2>2 DEF Settled
    <3> QED BY <1>2, <3>1
  <2> QED BY <2>1, <2>2
<1>4. DOMAIN explained' = DOMAIN explained /\ explained' = [n \in 1..Len(explained) |-> explained'[n]]
  BY <1>1, <1>2
<1>5. explained' \in [1..Len(explained) -> Explanation]
  BY <1>2, <1>3, <1>4
<1>6. explained' \in Seq(Explanation)
  BY <1>2, <1>5
<1>7. UNCHANGED spent
  BY DEF SettleExplanation
<1> QED BY <1>3, <1>4, <1>6, <1>7, ChangingIsNumbered

LEMMA DiscardingIsNumbered ==
  ASSUME Numbered, NEW n \in DOMAIN explained, CancelExplanation(n)
  PROVE  Numbered' /\ Discarded
<1> DEFINE e == [explained[n] EXCEPT !.status = "cancelled"]
<1>1. explained' = [explained EXCEPT ![n] = e] /\ UNCHANGED spent
  BY DEF CancelExplanation
<1>2. explained \in Seq(Explanation) /\ explained[n] \in Explanation
  BY ElementOfSeq, LenProperties DEF Numbered
<1>3. e \in Explanation /\ e.id = explained[n].id /\ e.status = "cancelled"
  BY <1>2 DEF Explanation
<1> HIDE DEF e
<1>4. explained' \in Seq(Explanation) /\ DOMAIN explained' = DOMAIN explained
  BY <1>1, <1>2, <1>3, ExceptSeq, LenProperties
<1>5. \A m \in DOMAIN explained : explained'[m] = IF m = n THEN e ELSE explained[m]
  BY <1>1, <1>2
<1> QED BY <1>1, <1>3, <1>4, <1>5, ChangingIsNumbered

LEMMA NextIsNumbered == Typed /\ Numbered /\ [Next]_vars => Numbered' /\ Discarded
<1> SUFFICES ASSUME Typed, Numbered, [Next]_vars PROVE Numbered' /\ Discarded
  OBVIOUS
<1>1. ASSUME explained' = explained, spent' = spent PROVE Numbered' /\ Discarded
  BY <1>1, KeptAsTheyAre DEF Numbered
<1>2. ASSUME NEW b \in Browsers, Look(b) \/ Propose(b) PROVE Numbered' /\ Discarded
  BY <1>1, <1>2 DEF Look, Propose, ai
<1>3. ASSUME NEW k \in Cancels, ReadRun(k) \/ RequestCancel(k) PROVE Numbered' /\ Discarded
  BY <1>1, <1>3 DEF ReadRun, RequestCancel, ai
<1>4. ASSUME NEW s \in Sessions, OpenModule(s) \/ Restart(s) PROVE Numbered' /\ Discarded
  BY <1>1, <1>4 DEF OpenModule, Restart, ai
<1>5. ASSUME NEW p \in Providers, SetProvider(p) PROVE Numbered' /\ Discarded
  BY <1>1, <1>5 DEF SetProvider, ai
<1>6. ASSUME NEW refresh \in BOOLEAN, StartExplanation(refresh) PROVE Numbered' /\ Discarded
  BY <1>6, StartingIsNumbered
<1>7. ASSUME NEW n \in DOMAIN explained, CancelExplanation(n) PROVE Numbered' /\ Discarded
  BY <1>7, DiscardingIsNumbered
<1>8. ASSUME NEW i \in calls, SettleExplanation(i) PROVE Numbered' /\ Discarded
  BY <1>8, SettlingIsNumbered
<1>9. CASE Worker
  <2>1. WorkerOnly
    BY <1>9 DEF Worker, NoMoreUnits, NoticeCancel, SkipStranger, TakeUnit, Reuse, Ask, SaveProposal, MergeBehavior,
                Advance, Sync, FinalSync, Finish, Stop
  <2> QED BY <1>1, <2>1 DEF WorkerOnly, ai
<1>10. ASSUME Break \/ LoseRecord \/ \E s \in Sessions : Visit(s) PROVE Numbered' /\ Discarded
  <2>1. explained' = explained /\ \E what \in {"failures", "visits"} : Spend(what)
    BY <1>10 DEF Break, LoseRecord, Visit, ai
  <2>2. /\ spent' \in [crashes : Nat, visits : Nat, failures : Nat, explanations : Nat]
        /\ spent'.explanations = spent.explanations
    BY <2>1, Spending DEF Numbered
  <2> QED BY <2>1, <2>2, KeptAsTheyAre
<1>11. CASE Crash
  <2>1. /\ explained' = <<>>
        /\ spent' \in [crashes : Nat, visits : Nat, failures : Nat, explanations : Nat]
    BY <1>11, Spending DEF Crash, Numbered
  <2> QED BY <2>1 DEF Numbered, Discarded
<1>12. CASE UNCHANGED vars
  BY <1>1, <1>12 DEF vars, ai
<1> QED BY <1>2, <1>3, <1>4, <1>5, <1>6, <1>7, <1>8, <1>9, <1>10, <1>11, <1>12
        DEF Next, Request, Settle, Environment

LEMMA AllNumbered == Spec => []Numbered
<1>1. Init => Numbered
  BY DEF Init, Numbered, Spent
<1>2. IInv => Typed
  BY DEF IInv
<1> QED BY <1>1, <1>2, Invariance, NextIsNumbered, PTL DEF Spec

\* Whatever its provider answers, an explanation the user discarded stays
\* discarded: no step gives its number to another, or its status back.
THEOREM ADiscardIsFinal == Spec => DiscardedStaysDiscarded
<1>1. IInv /\ Numbered /\ [Next]_vars =>
        [\A n \in DOMAIN explained : \A m \in DOMAIN explained' :
           explained[n].id = explained'[m].id /\ explained[n].status = "cancelled"
             => explained'[m].status = "cancelled"]_vars
  BY NextIsNumbered DEF IInv, Discarded
<1> QED BY <1>1, Invariance, AllNumbered, PTL DEF Spec, DiscardedStaysDiscarded

-----------------------------------------------------------------------------
LEMMA NextKeepsOneAtATime == IInv /\ Numbered /\ OneAtATime /\ [Next]_vars => OneAtATime'
<1> SUFFICES ASSUME IInv, Numbered, OneAtATime, [Next]_vars PROVE OneAtATime'
  OBVIOUS
<1>1. ASSUME calls' = calls, active' = active, job'.running => job.running PROVE OneAtATime'
  BY <1>1 DEF OneAtATime
<1>2. ASSUME NEW b \in Browsers, Propose(b) PROVE OneAtATime'
  BY <1>2 DEF Propose, MayStart, ai, OneAtATime
<1>3. ASSUME NEW refresh \in BOOLEAN, StartExplanation(refresh) PROVE OneAtATime'
  <2>1. spent.explanations + 1 # None
    BY ConstantsAssumption DEF Numbered
  <2> QED BY <1>3, <2>1 DEF StartExplanation, OneAtATime
<1>4. ASSUME NEW i \in calls, SettleExplanation(i) PROVE OneAtATime'
  BY <1>4 DEF SettleExplanation, OneAtATime
<1>5. CASE Crash
  BY <1>5 DEF Crash, OneAtATime
<1>6. CASE Worker
  <2>1. calls' = calls /\ active' = active
    BY <1>6 DEF Worker, NoMoreUnits, NoticeCancel, SkipStranger, TakeUnit, Reuse, Ask, SaveProposal, MergeBehavior,
                Advance, Sync, FinalSync, Finish, Stop, WorkerOnly, ai
  <2>2. job'.running => job.running
    <3>1. worker.pc # "none"
      BY <1>6 DEF Worker, NoMoreUnits, NoticeCancel, SkipStranger, TakeUnit, Reuse, Ask, SaveProposal, MergeBehavior,
                  Advance, Sync, FinalSync, Finish, Stop
    <3> QED BY <3>1 DEF IInv, Standing
  <2> QED BY <1>1, <2>1, <2>2
<1>7. ASSUME NEW b \in Browsers, Look(b) PROVE OneAtATime'
  BY <1>1, <1>7 DEF Look, ai
<1>8. ASSUME NEW k \in Cancels, ReadRun(k) \/ RequestCancel(k) PROVE OneAtATime'
  BY <1>1, <1>8 DEF ReadRun, RequestCancel, ai
<1>9. ASSUME NEW s \in Sessions, OpenModule(s) \/ Restart(s) \/ Visit(s) PROVE OneAtATime'
  BY <1>1, <1>9 DEF OpenModule, Restart, Visit, ai
<1>10. ASSUME NEW p \in Providers, SetProvider(p) PROVE OneAtATime'
  BY <1>1, <1>10 DEF SetProvider, ai
<1>11. ASSUME NEW n \in DOMAIN explained, CancelExplanation(n) PROVE OneAtATime'
  BY <1>1, <1>11 DEF CancelExplanation
<1>12. CASE Break \/ LoseRecord
  BY <1>1, <1>12 DEF Break, LoseRecord, ai
<1>13. CASE UNCHANGED vars
  BY <1>1, <1>13 DEF vars, ai
<1> QED BY <1>2, <1>3, <1>4, <1>5, <1>6, <1>7, <1>8, <1>9, <1>10, <1>11, <1>12, <1>13
        DEF Next, Request, Settle, Environment

\* A conversion's unit and an explanation are never with a provider together,
\* nor are two explanations, discarded ones included.
THEOREM OneRequestAtATime == Spec => []OneProviderCall
<1>1. Init => OneAtATime
  BY DEF Init, OneAtATime
<1>2. IInv /\ OneAtATime => OneProviderCall
  <2> SUFFICES ASSUME IInv, OneAtATime PROVE OneProviderCall
    OBVIOUS
  <2>1. CASE active = None
    <3>1. Cardinality(calls) = 0
      BY <2>1, FS_EmptySet DEF OneAtATime
    <3> QED BY <3>1 DEF OneProviderCall
  <2>2. CASE active # None
    <3>1. Cardinality(calls) = 1
      BY <2>2, FS_Singleton DEF OneAtATime
    <3>2. worker.pc = "none"
      BY <2>2 DEF OneAtATime, IInv, Standing
    <3> QED BY <3>1, <3>2 DEF OneProviderCall
  <2> QED BY <2>1, <2>2
<1> QED BY <1>1, <1>2, Invariance, AllNumbered, NextKeepsOneAtATime, PTL DEF Spec

-----------------------------------------------------------------------------
(* The page of a session, exported again and again: PageExport *)

\* Mapping the empty prefix away.
LEMMA SameSequence ==
  ASSUME NEW S, NEW n \in Nat, NEW f, f = [i \in 1..n |-> f[i]], \A i \in 1..n : f[i] \in S
  PROVE  f \in Seq(S) /\ <<>> \o f = f
<1>1. f \in [1..n -> S]
  OBVIOUS
<1>2. f \in Seq(S)
  BY <1>1, IsASeq
<1> QED
  BY <1>2, ConcatEmptySeq

\* The revisions of a sample are made pages of one by one, and a request is a
\* matter of the form and the page.
LEMMA MadeOfForms ==
  ASSUME NEW s \in DOMAIN Revisions
  PROVE  /\ DOMAIN Ruled[s] = DOMAIN Revisions[s]
         /\ \A r \in DOMAIN Revisions[s] :
              /\ Ruled[s][r] = [layout |-> Layout(Revisions[s][r]), hard |-> Hard(Layout(Revisions[s][r]))]
              /\ \A p \in Pages :
                   Requests[s][r][p] = RegionsRequest(Revisions[s][r], Ruled[s][r].layout, Ruled[s][r].hard, p)
<1> DEFINE forms == Revisions[s]
           made == [r \in DOMAIN forms |-> Layout(forms[r])]
           page(layout) == [layout |-> layout, hard |-> Hard(layout)]
           ruled == [r \in DOMAIN made |-> page(made[r])]
<1>1. PICK n \in Nat : DOMAIN forms = 1..n
  <2>1. forms \in Seq(ToSet(forms))
    BY ExportAssumption
  <2> QED
    BY <2>1, LenProperties
<1>2. Layouts[s] = <<>> \o made
  BY ExportAssumption DEF Map
<1>3. <<>> \o made = made
  <2> HIDE DEF forms
  <2>1. made = [i \in 1..n |-> made[i]] /\ \A i \in 1..n : made[i] \in {made[r] : r \in DOMAIN forms}
    BY <1>1
  <2> HIDE DEF made
  <2> QED
    BY <2>1, SameSequence
<1>4. Ruled[s] = <<>> \o [r \in DOMAIN Layouts[s] |-> page(Layouts[s][r])]
  BY DEF Ruled, Map
<1>5. Ruled[s] = <<>> \o ruled
  BY <1>2, <1>3, <1>4
<1>6. <<>> \o ruled = ruled
  <2> HIDE DEF forms, page
  <2>1. ruled = [i \in 1..n |-> ruled[i]] /\ \A i \in 1..n : ruled[i] \in {ruled[r] : r \in DOMAIN forms}
    BY <1>1
  <2> HIDE DEF ruled
  <2> QED
    BY <2>1, SameSequence
<1>7. \A r \in DOMAIN forms : \A p \in Pages :
        Requests[s][r][p] = RegionsRequest(forms[r], Ruled[s][r].layout, Ruled[s][r].hard, p)
  BY DEF Requests
<1> QED
  BY <1>5, <1>6, <1>7

\* The page of the rules and what a provider is asked are a matter of the form.
LEMMA SameFormSamePage ==
  ASSUME NEW s \in DOMAIN Revisions, NEW q \in DOMAIN Revisions[s], NEW r \in DOMAIN Revisions[s],
         Revisions[s][q] = Revisions[s][r]
  PROVE  Ruled[s][q] = Ruled[s][r] /\ \A p \in Pages : Requests[s][q][p] = Requests[s][r][p]
<1>1. Ruled[s][q] = Ruled[s][r]
  BY MadeOfForms
<1> QED
  BY <1>1, MadeOfForms

\* Does a kept plan stand for page p of revision r, and the page it makes.
Stands(r, p, kept) ==
  /\ kept # Absent
  /\ Ruled[sample][r].hard # <<>>
  /\ kept.request = Requests[sample][r][p]
  /\ ValidPlan(Revisions[sample][r], Ruled[sample][r].hard, kept.plan)
PageBy(r, plan) == ApplyPlan(Revisions[sample][r], Ruled[sample][r].layout, plan).regions

ExportTyped ==
  /\ sample \in DOMAIN Revisions
  /\ revision \in DOMAIN Revisions[sample]
  /\ exports \in Nat
  /\ config \in [page : Pages, ai : BOOLEAN]
  /\ plans = [p \in Pages |-> plans[p]]
  /\ placed = [p \in Pages |-> placed[p]]

\* What a provider has placed is what the plan kept for that page makes of the
\* revision it was placed for.
PlacedByPlan(p) ==
  placed[p] # Absent =>
    /\ placed[p].form \in DOMAIN Revisions[sample]
    /\ Stands(placed[p].form, p, plans[p])
    /\ placed[p].regions = PageBy(placed[p].form, plans[p].plan)

\* The last page written is the one the choices on record make of it.
WrittenByChoices ==
  exported # Absent /\ ~refused =>
    /\ exported.revision \in DOMAIN Revisions[sample]
    /\ exported.page = config.page
    /\ exported.regions =
         IF config.ai /\ Stands(exported.revision, config.page, plans[config.page])
         THEN PageBy(exported.revision, plans[config.page].plan)
         ELSE Ruled[sample][exported.revision].layout.regions

ExportInv == ExportTyped /\ (\A p \in Pages : PlacedByPlan(p)) /\ WrittenByChoices

LEMMA FitsIsStands ==
  ASSUME NEW p, NEW kept
  PROVE  Fits(p, kept) <=> Stands(revision, p, kept)
BY DEF Fits, Stands, HardOnes, Form

LEMMA ExportInitially == ASSUME ExportInit PROVE ExportInv
<1>1. revision \in DOMAIN Revisions[sample] /\ sample \in DOMAIN Revisions
  <2>1. Revisions[sample] \in Seq(ToSet(Revisions[sample])) /\ Revisions[sample] # <<>>
    BY ExportAssumption DEF ExportInit
  <2>2. DOMAIN Revisions[sample] = 1..Len(Revisions[sample]) /\ Len(Revisions[sample]) \in Nat \ {0}
    BY <2>1, LenProperties, EmptySeq
  <2> QED
    BY <2>2 DEF ExportInit
<1>2. 1 \in Pages
  BY ExportAssumption
<1>3. ExportTyped
  BY <1>1, <1>2 DEF ExportInit, ExportTyped
<1> QED
  BY <1>3 DEF ExportInit, ExportInv, PlacedByPlan, WrittenByChoices

LEMMA ReviseKeeps == ASSUME ExportInv, Revise PROVE ExportInv'
<1>1. UNCHANGED <<sample, config, plans, keys, exported, placed, refused, exports>>
  BY DEF Revise
<1>2. revision' \in DOMAIN Revisions[sample]
  <2>1. Revisions[sample] \in Seq(ToSet(Revisions[sample]))
    BY ExportAssumption DEF ExportInv, ExportTyped
  <2>2. DOMAIN Revisions[sample] = 1..Len(Revisions[sample]) /\ Len(Revisions[sample]) \in Nat
    BY <2>1, LenProperties
  <2> QED
    BY <2>2 DEF Revise, ExportInv, ExportTyped
<1>3. ExportTyped'
  BY <1>1, <1>2 DEF ExportInv, ExportTyped
<1>4. \A p \in Pages : PlacedByPlan(p)'
  BY <1>1 DEF ExportInv, PlacedByPlan, Stands, PageBy
<1>5. WrittenByChoices'
  BY <1>1 DEF ExportInv, WrittenByChoices, Stands, PageBy
<1> QED
  BY <1>3, <1>4, <1>5 DEF ExportInv

\* The three ways of an export: the kept plan is replayed; a provider's answer
\* is applied and kept; or the rules' page is written, or none.
Written(page, assisted) ==
  /\ config' = [page |-> page, ai |-> assisted]
  /\ exports' = exports + 1
  /\ UNCHANGED <<sample, revision>>
Shows(page, asked, regions) ==
  /\ ~refused'
  /\ exported'.revision = revision /\ exported'.page = page /\ exported'.asked = asked
  /\ exported'.regions = regions
Replays(page) ==
  /\ Stands(revision, page, plans[page])
  /\ plans' = plans
  /\ Shows(page, FALSE, PageBy(revision, plans[page].plan))
  /\ placed' = [placed EXCEPT ![page] = [form |-> revision, regions |-> PageBy(revision, plans[page].plan)]]
Applies(page, plan) ==
  LET kept == [request |-> Requests[sample][revision][page], plan |-> plan] IN
  /\ ~Stands(revision, page, plans[page])
  /\ Stands(revision, page, kept)
  /\ plans' = [plans EXCEPT ![page] = kept]
  /\ Shows(page, TRUE, PageBy(revision, plan))
  /\ placed' = [placed EXCEPT ![page] = [form |-> revision, regions |-> PageBy(revision, plan)]]
Falls(page, assisted) ==
  /\ ~(assisted /\ Stands(revision, page, plans[page]))
  /\ plans' = plans /\ placed' = placed
  /\ refused' \/ \E asked \in BOOLEAN : Shows(page, asked, Ruled[sample][revision].layout.regions)

LEMMA WaysOfExport ==
  ASSUME ExportInv, NEW page \in Pages, NEW assisted \in BOOLEAN, NEW confirmed,
         NEW answer \in ProviderAnswers[sample][revision] \cup {NoAnswer}, Export(page, assisted, confirmed, answer)
  PROVE  /\ Written(page, assisted)
         /\ (assisted /\ Replays(page)) \/ (assisted /\ \E plan : Applies(page, plan)) \/ Falls(page, assisted)
<1> DEFINE cached  == assisted /\ Fits(page, plans[page])
           asked   == assisted /\ HardOnes # <<>> /\ ~cached
           applied == asked /\ answer.kind = "plan" /\ ValidPlan(Form, HardOnes, answer.plan)
           final   == CASE cached  -> ApplyPlan(Form, Rules, plans[page].plan)
                        [] applied -> ApplyPlan(Form, Rules, answer.plan)
                        [] OTHER   -> Rules
<1>1. /\ Written(page, assisted)
      /\ plans' = IF applied THEN Keep(page, answer.plan) ELSE plans
      /\ refused' = (asked /\ answer.kind = "refused")
      /\ refused' => UNCHANGED <<exported, placed>>
      /\ ~refused' =>
           /\ exported'.revision = revision /\ exported'.page = page /\ exported'.asked = asked
           /\ exported'.regions = final.regions
           /\ placed' = IF cached \/ applied
                        THEN [placed EXCEPT ![page] = [form |-> revision, regions |-> final.regions]]
                        ELSE placed
  BY DEF Export, Written
<1>2. cached <=> assisted /\ Stands(revision, page, plans[page])
  BY FitsIsStands
<1>3. CASE cached
  <2>1. asked = FALSE /\ applied = FALSE
    BY <1>3
  <2>2. final = ApplyPlan(Form, Rules, plans[page].plan)
    BY <1>3, <2>1
  <2>3. final.regions = PageBy(revision, plans[page].plan)
    BY <2>2 DEF PageBy, Form, Rules
  <2> HIDE DEF cached, asked, applied, final
  <2>4. Replays(page)
    BY <1>1, <1>2, <1>3, <2>1, <2>3 DEF Replays, Shows
  <2> QED
    BY <1>1, <1>2, <1>3, <2>4
<1>4. CASE applied
  <2> DEFINE kept == [request |-> Requests[sample][revision][page], plan |-> answer.plan]
  <2>1. ~cached /\ asked /\ assisted /\ answer.kind = "plan"
    BY <1>4
  <2>2. final = ApplyPlan(Form, Rules, answer.plan)
    BY <1>4, <2>1
  <2>3. final.regions = PageBy(revision, answer.plan)
    BY <2>2 DEF PageBy, Form, Rules
  <2>4. kept # Absent
    <3>3. NoAnswer.kind # "plan"
      BY DEF NoAnswer
    <3>1. answer \in ProviderAnswers[sample][revision]
      BY ONLY <2>1, <3>3, answer \in ProviderAnswers[sample][revision] \cup {NoAnswer}
    <3>2. sample \in DOMAIN Revisions /\ revision \in DOMAIN Revisions[sample]
      BY DEF ExportInv, ExportTyped
    <3> QED
      BY <3>1, <3>2, AbsenceAssumption
  <2>5. Fits(page, kept)
    BY <1>4, <2>4 DEF Fits
  <2>6. Stands(revision, page, kept)
    BY <2>5, FitsIsStands
  <2>7. Keep(page, answer.plan) = [plans EXCEPT ![page] = kept]
    BY DEF Keep
  <2> HIDE DEF cached, asked, applied, final
  <2>8. ~refused' /\ asked = TRUE
    BY <1>1, <2>1
  <2>9. Applies(page, answer.plan)
    BY <1>1, <1>2, <1>4, <2>1, <2>3, <2>6, <2>7, <2>8 DEF Applies, Shows
  <2> QED
    BY <1>1, <2>1, <2>9
<1>5. CASE ~cached /\ ~applied
  <2>1. final = Rules
    BY <1>5
  <2>2. final.regions = Ruled[sample][revision].layout.regions
    BY <2>1 DEF Rules
  <2>3. asked \in BOOLEAN
    OBVIOUS
  <2> HIDE DEF cached, asked, applied, final
  <2>4. Falls(page, assisted)
    BY <1>1, <1>2, <1>5, <2>2, <2>3 DEF Falls, Shows
  <2> QED
    BY <1>1, <2>4
<1> QED
  BY <1>3, <1>4, <1>5

\* Whatever way an export takes, it keeps the invariant.
LEMMA ExportKeeps ==
  ASSUME ExportInv, NEW page \in Pages, NEW assisted \in BOOLEAN, Written(page, assisted),
         (assisted /\ Replays(page)) \/ (assisted /\ \E plan : Applies(page, plan)) \/ Falls(page, assisted)
  PROVE  ExportInv'
<1>1. UNCHANGED <<sample, revision>> /\ config' = [page |-> page, ai |-> assisted] /\ exports' \in Nat
  BY DEF Written, ExportInv, ExportTyped
<1>2. /\ sample \in DOMAIN Revisions /\ revision \in DOMAIN Revisions[sample]
      /\ plans = [p \in Pages |-> plans[p]] /\ placed = [p \in Pages |-> placed[p]]
  BY DEF ExportInv, ExportTyped
<1>3. \A r, p, kept : Stands(r, p, kept)' <=> Stands(r, p, kept)
  BY <1>1 DEF Stands
<1>4. \A r, plan : PageBy(r, plan)' = PageBy(r, plan)
  BY <1>1 DEF PageBy
<1>5. ASSUME plans' = [p \in Pages |-> plans'[p]], placed' = [p \in Pages |-> placed'[p]],
             \A p \in Pages \ {page} : plans'[p] = plans[p] /\ placed'[p] = placed[p],
             placed'[page] # Absent =>
               /\ placed'[page].form \in DOMAIN Revisions[sample]
               /\ Stands(placed'[page].form, page, plans'[page])
               /\ placed'[page].regions = PageBy(placed'[page].form, plans'[page].plan),
             ~refused' =>
               /\ exported'.revision = revision /\ exported'.page = page
               /\ exported'.regions = IF assisted /\ Stands(revision, page, plans'[page])
                                      THEN PageBy(revision, plans'[page].plan)
                                      ELSE Ruled[sample][revision].layout.regions
      PROVE  ExportInv'
  <2>1. ExportTyped'
    BY <1>1, <1>2, <1>5 DEF ExportTyped
  <2>2. ASSUME NEW p \in Pages PROVE PlacedByPlan(p)'
    <3>1. PICK at, kept : at = placed'[p] /\ kept = plans'[p]
      OBVIOUS
    <3>2. at # Absent =>
            /\ at.form \in DOMAIN Revisions[sample]
            /\ Stands(at.form, p, kept)
            /\ at.regions = PageBy(at.form, kept.plan)
      <4>1. CASE p = page
        BY <1>5, <3>1, <4>1
      <4>2. CASE p # page
        BY <1>5, <3>1, <4>2 DEF ExportInv, PlacedByPlan
      <4> QED
        BY <4>1, <4>2
    <3>3. at # Absent =>
            /\ at.form \in DOMAIN Revisions[sample]
            /\ Stands(at.form, p, kept)'
            /\ at.regions = PageBy(at.form, kept.plan)'
      BY <1>3, <1>4, <3>2
    <3> QED
      BY <1>1, <3>1, <3>3 DEF PlacedByPlan, Stands, PageBy
  <2>3. WrittenByChoices'
    <3> SUFFICES ASSUME ~refused' PROVE WrittenByChoices'
      BY DEF WrittenByChoices
    <3>1. PICK kept : kept = plans'[page]
      OBVIOUS
    <3>2. exported'.regions = IF assisted /\ Stands(revision, page, kept)
                              THEN PageBy(revision, kept.plan)
                              ELSE Ruled[sample][revision].layout.regions
      BY <1>5, <3>1
    <3>3. exported'.revision = revision /\ exported'.page = page /\ config'.page = page /\ config'.ai = assisted
      BY <1>1, <1>5
    <3> QED
      BY <1>1, <1>2, <3>1, <3>2, <3>3 DEF WrittenByChoices, Stands, PageBy
  <2> QED
    BY <2>1, <2>2, <2>3 DEF ExportInv
<1>6. CASE assisted /\ Replays(page)
  BY <1>2, <1>5, <1>6 DEF Replays, Shows
<1>7. CASE assisted /\ \E plan : Applies(page, plan)
  <2>1. PICK plan : Applies(page, plan)
    BY <1>7
  <2>2. PICK kept : kept = [request |-> Requests[sample][revision][page], plan |-> plan]
    OBVIOUS
  <2>3. kept.plan = plan
    BY <2>2
  <2>4. /\ Stands(revision, page, kept)
        /\ plans' = [plans EXCEPT ![page] = kept]
        /\ Shows(page, TRUE, PageBy(revision, plan))
        /\ placed' = [placed EXCEPT ![page] = [form |-> revision, regions |-> PageBy(revision, plan)]]
    BY <2>1, <2>2 DEF Applies
  <2> QED
    BY <1>2, <1>5, <1>7, <2>3, <2>4 DEF Shows
<1>8. CASE Falls(page, assisted)
  <2>1. PlacedByPlan(page)
    BY DEF ExportInv
  <2> QED
    BY <1>2, <1>5, <1>8, <2>1 DEF Falls, Shows, PlacedByPlan
<1> QED
  BY <1>6, <1>7, <1>8

LEMMA ExportStep ==
  ASSUME ExportInv, ExportSome
  PROVE  \E page \in Pages, assisted \in BOOLEAN :
           /\ Written(page, assisted)
           /\ (assisted /\ Replays(page)) \/ (assisted /\ \E plan : Applies(page, plan)) \/ Falls(page, assisted)
<1>1. PICK page \in Pages, assisted \in BOOLEAN, confirmed \in Confirmations(Form) :
        \E answer \in IF assisted /\ HardOnes # <<>> /\ ~Fits(page, plans[page])
                      THEN ProviderAnswers[sample][revision] ELSE {NoAnswer} :
          Export(page, assisted, confirmed, answer)
  BY DEF ExportSome
<1>2. PICK answer \in ProviderAnswers[sample][revision] \cup {NoAnswer} : Export(page, assisted, confirmed, answer)
  BY <1>1
<1> QED
  BY <1>2, WaysOfExport

LEMMA ExportInvariance == ExportInv /\ [ExportNext]_exportVars => ExportInv'
<1> SUFFICES ASSUME ExportInv, [ExportNext]_exportVars PROVE ExportInv'
  OBVIOUS
<1>1. CASE Revise
  BY <1>1, ReviseKeeps
<1>2. CASE ExportSome
  BY <1>2, ExportStep, ExportKeeps
<1>3. CASE UNCHANGED exportVars
  <2>1. ExportTyped'
    BY <1>3 DEF exportVars, ExportInv, ExportTyped
  <2>2. \A p \in Pages : PlacedByPlan(p)'
    BY <1>3 DEF exportVars, ExportInv, PlacedByPlan, Stands, PageBy
  <2>3. WrittenByChoices'
    BY <1>3 DEF exportVars, ExportInv, WrittenByChoices, Stands, PageBy
  <2> QED
    BY <2>1, <2>2, <2>3 DEF ExportInv
<1> QED
  BY <1>1, <1>2, <1>3 DEF ExportNext

\* The preview shows the page the last export wrote - the rules' or a
\* provider's - while that was the first page and nothing was refused since.
THEOREM PreviewsShowTheExport == ExportSpec => []PreviewIsTheExport
<1>1. ExportInit => ExportInv
  BY ExportInitially
<1>2. ExportInv => PreviewIsTheExport
  <2> SUFFICES ASSUME ExportInv, exported # Absent, exported.revision = revision, exported.page = 1, ~refused
               PROVE  Preview = exported.regions
    BY DEF PreviewIsTheExport
  <2>1. /\ config.page = 1
        /\ exported.regions = IF config.ai /\ Stands(revision, 1, plans[1])
                              THEN PageBy(revision, plans[1].plan)
                              ELSE Ruled[sample][revision].layout.regions
    BY DEF ExportInv, WrittenByChoices
  <2>2. Rules.regions = Ruled[sample][revision].layout.regions
    BY DEF Rules
  <2>3. \A plan : ApplyPlan(Form, Rules, plan).regions = PageBy(revision, plan)
    BY DEF PageBy, Form, Rules
  <2>4. \A kept : Fits(1, kept) <=> Stands(revision, 1, kept)
    BY FitsIsStands
  <2>5. ~Stands(revision, 1, Absent)
    BY DEF Stands
  <2> QED
    BY <2>1, <2>2, <2>3, <2>4, <2>5 DEF Preview
<1> QED
  BY <1>1, <1>2, ExportInvariance, PTL DEF ExportSpec

\* A page a provider has placed is written again, the same and without asking
\* anybody, whenever the same source is exported under its number with the
\* assistant on, for any sources, providers, pages and number of exports.
THEOREM PlacedPagesAreReplayed == ExportSpec => PlansAreReplayed
<1>1. ExportInit => ExportInv
  BY ExportInitially
<1>2. ExportInv /\ [ExportNext]_exportVars =>
        [(exports' > exports /\ config'.ai /\ placed[config'.page] # Absent
          /\ Revisions[sample][placed[config'.page].form] = Form)
           => /\ ~exported'.asked /\ exported'.revision = revision
              /\ exported'.regions = placed[config'.page].regions]_exportVars
  <2> SUFFICES ASSUME ExportInv, [ExportNext]_exportVars, exports' > exports, config'.ai,
                      placed[config'.page] # Absent,
                      Revisions[sample][placed[config'.page].form] = Form
               PROVE  /\ ~exported'.asked /\ exported'.revision = revision
                      /\ exported'.regions = placed[config'.page].regions
    OBVIOUS
  <2>1. exports \in Nat
    BY DEF ExportInv, ExportTyped
  <2>2. ExportSome
    BY <2>1 DEF ExportNext, Revise, exportVars
  <2>3. PICK page \in Pages, assisted \in BOOLEAN :
          /\ Written(page, assisted)
          /\ (assisted /\ Replays(page)) \/ (assisted /\ \E plan : Applies(page, plan)) \/ Falls(page, assisted)
    BY <2>2, ExportStep
  <2>4. config'.page = page /\ assisted
    BY <2>3 DEF Written
  <2> DEFINE was == placed[page].form
  <2>5. /\ was \in DOMAIN Revisions[sample]
        /\ Stands(was, page, plans[page])
        /\ placed[page].regions = PageBy(was, plans[page].plan)
    BY <2>4 DEF ExportInv, PlacedByPlan
  <2>6. sample \in DOMAIN Revisions /\ revision \in DOMAIN Revisions[sample]
    BY DEF ExportInv, ExportTyped
  <2>7. Revisions[sample][was] = Revisions[sample][revision]
    BY <2>4 DEF Form
  <2> HIDE DEF was
  <2>8. /\ Ruled[sample][was] = Ruled[sample][revision]
        /\ Requests[sample][was][page] = Requests[sample][revision][page]
    BY <2>5, <2>6, <2>7, SameFormSamePage
  <2>9. Stands(revision, page, plans[page]) /\ PageBy(was, plans[page].plan) = PageBy(revision, plans[page].plan)
    BY <2>5, <2>7, <2>8 DEF Stands, PageBy
  <2>10. CASE Replays(page)
    BY <2>4, <2>5, <2>9, <2>10 DEF Replays, Shows
  <2>11. ASSUME NEW plan, Applies(page, plan) PROVE FALSE
    BY <2>9, <2>11 DEF Applies
  <2>12. ~Falls(page, assisted)
    BY <2>4, <2>9 DEF Falls
  <2> QED
    BY <2>3, <2>4, <2>5, <2>10, <2>11, <2>12
<1> QED
  BY <1>1, <1>2, ExportInvariance, PTL DEF ExportSpec, PlansAreReplayed

-----------------------------------------------------------------------------
(* Rows flattened: what validate_plan counts and what apply_plan makes *)

\* A set of numbers has a least one.
LEMMA LeastNumber ==
  ASSUME NEW T, T \subseteq Nat, T # {}
  PROVE  \E x \in T : \A y \in T : x <= y
<1> DEFINE R == OpToRel(<, Nat)
<1>1. IsWellFoundedOn(R, Nat)
  BY NatLessThanWellFounded
<1>2. \A x, y \in Nat : y < x => <<y, x>> \in R
  BY DEF OpToRel
<1> HIDE DEF R
<1>3. PICK x \in T : \A y \in T : ~(<<y, x>> \in R)
  BY <1>1, WFMin
<1>4. \A y \in T : ~(y < x)
  BY <1>2, <1>3
<1>5. \A y \in T : x <= y
  BY <1>4
<1> QED
  BY <1>5

\* Prefix by prefix: what FlattenSeq computes.
RowPrefixes(seqs, n, g) == g = [i \in 1..n |-> IF i = 1 THEN seqs[i] ELSE g[i - 1] \o seqs[i]]

LEMMA PrefixesExist ==
  ASSUME NEW seqs, NEW n \in Nat
  PROVE  \E g : RowPrefixes(seqs, n, g)
<1> DEFINE bad == {k \in 0..n : ~\E g : RowPrefixes(seqs, k, g)}
<1> SUFFICES ASSUME bad # {} PROVE FALSE
  OBVIOUS
<1>1. PICK k \in bad : \A j \in bad : k <= j
  <2>1. bad \subseteq Nat
    OBVIOUS
  <2> HIDE DEF bad
  <2> QED
    BY <2>1, LeastNumber
<1>2. CASE k = 0
  <2>1. RowPrefixes(seqs, 0, [i \in 1..0 |-> seqs])
    BY DEF RowPrefixes
  <2> QED
    BY <1>1, <1>2, <2>1
<1>3. CASE k # 0
  <2>1. k - 1 \in 0..n /\ k - 1 \notin bad
    BY <1>1, <1>3
  <2>2. PICK f : RowPrefixes(seqs, k - 1, f)
    BY <2>1
  <2> DEFINE g == [i \in 1..k |-> IF i = k THEN (IF k = 1 THEN seqs[k] ELSE f[k - 1] \o seqs[k]) ELSE f[i]]
  <2>3. RowPrefixes(seqs, k, g)
    <3>1. \A i \in 1..k : g[i] = IF i = 1 THEN seqs[i] ELSE g[i - 1] \o seqs[i]
      <4> SUFFICES ASSUME NEW i \in 1..k PROVE g[i] = IF i = 1 THEN seqs[i] ELSE g[i - 1] \o seqs[i]
        OBVIOUS
      <4>1. CASE i = k
        BY <1>3, <4>1
      <4>2. CASE i # k
        <5>1. i \in 1..(k - 1) /\ (i # 1 => i - 1 \in 1..k /\ i - 1 # k)
          BY <1>3, <4>2
        <5>2. f[i] = IF i = 1 THEN seqs[i] ELSE f[i - 1] \o seqs[i]
          BY <2>2, <5>1 DEF RowPrefixes
        <5> QED
          BY <4>2, <5>1, <5>2
      <4> QED
        BY <4>1, <4>2
    <3> HIDE DEF g
    <3>2. g = [i \in 1..k |-> g[i]]
      BY DEF g
    <3> QED
      BY <3>1, <3>2 DEF RowPrefixes
  <2> QED
    BY <1>1, <2>3
<1> QED
  BY <1>2, <1>3

LEMMA FlattenIsLastPrefix ==
  ASSUME NEW seqs, Len(seqs) \in Nat \ {0}
  PROVE  \E g : RowPrefixes(seqs, Len(seqs), g) /\ FlattenSeq(seqs) = g[Len(seqs)]
<1>1. \E g : RowPrefixes(seqs, Len(seqs), g)
  BY PrefixesExist
<1> DEFINE n == Len(seqs)
<1>2. FlattenSeq(seqs) = (CHOOSE g : g = [i \in 1..n |-> IF i = 1 THEN seqs[i] ELSE g[i - 1] \o seqs[i]])[n]
  BY DEF FlattenSeq
<1>3. FlattenSeq(seqs) = (CHOOSE g : RowPrefixes(seqs, n, g))[n]
  BY <1>2 DEF RowPrefixes
<1>4. RowPrefixes(seqs, n, CHOOSE g : RowPrefixes(seqs, n, g))
  <2> HIDE DEF n
  <2> QED
    BY <1>1, Zenon DEF n
<1> QED
  BY <1>3, <1>4

\* Two sequences of rows of the same lengths, flattened, stay side by side: an
\* element of the one and the element of the other at the same place come from
\* the same place of the same row, and unless they begin it what comes before
\* them is what is before them in that row.
FromRow(A, B, j, k, fa, fb, i) ==
  /\ fa[i] = A[j][k] /\ fb[i] = B[j][k]
  /\ k = 1 \/ (i > 1 /\ fa[i - 1] = A[j][k - 1] /\ fb[i - 1] = B[j][k - 1])
Aligned(A, B, m, fa, fb) ==
  /\ Len(fa) = Len(fb)
  /\ \A i \in 1..Len(fa) : \E j \in 1..m : \E k \in 1..Len(A[j]) : FromRow(A, B, j, k, fa, fb, i)

LEMMA FlattenAligned ==
  ASSUME NEW S, NEW T, NEW A \in Seq(Seq(S)), NEW B \in Seq(Seq(T)), Len(A) = Len(B), Len(A) # 0,
         \A j \in 1..Len(A) : Len(A[j]) = Len(B[j])
  PROVE  /\ FlattenSeq(A) \in Seq(S) /\ FlattenSeq(B) \in Seq(T)
         /\ Aligned(A, B, Len(A), FlattenSeq(A), FlattenSeq(B))
<1> DEFINE n == Len(A)
<1>1. n \in Nat \ {0} /\ (\A j \in 1..n : A[j] \in Seq(S) /\ B[j] \in Seq(T))
  BY LenProperties, ElementOfSeq
<1>2. PICK ga : RowPrefixes(A, n, ga) /\ FlattenSeq(A) = ga[n]
  BY <1>1, FlattenIsLastPrefix
<1>3. PICK gb : RowPrefixes(B, n, gb) /\ FlattenSeq(B) = gb[n]
  BY <1>1, FlattenIsLastPrefix
<1> DEFINE Good(m) == ga[m] \in Seq(S) /\ gb[m] \in Seq(T) /\ Aligned(A, B, m, ga[m], gb[m])
           bad == {m \in 1..n : ~Good(m)}
<1> SUFFICES ASSUME bad # {} PROVE FALSE
  BY <1>1, <1>2, <1>3
<1>4. PICK m \in bad : \A j \in bad : m <= j
  <2>1. bad \subseteq Nat
    OBVIOUS
  <2> HIDE DEF bad
  <2> QED
    BY <2>1, LeastNumber
<1>5. m \in 1..n /\ ~Good(m) /\ (m # 1 => Good(m - 1))
  <2>1. m \in 1..n /\ ~Good(m)
    BY <1>4
  <2>2. m # 1 => m - 1 \in 1..n /\ m - 1 \notin bad
    BY <1>1, <1>4, <2>1
  <2> HIDE DEF Good
  <2> QED
    BY <2>1, <2>2
<1>6. PICK a \in Seq(S), b \in Seq(T) : a = A[m] /\ b = B[m] /\ Len(b) = Len(a)
  BY <1>1, <1>5
<1>7. Len(a) \in Nat /\ m \in Nat
  BY <1>5, LenProperties
<1>8. CASE m = 1
  <2>1. ga[m] = a /\ gb[m] = b
    BY <1>2, <1>3, <1>5, <1>6, <1>8 DEF RowPrefixes
  <2>2. ASSUME NEW i \in 1..Len(a)
        PROVE  \E j \in 1..1 : \E k \in 1..Len(A[j]) : FromRow(A, B, j, k, a, b, i)
    <3>1. FromRow(A, B, 1, i, a, b, i)
      BY <1>6, <1>7, <1>8 DEF FromRow
    <3> QED
      BY <1>6, <1>8, <3>1
  <2>3. Aligned(A, B, 1, a, b)
    BY <1>6, <2>2 DEF Aligned
  <2> QED
    BY <1>5, <1>6, <1>8, <2>1, <2>3
<1>9. CASE m # 1
  <2>1. PICK pa \in Seq(S), pb \in Seq(T) : pa = ga[m - 1] /\ pb = gb[m - 1] /\ Aligned(A, B, m - 1, pa, pb)
    BY <1>5, <1>9
  <2>2. ga[m] = pa \o a /\ gb[m] = pb \o b
    BY <1>2, <1>3, <1>5, <1>6, <1>9, <2>1 DEF RowPrefixes
  <2>3. PICK l \in Nat : l = Len(pa) /\ l = Len(pb)
    BY <2>1, LenProperties DEF Aligned
  <2>4. PICK fa \in Seq(S) : fa = pa \o a /\ Len(fa) = l + Len(a)
                             /\ \A i \in 1..(l + Len(a)) : fa[i] = IF i <= l THEN pa[i] ELSE a[i - l]
    <3>1. /\ pa \o a \in Seq(S) /\ Len(pa \o a) = Len(pa) + Len(a)
          /\ \A i \in 1..(Len(pa) + Len(a)) : (pa \o a)[i] = IF i <= Len(pa) THEN pa[i] ELSE a[i - Len(pa)]
      BY ConcatProperties
    <3> QED
      BY <2>3, <3>1
  <2>5. PICK fb \in Seq(T) : fb = pb \o b /\ Len(fb) = l + Len(a)
                             /\ \A i \in 1..(l + Len(a)) : fb[i] = IF i <= l THEN pb[i] ELSE b[i - l]
    <3>1. /\ pb \o b \in Seq(T) /\ Len(pb \o b) = Len(pb) + Len(b)
          /\ \A i \in 1..(Len(pb) + Len(b)) : (pb \o b)[i] = IF i <= Len(pb) THEN pb[i] ELSE b[i - Len(pb)]
      BY ConcatProperties
    <3>2. Len(b) = Len(a) /\ l = Len(pb)
      BY <1>6, <2>3
    <3> QED
      BY ONLY <3>1, <3>2
  <2>6. ASSUME NEW i \in 1..(l + Len(a))
        PROVE  \E j \in 1..m : \E k \in 1..Len(A[j]) : FromRow(A, B, j, k, fa, fb, i)
    <3>1. CASE i <= l
      <4>1. i \in 1..Len(pa)
        BY <2>3, <3>1
      <4>2. PICK j \in 1..(m - 1) : \E k \in 1..Len(A[j]) : FromRow(A, B, j, k, pa, pb, i)
        BY <2>1, <4>1 DEF Aligned
      <4>3. PICK k \in 1..Len(A[j]) : FromRow(A, B, j, k, pa, pb, i)
        BY <4>2
      <4>4. fa[i] = pa[i] /\ fb[i] = pb[i]
        BY <2>4, <2>5, <3>1
      <4>7. i > 1 => fa[i - 1] = pa[i - 1] /\ fb[i - 1] = pb[i - 1]
        <5> SUFFICES ASSUME i > 1 PROVE fa[i - 1] = pa[i - 1] /\ fb[i - 1] = pb[i - 1]
          OBVIOUS
        <5>1. i \in Nat /\ l \in Nat /\ Len(a) \in Nat /\ i <= l /\ i > 1
          BY <1>7, <2>3, <3>1
        <5>2. i - 1 \in 1..(l + Len(a)) /\ i - 1 <= l
          BY ONLY <5>1
        <5> QED
          BY <2>4, <2>5, <5>2
      <4>5. FromRow(A, B, j, k, fa, fb, i)
        BY <4>3, <4>4, <4>7 DEF FromRow
      <4>6. j \in 1..m
        BY <1>7
      <4> QED
        BY <4>5, <4>6
    <3>2. CASE ~(i <= l)
      <4>1. i - l \in 1..Len(a) /\ m \in 1..m
        BY <1>5, <1>7, <2>3, <3>2
      <4>2. fa[i] = a[i - l] /\ fb[i] = b[i - l]
        BY <2>4, <2>5, <3>2
      <4>3. i - l # 1 => i > 1 /\ fa[i - 1] = a[i - l - 1] /\ fb[i - 1] = b[i - l - 1]
        <5> SUFFICES ASSUME i - l # 1 PROVE i > 1 /\ fa[i - 1] = a[i - l - 1] /\ fb[i - 1] = b[i - l - 1]
          OBVIOUS
        <5>1. i - 1 \in 1..(l + Len(a)) /\ ~(i - 1 <= l) /\ i > 1
          BY <1>7, <2>3, <3>2
        <5>2. (i - 1) - l = i - l - 1
          BY <2>3
        <5> QED
          BY <2>4, <2>5, <5>1, <5>2
      <4>4. FromRow(A, B, m, i - l, fa, fb, i)
        BY <1>6, <4>2, <4>3 DEF FromRow
      <4> QED
        BY <1>6, <4>1, <4>4
    <3> QED
      BY <3>1, <3>2
  <2>7. Aligned(A, B, m, fa, fb)
    BY <2>4, <2>5, <2>6 DEF Aligned
  <2> QED
    BY <1>5, <2>2, <2>4, <2>5, <2>7
<1> QED
  BY <1>8, <1>9

\* A cell keeps its control and takes the place the plan has for it.
LEMMA PutFacts ==
  ASSUME NEW layout, NEW old, NEW new, NEW k, IsCell(old)
  PROVE  LET c == Put(layout, old, new, k) IN
         /\ c.ref = old.ref /\ c.newRow = (k = 1) /\ c.column = new.column /\ c.span = new.span
         /\ c.label = new.label \/ c.label = 0
<1> DEFINE labelled == Labelled(layout, old)
           left     == labelled /\ new.side = "left" /\ new.label > 0
<1>1. PICK label : label = (IF left THEN new.label ELSE 0)
  OBVIOUS
<1>2. PICK side : side = (IF left THEN "left" ELSE IF labelled THEN "above" ELSE old.side)
  OBVIOUS
<1>3. old = [ref |-> old.ref, newRow |-> old.newRow, newColumn |-> old.newColumn, column |-> old.column,
             span |-> old.span, flow |-> old.flow, side |-> old.side, label |-> old.label,
             flags |-> old.flags, by |-> old.by]
  BY DEF IsCell
<1>4. Put(layout, old, new, k) =
        [old EXCEPT !.newRow = (k = 1), !.newColumn = (k > 1), !.by = "ai", !.flags = {},
                    !.column = new.column, !.span = new.span, !.label = label, !.side = side]
  <2> HIDE DEF labelled
  <2> QED
    BY <1>1, <1>2 DEF Put, labelled
<1>5. Put(layout, old, new, k) =
        [ref |-> old.ref, newRow |-> (k = 1), newColumn |-> (k > 1), column |-> new.column,
         span |-> new.span, flow |-> old.flow, side |-> side, label |-> label, flags |-> {}, by |-> "ai"]
  BY <1>3, <1>4
<1>6. label = new.label \/ label = 0
  BY <1>1
<1> QED
  BY <1>5, <1>6

\* A list is one over any set with its elements in it.
LEMMA ListOver ==
  ASSUME NEW x, IsList(x), NEW S, \A k \in DOMAIN x : x[k] \in S
  PROVE  x \in Seq(S) /\ Len(x) \in Nat /\ DOMAIN x = 1..Len(x)
<1>1. x \in Seq(ToSet(x))
  BY DEF IsList
<1>2. x \in [1..Len(x) -> ToSet(x)] /\ Len(x) \in Nat
  BY <1>1, LenProperties
<1>3. x \in [1..Len(x) -> S]
  BY <1>2
<1> QED
  BY <1>2, <1>3, IsASeq

\* The cells of a planned region, in the order of the plan, come from the same
\* places of its rows as the entries of the plan they are made of.
CellRows(form, layout, r, entry) == Map(LAMBDA row : PutRow(form, layout, r, row), entry.rows)
CellAt(form, layout, r, row, k) == Put(layout, Called(form, r, row[k].name), row[k], k)
Comes(form, layout, r, row, k, flat, new, i) ==
  /\ flat[i] = row[k] /\ new[i] = CellAt(form, layout, r, row, k)
  /\ k = 1 \/ (i > 1 /\ flat[i - 1] = row[k - 1] /\ new[i - 1] = CellAt(form, layout, r, row, k - 1))
LEMMA FlatRows ==
  ASSUME NEW form, NEW layout, NEW r, NEW entry, IsList(entry.rows), entry.rows # <<>>,
         \A j \in DOMAIN entry.rows : GoodRow(entry.rows[j]),
         NEW flat, flat = FlattenSeq(entry.rows), NEW new, new = FlattenSeq(CellRows(form, layout, r, entry))
  PROVE  /\ IsList(flat) /\ Len(flat) \in Nat /\ DOMAIN flat = 1..Len(flat) /\ DOMAIN new = DOMAIN flat
         /\ new # <<>> => 1 \in DOMAIN new
         /\ \A i \in DOMAIN new : \E j \in DOMAIN entry.rows : \E k \in DOMAIN entry.rows[j] :
              Comes(form, layout, r, entry.rows[j], k, flat, new, i)
<1> DEFINE rows == entry.rows
           cell(row, k) == CellAt(form, layout, r, row, k)
           cut == [j \in DOMAIN rows |-> PutRow(form, layout, r, rows[j])]
           S == UNION {ToSet(rows[j]) : j \in DOMAIN rows}
           T == UNION {ToSet(cut[j]) : j \in DOMAIN rows}
<1>1. \A j \in DOMAIN rows : rows[j] \in Seq(S) /\ Len(rows[j]) \in Nat /\ DOMAIN rows[j] = 1..Len(rows[j])
  <2> SUFFICES ASSUME NEW j \in DOMAIN rows
               PROVE  rows[j] \in Seq(S) /\ Len(rows[j]) \in Nat /\ DOMAIN rows[j] = 1..Len(rows[j])
    OBVIOUS
  <2>1. IsList(rows[j])
    BY DEF GoodRow
  <2>2. \A k \in DOMAIN rows[j] : rows[j][k] \in S
    BY DEF ToSet
  <2> HIDE DEF S, rows
  <2> QED
    BY <2>1, <2>2, ListOver
<1>2. rows \in Seq(Seq(S)) /\ Len(rows) \in Nat /\ DOMAIN rows = 1..Len(rows)
  <2> HIDE DEF S
  <2> QED
    BY <1>1, ListOver
<1>3. \A j \in DOMAIN rows : DOMAIN cut[j] = DOMAIN rows[j]
                             /\ \A k \in DOMAIN rows[j] : cut[j][k] = cell(rows[j], k)
  BY DEF PutRow, CellAt
<1>4. \A j \in DOMAIN rows : cut[j] \in Seq(T) /\ Len(cut[j]) = Len(rows[j])
  <2> SUFFICES ASSUME NEW j \in DOMAIN rows PROVE cut[j] \in Seq(T) /\ Len(cut[j]) = Len(rows[j])
    OBVIOUS
  <2>1. DOMAIN cut[j] = 1..Len(rows[j]) /\ Len(rows[j]) \in Nat
    BY <1>1, <1>3
  <2>2. \A k \in DOMAIN cut[j] : cut[j][k] \in T
    <3>1. \A k \in DOMAIN cut[j] : cut[j][k] \in ToSet(cut[j])
      BY DEF ToSet
    <3> HIDE DEF cut
    <3> QED
      BY <3>1
  <2>3. cut[j] = [k \in DOMAIN rows[j] |-> cut[j][k]]
    BY <1>3 DEF PutRow
  <2>4. cut[j] \in [1..Len(rows[j]) -> T]
    <3> HIDE DEF cut, T, rows
    <3> QED
      BY <1>1, <2>1, <2>2, <2>3
  <2>5. cut[j] \in Seq(T)
    <3> HIDE DEF cut, T, rows
    <3> QED
      BY <2>1, <2>4, IsASeq
  <2> HIDE DEF cut, T, rows
  <2> QED
    BY <2>1, <2>5, LenProperties
<1>5. CellRows(form, layout, r, entry) = <<>> \o cut
  BY DEF CellRows, Map
<1>6. cut \in Seq(Seq(T)) /\ <<>> \o cut = cut /\ Len(cut) = Len(rows)
  <2>1. cut = [j \in 1..Len(rows) |-> cut[j]]
    <3> HIDE DEF rows
    <3> QED
      BY <1>2
  <2> HIDE DEF cut, rows, T
  <2>2. cut \in Seq(Seq(T)) /\ <<>> \o cut = cut
    BY <1>2, <1>4, <2>1, SameSequence
  <2> QED
    BY <1>2, <2>1, <2>2, LenProperties
<1>7. new = FlattenSeq(cut)
  <2> HIDE DEF cut
  <2> QED
    BY <1>5, <1>6
<1>8. Len(rows) # 0
  <2> HIDE DEF rows
  <2>1. rows # <<>>
    BY DEF rows
  <2> QED
    BY <1>2, <2>1, EmptySeq
<1> HIDE DEF cut, S, T
<1>9. flat \in Seq(S) /\ new \in Seq(T) /\ Aligned(rows, cut, Len(rows), flat, new)
  <2>1. \A j \in 1..Len(rows) : Len(rows[j]) = Len(cut[j])
    BY <1>2, <1>4
  <2>2. flat = FlattenSeq(rows)
    OBVIOUS
  <2> HIDE DEF rows
  <2>3. rows \in Seq(Seq(S)) /\ cut \in Seq(Seq(T)) /\ Len(rows) = Len(cut) /\ Len(rows) # 0
    BY <1>2, <1>6, <1>8
  <2>4. /\ FlattenSeq(rows) \in Seq(S) /\ FlattenSeq(cut) \in Seq(T)
        /\ Aligned(rows, cut, Len(rows), FlattenSeq(rows), FlattenSeq(cut))
    BY ONLY <2>1, <2>3, FlattenAligned
  <2> QED
    BY <1>7, <2>2, <2>4
<1>10. /\ Len(flat) \in Nat /\ DOMAIN flat = 1..Len(flat) /\ DOMAIN new = DOMAIN flat
  BY <1>9, LenProperties DEF Aligned
<1>11. IsList(flat)
  BY <1>9, <1>10, LenProperties, IsASeq DEF IsList, ToSet
<1>12. ASSUME NEW i \in DOMAIN new
       PROVE  \E j \in DOMAIN rows : \E k \in DOMAIN rows[j] :
                Comes(form, layout, r, rows[j], k, flat, new, i)
  <2>1. PICK j \in 1..Len(rows) : \E k \in 1..Len(rows[j]) : FromRow(rows, cut, j, k, flat, new, i)
    BY <1>9, <1>10, <1>12 DEF Aligned
  <2>2. PICK k \in 1..Len(rows[j]) : FromRow(rows, cut, j, k, flat, new, i)
    BY <2>1
  <2>3. j \in DOMAIN rows /\ k \in DOMAIN rows[j] /\ (k # 1 => k - 1 \in DOMAIN rows[j])
    BY <1>1, <1>2
  <2> HIDE DEF rows, cell
  <2>4. cut[j][k] = cell(rows[j], k) /\ (k # 1 => cut[j][k - 1] = cell(rows[j], k - 1))
    BY <1>3, <2>3
  <2> QED
    BY <2>2, <2>3, <2>4 DEF FromRow, Comes, cell
<1>13. new # <<>> => 1 \in DOMAIN new
  BY <1>9, <1>10, LenProperties, EmptySeq
<1> QED
  BY <1>10, <1>11, <1>12, <1>13

\* A set of numbers up to a bound has a greatest one.
LEMMA GreatestNumber ==
  ASSUME NEW n \in Nat, NEW T, T \subseteq 1..n, T # {}
  PROVE  Max(T) \in T /\ \A x \in T : x <= Max(T)
<1> DEFINE U == {k \in 0..n : n - k \in T}
<1>1. U \subseteq Nat /\ U # {}
  <2>1. PICK x \in T : x \in 1..n
    OBVIOUS
  <2>2. n - x \in 0..n /\ n - (n - x) = x
    BY <2>1
  <2>3. n - x \in U
    BY <2>1, <2>2
  <2>4. U \subseteq Nat
    OBVIOUS
  <2> HIDE DEF U
  <2> QED
    BY <2>3, <2>4
<1>2. PICK u \in U : \A v \in U : u <= v
  <2> HIDE DEF U
  <2> QED
    BY <1>1, LeastNumber
<1>3. \A x \in T : x \in Int /\ n - x \in U /\ x <= n - u
  <2> SUFFICES ASSUME NEW x \in T PROVE x \in Int /\ n - x \in U /\ x <= n - u
    OBVIOUS
  <2>1. x \in 1..n
    OBVIOUS
  <2>2. n - x \in 0..n /\ n - (n - x) = x
    BY <2>1
  <2>3. n - x \in U
    BY <2>2
  <2>4. u <= n - x /\ u \in 0..n
    BY <1>2, <2>3
  <2> QED
    BY <2>1, <2>3, <2>4
<1>4. \E x \in T : \A y \in T : x >= y
  <2>1. n - u \in T
    BY <1>2
  <2> HIDE DEF U
  <2>2. \A y \in T : n - u >= y
    BY <1>2, <1>3, <2>1
  <2> QED
    BY <2>1, <2>2
<1>5. Max(T) \in T /\ \A y \in T : Max(T) >= y
  BY <1>4 DEF Max
<1> QED
  BY <1>3, <1>5

\* The cell a plan means by a name is the last one in the region that has it.
LEMMA CalledIsLast ==
  ASSUME NEW form, NEW r, IsList(r.body), NEW n \in NamesIn(form, r)
  PROVE  \E k \in DOMAIN r.body :
           /\ Called(form, r, n) = r.body[k] /\ ItemName(form, r.body[k].ref[2]) = n
           /\ \A j \in DOMAIN r.body : ItemName(form, r.body[j].ref[2]) = n => j <= k
<1>1. DOMAIN r.body = 1..Len(r.body) /\ Len(r.body) \in Nat
  BY LenProperties DEF IsList
<1>2. PICK T : T = {k \in DOMAIN r.body : ItemName(form, r.body[k].ref[2]) = n}
  OBVIOUS
<1>3. T \subseteq 1..Len(r.body) /\ T # {}
  <2>1. PICK c \in ToSet(r.body) : ItemName(form, c.ref[2]) = n
    BY DEF NamesIn
  <2> QED
    BY <1>1, <1>2, <2>1 DEF ToSet
<1>4. Max(T) \in T /\ \A x \in T : x <= Max(T)
  BY <1>1, <1>3, GreatestNumber
<1>5. Called(form, r, n) = r.body[Max(T)]
  BY <1>2 DEF Called
<1> QED
  BY <1>2, <1>4, <1>5

\* A plan names the controls of a region if it has each of their names once.
NamesAll(form, r, entry) ==
  LET names == Map(LAMBDA cell : cell.name, FlattenSeq(entry.rows)) IN
  /\ ToSet(names) = NamesIn(form, r)
  /\ \A j, k \in DOMAIN names : names[j] = names[k] => j = k
OfControls(r) ==
  IsList(r.body) /\ \A c \in ToSet(r.body) : IsCell(c) /\ c.ref = <<"control", c.ref[2]>>

Planned(form, r, entry) ==
  /\ IsList(entry.rows) /\ entry.rows # <<>>
  /\ \A j \in DOMAIN entry.rows : GoodRow(entry.rows[j])
  /\ NamesAll(form, r, entry)
SameControls(form, r, body) ==
  /\ InRows(body)
  /\ \A i \in DOMAIN form.controls :
       (\E k \in DOMAIN body : body[k].ref = <<"control", i>>)
         <=> (\E k \in DOMAIN r.body : InCell(r, i, k)) /\ i \notin Eclipsed(form, r)
  /\ \A j, k \in DOMAIN body : body[j].ref = body[k].ref => j = k

\* The body a plan makes of a region has rows that follow, and a cell for each
\* control of the region that has its name to itself or is the last to have
\* it, and no other.
LEMMA PlannedBody ==
  ASSUME NEW form, NEW layout, NEW r, NEW entry, Planned(form, r, entry), OfControls(r),
         NEW new, new = FlattenSeq(CellRows(form, layout, r, entry))
  PROVE  SameControls(form, r, new)
<1> DEFINE flat == FlattenSeq(entry.rows)
           names == Map(LAMBDA cell : cell.name, flat)
           cell(row, k) == CellAt(form, layout, r, row, k)
<1>1. /\ IsList(flat) /\ Len(flat) \in Nat /\ DOMAIN flat = 1..Len(flat) /\ DOMAIN new = DOMAIN flat
      /\ new # <<>> => 1 \in DOMAIN new
      /\ \A i \in DOMAIN new : \E j \in DOMAIN entry.rows : \E k \in DOMAIN entry.rows[j] :
           Comes(form, layout, r, entry.rows[j], k, flat, new, i)
  <2> HIDE DEF flat
  <2>1. flat = FlattenSeq(entry.rows)
    BY DEF flat
  <2> QED
    BY <2>1, FlatRows DEF Planned
<1>2. names = [i \in DOMAIN flat |-> flat[i].name]
  <2> DEFINE given == [i \in DOMAIN flat |-> flat[i].name]
  <2>1. names = <<>> \o given
    BY DEF Map
  <2>2. given = [i \in 1..Len(flat) |-> given[i]]
    <3> HIDE DEF flat
    <3> QED
      BY <1>1
  <2>3. \A i \in 1..Len(flat) : given[i] \in ToSet(given)
    <3> HIDE DEF flat
    <3> QED
      BY <1>1 DEF ToSet
  <2>4. <<>> \o given = given
    <3> HIDE DEF given, flat
    <3> QED
      BY <1>1, <2>2, <2>3, SameSequence
  <2> HIDE DEF given, names, flat
  <2> QED
    BY <2>1, <2>4 DEF given
<1>3. \A i \in DOMAIN new : flat[i].name \in NamesIn(form, r)
  <2>1. ToSet(names) = NamesIn(form, r)
    BY DEF Planned, NamesAll
  <2> HIDE DEF names, flat
  <2> QED
    BY <1>1, <1>2, <2>1 DEF ToSet
<1>4. \A n \in NamesIn(form, r) : \E i \in DOMAIN new : flat[i].name = n
  <2>1. ToSet(names) = NamesIn(form, r)
    BY DEF Planned, NamesAll
  <2> HIDE DEF names, flat
  <2> QED
    BY <1>1, <1>2, <2>1 DEF ToSet
<1>5. \A j, k \in DOMAIN new : flat[j].name = flat[k].name => j = k
  <2>1. \A j, k \in DOMAIN names : names[j] = names[k] => j = k
    BY DEF Planned, NamesAll
  <2> HIDE DEF names, flat
  <2> QED
    BY <1>1, <1>2, <2>1
<1>6. \A n \in NamesIn(form, r) : \E k \in DOMAIN r.body :
        /\ Called(form, r, n) = r.body[k] /\ ItemName(form, r.body[k].ref[2]) = n
        /\ \A j \in DOMAIN r.body : ItemName(form, r.body[j].ref[2]) = n => j <= k
  BY CalledIsLast DEF OfControls
<1> HIDE DEF flat, names
\* What the cell made of an entry has of it.
<1>7. ASSUME NEW j \in DOMAIN entry.rows, NEW k \in DOMAIN entry.rows[j], entry.rows[j][k].name \in NamesIn(form, r)
      PROVE  LET row == entry.rows[j]  c == cell(row, k) IN
             /\ c.ref = Called(form, r, row[k].name).ref /\ c.newRow = (k = 1)
             /\ c.column = row[k].column /\ c.span = row[k].span
             /\ c.label = row[k].label \/ c.label = 0
  <2>1. IsCell(Called(form, r, entry.rows[j][k].name))
    BY <1>6, <1>7 DEF OfControls, ToSet
  <2> QED
    BY <2>1, PutFacts DEF CellAt
<1>8. \A i \in DOMAIN new : new[i].ref = Called(form, r, flat[i].name).ref
  <2> SUFFICES ASSUME NEW i \in DOMAIN new PROVE new[i].ref = Called(form, r, flat[i].name).ref
    OBVIOUS
  <2>1. PICK j \in DOMAIN entry.rows : \E k \in DOMAIN entry.rows[j] :
          Comes(form, layout, r, entry.rows[j], k, flat, new, i)
    BY <1>1
  <2>2. PICK k \in DOMAIN entry.rows[j] : flat[i] = entry.rows[j][k] /\ new[i] = cell(entry.rows[j], k)
    BY <2>1 DEF Comes
  <2>3. entry.rows[j][k].name \in NamesIn(form, r)
    BY <1>3, <2>2
  <2> HIDE DEF cell
  <2> QED
    BY <1>7, <2>2, <2>3
<1>9. \A i \in DOMAIN form.controls :
        (\E k \in DOMAIN new : new[k].ref = <<"control", i>>)
          <=> (\E k \in DOMAIN r.body : InCell(r, i, k)) /\ i \notin Eclipsed(form, r)
  <2> SUFFICES ASSUME NEW i \in DOMAIN form.controls
               PROVE  (\E k \in DOMAIN new : new[k].ref = <<"control", i>>)
                        <=> (\E k \in DOMAIN r.body : InCell(r, i, k)) /\ i \notin Eclipsed(form, r)
    OBVIOUS
  <2>1. \A k \in DOMAIN r.body : k \in Nat /\ (InCell(r, i, k) => ItemName(form, r.body[k].ref[2]) = ItemName(form, i))
    <3>1. DOMAIN r.body = 1..Len(r.body) /\ Len(r.body) \in Nat
      BY LenProperties DEF OfControls, IsList
    <3>2. <<"control", i>>[2] = i
      OBVIOUS
    <3> QED
      BY <3>1, <3>2 DEF InCell
  <2>2. ASSUME NEW k \in DOMAIN new, new[k].ref = <<"control", i>>
        PROVE  (\E j \in DOMAIN r.body : InCell(r, i, j)) /\ i \notin Eclipsed(form, r)
    <3>1. PICK j \in DOMAIN r.body :
            /\ Called(form, r, flat[k].name) = r.body[j] /\ ItemName(form, r.body[j].ref[2]) = flat[k].name
            /\ \A l \in DOMAIN r.body : ItemName(form, r.body[l].ref[2]) = flat[k].name => l <= j
      BY <1>3, <1>6
    <3>2. InCell(r, i, j)
      BY <1>8, <2>2, <3>1 DEF InCell
    <3>3. \A l \in DOMAIN r.body : ItemName(form, r.body[l].ref[2]) = ItemName(form, i) => ~(j < l)
      BY <2>1, <3>1, <3>2
    <3> QED
      BY <3>2, <3>3 DEF Eclipsed
  <2>3. ASSUME NEW j \in DOMAIN r.body, InCell(r, i, j), i \notin Eclipsed(form, r)
        PROVE  \E k \in DOMAIN new : new[k].ref = <<"control", i>>
    <3>1. ItemName(form, i) \in NamesIn(form, r)
      BY <2>1, <2>3 DEF NamesIn, ToSet
    <3>2. PICK k \in DOMAIN new : flat[k].name = ItemName(form, i)
      BY <1>4, <3>1
    <3>3. PICK l \in DOMAIN r.body :
            /\ Called(form, r, flat[k].name) = r.body[l] /\ ItemName(form, r.body[l].ref[2]) = ItemName(form, i)
            /\ \A m \in DOMAIN r.body : ItemName(form, r.body[m].ref[2]) = ItemName(form, i) => m <= l
      BY <1>6, <3>1, <3>2
    <3>4. PICK m \in DOMAIN r.body : InCell(r, i, m) /\ ~(m < l)
      BY <2>3, <3>3 DEF Eclipsed
    <3>5. m = l
      BY <2>1, <3>3, <3>4
    <3> QED
      BY <1>8, <3>2, <3>3, <3>4, <3>5 DEF InCell
  <2> QED
    BY <2>2, <2>3
<1>10. \A j, k \in DOMAIN new : new[j].ref = new[k].ref => j = k
  <2> SUFFICES ASSUME NEW j \in DOMAIN new, NEW k \in DOMAIN new, new[j].ref = new[k].ref PROVE j = k
    OBVIOUS
  <2>1. Called(form, r, flat[j].name).ref = Called(form, r, flat[k].name).ref
    BY <1>8
  <2>2. flat[j].name = flat[k].name
    BY <1>3, <1>6, <2>1
  <2> QED
    BY <1>5, <2>2
<1>11. ASSUME NEW i \in DOMAIN new
       PROVE  /\ new[i].column >= 1 /\ new[i].span >= 1
              /\ new[i].column + new[i].span <= GridColumns + 1
              /\ new[i].label \in 0..(new[i].span - 1)
              /\ ~new[i].newRow => i > 1 /\ new[i - 1].column + new[i - 1].span <= new[i].column
  <2>1. PICK j \in DOMAIN entry.rows : \E k \in DOMAIN entry.rows[j] :
          Comes(form, layout, r, entry.rows[j], k, flat, new, i)
    BY <1>1
  <2>2. PICK row : row = entry.rows[j]
    OBVIOUS
  <2>3. PICK k \in DOMAIN row :
          /\ flat[i] = row[k] /\ new[i] = cell(row, k)
          /\ k = 1 \/ (i > 1 /\ flat[i - 1] = row[k - 1] /\ new[i - 1] = cell(row, k - 1))
    BY <2>1, <2>2 DEF Comes
  <2>4. GoodRow(row)
    BY <2>2 DEF Planned
  <2>5. k \in Nat \ {0} /\ (k # 1 => k - 1 \in DOMAIN row)
    <3>1. IsList(row)
      BY <2>4 DEF GoodRow
    <3>2. DOMAIN row = 1..Len(row) /\ Len(row) \in Nat
      BY <3>1, LenProperties DEF IsList
    <3> QED
      BY <3>2
  <2>6. row[k].name \in NamesIn(form, r)
    BY <1>3, <2>3
  <2>7. GoodCell(row[k], IF k = 1 THEN 1 ELSE row[k - 1].column + row[k - 1].span)
    BY <2>4 DEF GoodRow
  <2> HIDE DEF cell
  <2>8. /\ new[i].newRow = (k = 1) /\ new[i].column = row[k].column /\ new[i].span = row[k].span
        /\ new[i].label = row[k].label \/ new[i].label = 0
    BY <1>7, <2>2, <2>3, <2>6
  <2>9. ASSUME k # 1
        PROVE  i > 1 /\ new[i - 1].column = row[k - 1].column /\ new[i - 1].span = row[k - 1].span
    <3>1. i > 1 /\ flat[i - 1] = row[k - 1] /\ new[i - 1] = cell(row, k - 1) /\ k - 1 \in DOMAIN row
      BY <2>3, <2>5, <2>9
    <3>2. row[k - 1].name \in NamesIn(form, r)
      BY <1>1, <1>3, <3>1
    <3> QED
      BY <1>7, <2>2, <3>1, <3>2
  <2>10. /\ new[i].column \in 1..12 /\ new[i].span \in 1..(13 - new[i].column)
         /\ row[k].label \in 0..(new[i].span - 1)
         /\ k # 1 => row[k - 1].column + row[k - 1].span <= new[i].column
    BY <2>7, <2>8 DEF GoodCell, GridColumns
  <2>11. new[i].label \in 0..(new[i].span - 1)
    BY <2>8, <2>10
  <2>12. ~new[i].newRow => i > 1 /\ new[i - 1].column + new[i - 1].span <= new[i].column
    <3>1. ~new[i].newRow => k # 1
      BY <2>8
    <3> QED
      BY <2>9, <2>10, <3>1
  <2>13. /\ new[i].column >= 1 /\ new[i].span >= 1
         /\ new[i].column + new[i].span <= GridColumns + 1
    BY ONLY <2>10 DEF GridColumns
  <2> QED
    BY <2>11, <2>12, <2>13
<1>12. new # <<>> => new[1].newRow
  <2> SUFFICES ASSUME new # <<>> PROVE new[1].newRow
    OBVIOUS
  <2>1. 1 \in DOMAIN new
    BY <1>1
  <2>2. PICK j \in DOMAIN entry.rows : \E k \in DOMAIN entry.rows[j] :
          Comes(form, layout, r, entry.rows[j], k, flat, new, 1)
    BY <1>1, <2>1
  <2>3. 1 \in DOMAIN entry.rows[j] /\ flat[1] = entry.rows[j][1] /\ new[1] = cell(entry.rows[j], 1)
    BY <2>2 DEF Comes
  <2>4. entry.rows[j][1].name \in NamesIn(form, r)
    BY <1>3, <2>1, <2>3
  <2> HIDE DEF cell
  <2> QED
    BY <1>7, <2>3, <2>4
<1> QED
  BY <1>9, <1>10, <1>11, <1>12 DEF InRows, SameControls

-----------------------------------------------------------------------------
(* A page redrawn by a plan: PageIsWhole *)

\* build_layout returns the regions, the hidden controls and all controls.
LEMMA LayoutOf ==
  ASSUME NEW form
  PROVE  LET layout == Layout(form) IN
         /\ layout = [regions |-> layout.regions, hidden |-> layout.hidden, controls |-> layout.controls]
         /\ DOMAIN layout.controls = DOMAIN form.controls
BY DEF Layout

\* What a plan makes of a region: another body with the same controls in it,
\* but for those that it cannot name.
Redrawn(form, old, new) ==
  /\ new.id = old.id /\ new.kind = old.kind /\ new.columns = <<>> /\ old.columns = <<>> /\ new.subs = old.subs
  /\ InRows(new.body)
  /\ \A i \in DOMAIN form.controls :
       (\E k \in DOMAIN new.body : InCell(new, i, k))
         <=> (\E k \in DOMAIN old.body : InCell(old, i, k)) /\ i \notin Eclipsed(form, old)
  /\ \A j, k \in DOMAIN new.body : new.body[j].ref = new.body[k].ref => j = k

\* Replacing the body of an asked region by a planned one redraws it.
LEMMA ReplaceRedraws ==
  ASSUME NEW form, NEW layout, NEW r, NEW entry, IsRegion(r), r.columns = <<>>, OfControls(r),
         Planned(form, r, entry)
  PROVE  Redrawn(form, r, Replace(form, layout, r, entry))
<1>1. PICK new : new = FlattenSeq(CellRows(form, layout, r, entry))
  OBVIOUS
<1>2. Replace(form, layout, r, entry) = [r EXCEPT !.body = new]
  BY <1>1 DEF Replace, CellRows
<1>3. r = [id |-> r.id, kind |-> r.kind, body |-> r.body, columns |-> r.columns, subs |-> r.subs]
  BY DEF IsRegion, Region
<1>4. PICK s : s = Replace(form, layout, r, entry)
  OBVIOUS
<1>5. s.id = r.id /\ s.kind = r.kind /\ s.columns = r.columns /\ s.subs = r.subs /\ s.body = new
  BY <1>2, <1>3, <1>4
<1>6. SameControls(form, r, new)
  BY <1>1, PlannedBody
<1>7. Redrawn(form, r, s)
  BY <1>5, <1>6 DEF Redrawn, InCell, SameControls
<1> QED
  BY <1>4, <1>7

\* A region that is no grid shows a control in its cells or not at all.
LEMMA SpotsOfCells ==
  ASSUME NEW r, NEW i, r.columns = <<>>
  PROVE  Spots(r, i) # {} <=> \E k \in DOMAIN r.body : InCell(r, i, k)
<1>1. DOMAIN r.columns = {}
  OBVIOUS
<1>2. Spots(r, i) = {<<"cell", k>> : k \in {k \in DOMAIN r.body : InCell(r, i, k)}}
  BY <1>1 DEF Spots
<1>3. PICK cells : cells = {k \in DOMAIN r.body : InCell(r, i, k)}
  OBVIOUS
<1>4. {<<"cell", k>> : k \in cells} # {} <=> cells # {}
  OBVIOUS
<1>5. cells # {} <=> \E k \in DOMAIN r.body : InCell(r, i, k)
  BY <1>3
<1> QED
  BY <1>2, <1>3, <1>4, <1>5

\* A page with the asked regions redrawn, and no other.
Rearranged(form, olds, asked, news) ==
  /\ DOMAIN news = DOMAIN olds
  /\ \A x \in DOMAIN olds :
       IF olds[x] \in ToSet(asked) THEN Redrawn(form, olds[x], news[x]) ELSE news[x] = olds[x]

\* What such a region shows: all it did but the controls a plan cannot name,
\* and each in one cell.
LEMMA RedrawnShows ==
  ASSUME NEW form, NEW old, NEW new, Redrawn(form, old, new), NEW i \in DOMAIN form.controls
  PROVE  /\ Spots(new, i) # {} <=> Spots(old, i) # {} /\ i \notin Eclipsed(form, old)
         /\ Spots(new, i) # {} => Cardinality(Spots(new, i)) = 1
<1>1. new.columns = <<>> /\ old.columns = <<>>
  BY DEF Redrawn
<1>2. (\E k \in DOMAIN new.body : InCell(new, i, k))
        <=> (\E k \in DOMAIN old.body : InCell(old, i, k)) /\ i \notin Eclipsed(form, old)
  BY DEF Redrawn
<1>3. Spots(new, i) # {} <=> \E k \in DOMAIN new.body : InCell(new, i, k)
  BY <1>1, SpotsOfCells
<1>4. Spots(old, i) # {} <=> \E k \in DOMAIN old.body : InCell(old, i, k)
  BY <1>1, SpotsOfCells
<1>5. ASSUME NEW k \in DOMAIN new.body, InCell(new, i, k) PROVE Cardinality(Spots(new, i)) = 1
  <2>1. \A j \in DOMAIN new.body : InCell(new, i, j) => j = k
    BY <1>5 DEF Redrawn, InCell
  <2>2. Spots(new, i) = {<<"cell", k>>}
    BY <1>1, <1>5, <2>1 DEF Spots
  <2> QED
    BY <2>2, FS_Singleton
<1> QED
  BY <1>2, <1>3, <1>4, <1>5

\* Of the controls a page has once, a rearranged one has once all but those
\* that a plan cannot name, and those not at all.
LEMMA OnceStays ==
  ASSUME NEW form, NEW hidden, NEW lost, NEW olds, NEW news, NEW asked, Rearranged(form, olds, asked, news),
         ToSet(asked) \subseteq ToSet(olds), EveryControlOnce(form, olds, hidden, lost),
         IsFiniteSet(DOMAIN olds)
  PROVE  EveryControlOnce(form, news, hidden, lost \cup LostToPlan(form, asked))
<1> DEFINE before(i) == {x \in DOMAIN olds : Spots(olds[x], i) # {}}
           after(i)  == {x \in DOMAIN news : Spots(news[x], i) # {}}
<1>1. ASSUME NEW i \in DOMAIN form.controls
      PROVE  IF i \in DOMAIN hidden \cup lost THEN before(i) = {}
             ELSE Cardinality(before(i)) = 1 /\ \A x \in before(i) : Cardinality(Spots(olds[x], i)) = 1
  BY <1>1 DEF EveryControlOnce
<1>2. ASSUME NEW i \in DOMAIN form.controls, NEW x \in DOMAIN olds
      PROVE  /\ x \in after(i) <=> x \in before(i) /\ ~(olds[x] \in ToSet(asked) /\ i \in Eclipsed(form, olds[x]))
             /\ x \in after(i) => Cardinality(Spots(news[x], i)) = 1 \/ news[x] = olds[x]
  <2>1. PICK old, new : old = olds[x] /\ new = news[x]
    OBVIOUS
  <2>2. IF old \in ToSet(asked) THEN Redrawn(form, old, new) ELSE new = old
    BY <2>1 DEF Rearranged
  <2>3. x \in after(i) <=> Spots(new, i) # {}
    BY <2>1 DEF Rearranged
  <2>4. x \in before(i) <=> Spots(old, i) # {}
    BY <2>1
  <2> HIDE DEF before, after
  <2>5. CASE old \in ToSet(asked)
    <3>1. Redrawn(form, old, new)
      BY <2>2, <2>5
    <3>2. /\ Spots(new, i) # {} <=> Spots(old, i) # {} /\ i \notin Eclipsed(form, old)
          /\ Spots(new, i) # {} => Cardinality(Spots(new, i)) = 1
      BY <3>1, RedrawnShows
    <3> QED
      BY <2>1, <2>3, <2>4, <2>5, <3>2
  <2>6. CASE old \notin ToSet(asked)
    BY <2>1, <2>2, <2>3, <2>4, <2>6
  <2> QED
    BY <2>5, <2>6
<1>3. DOMAIN news = DOMAIN olds
  BY DEF Rearranged
<1>4. \A i : before(i) \subseteq DOMAIN olds /\ after(i) \subseteq DOMAIN olds
  BY <1>3
<1>5. ASSUME NEW i \in DOMAIN form.controls
      PROVE  IF i \in DOMAIN hidden \cup (lost \cup LostToPlan(form, asked)) THEN after(i) = {}
             ELSE Cardinality(after(i)) = 1 /\ \A x \in after(i) : Cardinality(Spots(news[x], i)) = 1
  <2>1. CASE i \in DOMAIN hidden \cup lost
    <3>1. before(i) = {}
      BY <1>1, <2>1
    <3>2. after(i) = {}
      <4> HIDE DEF before, after
      <4> QED
        BY <1>2, <1>4, <3>1
    <3> QED
      BY <2>1, <3>2
  <2>2. CASE i \notin DOMAIN hidden \cup lost /\ i \in LostToPlan(form, asked)
    <3>1. PICK r \in ToSet(asked) : i \in Eclipsed(form, r)
      BY <2>2 DEF LostToPlan
    <3>2. PICK x \in DOMAIN olds : olds[x] = r
      BY <3>1 DEF ToSet
    <3>3. x \in before(i)
      BY <3>1, <3>2 DEF Eclipsed, Spots
    <3>4. x \notin after(i)
      <4> HIDE DEF before, after
      <4> QED
        BY <1>2, <3>1, <3>2
    <3>5. Cardinality(before(i)) = 1
      BY <1>1, <2>2
    <3>6. after(i) = {}
      <4> HIDE DEF before, after
      <4>1. IsFiniteSet(before(i))
        BY <1>4, FS_Subset
      <4>2. before(i) = {x}
        BY <3>3, <3>5, <4>1, FS_Singleton
      <4> QED
        BY <1>2, <1>4, <3>4, <4>2
    <3> QED
      BY <2>2, <3>6
  <2>3. CASE i \notin DOMAIN hidden \cup (lost \cup LostToPlan(form, asked))
    <3>1. Cardinality(before(i)) = 1 /\ \A x \in before(i) : Cardinality(Spots(olds[x], i)) = 1
      BY <1>1, <2>3
    <3>2. \A x \in DOMAIN olds : ~(olds[x] \in ToSet(asked) /\ i \in Eclipsed(form, olds[x]))
      BY <2>3 DEF LostToPlan
    <3> HIDE DEF before, after
    <3>3. after(i) = before(i)
      BY <1>2, <1>4, <3>2
    <3>4. \A x \in after(i) : Cardinality(Spots(news[x], i)) = 1
      BY <1>2, <1>4, <3>1, <3>3
    <3> QED
      BY <2>3, <3>1, <3>3, <3>4
  <2> QED
    BY <2>1, <2>2, <2>3
<1> QED
  BY <1>5 DEF EveryControlOnce

LEMMA RowsStay ==
  ASSUME NEW form, NEW asked, NEW olds, NEW news, Rearranged(form, olds, asked, news), RowsFollow(olds)
  PROVE  RowsFollow(news)
<1>1. ASSUME NEW x \in DOMAIN news, news[x].kind = "static"
      PROVE  InRows(news[x].body) /\ InRows(news[x].subs)
  <2>1. PICK old, new : old = olds[x] /\ new = news[x]
    OBVIOUS
  <2>2. x \in DOMAIN olds /\ (new = old \/ Redrawn(form, old, new))
    BY <2>1 DEF Rearranged
  <2>3. old.kind = "static" => InRows(old.body) /\ InRows(old.subs)
    BY <2>1, <2>2 DEF RowsFollow
  <2>4. InRows(new.body) /\ InRows(new.subs)
    BY <1>1, <2>1, <2>2, <2>3 DEF Redrawn
  <2> QED
    BY <2>1, <2>4
<1> QED
  BY <1>1 DEF RowsFollow

\* The keys a reviewer may confirm: bind_candidates by its parts.
ColumnItems(form, layout, r) == {i \in Bodies(layout, r) : form.controls[i].column}
LEMMA CandidatesAre ==
  ASSUME NEW form, NEW layout, NEW b \in DOMAIN BindCandidates(form, layout)
  PROVE  LET homes == {r \in ToSet(layout.regions) : ColumnItems(form, layout, r) \cap DatabaseItems(form, b) # {}}
         IN /\ Cardinality(homes) = 1
            /\ \A r \in homes :
                 /\ ColumnItems(form, layout, r) \subseteq DatabaseItems(form, b)
                 /\ homes = {r} =>
                      BindCandidates(form, layout)[b].columns
                        = {form.controls[i].name : i \in ColumnItems(form, layout, r)}
<1> DEFINE homes(c) == {r \in ToSet(layout.regions) : ColumnItems(form, layout, r) \cap DatabaseItems(form, c) # {}}
           astray(c) == \E i \in DatabaseItems(form, c) \cap DOMAIN layout.hidden : layout.hidden[i] = <<>>
           fits(c, r) == r.kind \in {"static", "flow"} /\ ColumnItems(form, layout, r) \subseteq DatabaseItems(form, c)
           ready == {c \in DOMAIN form.blocks :
                       /\ form.blocks[c].table /\ form.blocks[c].records <= 1
                       /\ Cardinality(homes(c)) = 1 /\ ~astray(c)
                       /\ \A r \in homes(c) : fits(c, r)}
           offer(c) == LET r == CHOOSE r \in homes(c) : TRUE
                       IN [region |-> r.id, columns |-> {form.controls[i].name : i \in ColumnItems(form, layout, r)}]
<1>1. BindCandidates(form, layout) = [c \in ready |-> offer(c)]
  BY DEF BindCandidates, ColumnItems, DatabaseItems
<1>2. b \in ready /\ BindCandidates(form, layout)[b] = offer(b)
  <2> HIDE DEF ready, offer
  <2> QED
    BY <1>1
<1>3. Cardinality(homes(b)) = 1 /\ \A r \in homes(b) : fits(b, r)
  <2> HIDE DEF homes, fits, astray
  <2> QED
    BY <1>2
<1>4. ASSUME NEW r \in homes(b), homes(b) = {r}
      PROVE  offer(b).columns = {form.controls[i].name : i \in ColumnItems(form, layout, r)}
  <2>1. (CHOOSE q \in homes(b) : TRUE) = r
    <3> HIDE DEF homes
    <3> QED
      BY <1>4
  <2> QED
    BY <2>1
<1> QED
  BY <1>2, <1>3, <1>4

\* A list has finitely many elements.
LEMMA ListedFinitely ==
  ASSUME NEW x, IsList(x) PROVE IsFiniteSet(ToSet(x))
<1>1. x \in [1..Len(x) -> ToSet(x)] /\ Len(x) \in Nat
  BY LenProperties DEF IsList
<1>2. x \in Surjection(1..Len(x), ToSet(x))
  BY <1>1 DEF Surjection, ToSet
<1> QED
  BY <1>1, <1>2, FS_Interval, FS_Surjection

\* A confirmed key binds a block where all of its columns are, whatever the
\* page is like otherwise.
LEMMA KeysBindTogether ==
  ASSUME NEW form, NEW layout, IsList(layout.regions), DOMAIN layout.controls = DOMAIN form.controls,
         \A x, y \in DOMAIN layout.regions : layout.regions[x].id = layout.regions[y].id => x = y,
         NEW confirmed
  PROVE  BoundTogether(form, layout.regions, layout.hidden, Restrict(confirmed, Bindings(form, layout, confirmed)))
<1> DEFINE bound == Restrict(confirmed, Bindings(form, layout, confirmed))
<1>1. ASSUME NEW b \in DOMAIN bound
      PROVE  /\ Cardinality(Homes(layout.regions, layout.hidden, DatabaseItems(form, b))) = 1
             /\ \E i \in DatabaseItems(form, b) :
                  form.controls[i].name = bound[b] /\ Homes(layout.regions, layout.hidden, {i}) # {}
  <2>1. /\ b \in DOMAIN BindCandidates(form, layout)
        /\ confirmed[b] \in BindCandidates(form, layout)[b].columns
        /\ bound[b] = confirmed[b]
    BY DEF Bindings, Restrict
  <2> DEFINE homes == {r \in ToSet(layout.regions) : ColumnItems(form, layout, r) \cap DatabaseItems(form, b) # {}}
  <2>2. /\ Cardinality(homes) = 1
        /\ \A r \in homes :
             /\ ColumnItems(form, layout, r) \subseteq DatabaseItems(form, b)
             /\ homes = {r} =>
                  BindCandidates(form, layout)[b].columns = {form.controls[i].name : i \in ColumnItems(form, layout, r)}
    BY <2>1, CandidatesAre
  <2>3. IsFiniteSet(homes)
    <3>1. homes \in SUBSET ToSet(layout.regions)
      OBVIOUS
    <3> HIDE DEF homes
    <3> QED
      BY <3>1, ListedFinitely, FS_Subset
  <2>4. PICK r : homes = {r}
    <3> HIDE DEF homes
    <3> QED
      BY <2>2, <2>3, FS_Singleton
  <2>5. PICK x \in DOMAIN layout.regions : layout.regions[x] = r
    <3>1. r \in homes
      BY <2>4
    <3> QED
      BY <3>1 DEF ToSet
  <2>6. ASSUME NEW y \in DOMAIN layout.regions
        PROVE  y \in Homes(layout.regions, layout.hidden, DatabaseItems(form, b)) <=> layout.regions[y] \in homes
    <3>1. PICK at : at = layout.regions[y]
      OBVIOUS
    <3>2. at \in ToSet(layout.regions)
      BY <3>1 DEF ToSet
    <3>3. y \in Homes(layout.regions, layout.hidden, DatabaseItems(form, b))
            <=> \E i \in DatabaseItems(form, b) :
                  \/ \E k \in DOMAIN at.body : InCell(at, i, k)
                  \/ i \in DOMAIN layout.hidden /\ layout.hidden[i] = at.id
      BY <3>1 DEF Homes
    <3>4. \A i \in DatabaseItems(form, b) :
            i \in ColumnItems(form, layout, at)
              <=> \/ \E k \in DOMAIN at.body : InCell(at, i, k)
                  \/ i \in DOMAIN layout.hidden /\ layout.hidden[i] = at.id
      BY DEF ColumnItems, Bodies, DatabaseItems, InCell
    <3>5. at \in homes <=> \E i \in DatabaseItems(form, b) : i \in ColumnItems(form, layout, at)
      BY <3>2
    <3> HIDE DEF homes
    <3> QED
      BY <3>1, <3>3, <3>4, <3>5
  <2>7. Homes(layout.regions, layout.hidden, DatabaseItems(form, b)) = {x}
    <3>1. Homes(layout.regions, layout.hidden, DatabaseItems(form, b)) \subseteq DOMAIN layout.regions
      BY DEF Homes
    <3> HIDE DEF homes
    <3> QED
      BY <2>4, <2>5, <2>6, <3>1
  <2>8. PICK i \in DatabaseItems(form, b) : form.controls[i].name = bound[b] /\ i \in ColumnItems(form, layout, r)
    <3>1. r \in homes
      BY <2>4
    <3>2. /\ ColumnItems(form, layout, r) \subseteq DatabaseItems(form, b)
          /\ BindCandidates(form, layout)[b].columns = {form.controls[i].name : i \in ColumnItems(form, layout, r)}
      BY <2>2, <2>4, <3>1
    <3> HIDE DEF homes, bound
    <3> QED
      BY <2>1, <3>2
  <2>9. x \in Homes(layout.regions, layout.hidden, {i})
    <3>1. i \in Bodies(layout, r)
      BY <2>8 DEF ColumnItems
    <3>2. (\E k \in DOMAIN r.body : InCell(r, i, k)) \/ (i \in DOMAIN layout.hidden /\ layout.hidden[i] = r.id)
      BY <3>1 DEF Bodies, InCell
    <3> HIDE DEF homes, bound
    <3> QED
      BY <2>5, <3>2 DEF Homes
  <2> HIDE DEF homes, bound
  <2> QED
    BY <2>7, <2>8, <2>9, FS_Singleton
<1> HIDE DEF bound
<1>2. BoundTogether(form, layout.regions, layout.hidden, bound)
  BY <1>1 DEF BoundTogether
<1> QED
  BY <1>2 DEF bound

\* The rules' page of a revision, and what a provider may be asked about it.
Laid(form, layout, hard) ==
  /\ layout = [regions |-> layout.regions, hidden |-> layout.hidden, controls |-> layout.controls]
  /\ DOMAIN layout.controls = DOMAIN form.controls
  /\ IsList(layout.regions) /\ \A x \in DOMAIN layout.regions : IsRegion(layout.regions[x])
  /\ \A x, y \in DOMAIN layout.regions : layout.regions[x].id = layout.regions[y].id => x = y
  /\ \A r \in ToSet(hard) : r \in ToSet(layout.regions) /\ r.columns = <<>> /\ OfControls(r)

\* Every revision's page is one: what is assumed of layouts, and what
\* build_layout returns.
LEMMA RulesLay ==
  ASSUME NEW s \in DOMAIN Revisions, NEW q \in DOMAIN Revisions[s]
  PROVE  Laid(Revisions[s][q], Ruled[s][q].layout, Ruled[s][q].hard)
<1>1. PICK form, layout : form = Revisions[s][q] /\ layout = Ruled[s][q].layout
  OBVIOUS
<1>2. layout = Layout(form)
  <2>1. Ruled[s][q] = [layout |-> Layout(Revisions[s][q]), hard |-> Hard(Layout(Revisions[s][q]))]
    BY MadeOfForms
  <2> QED
    BY <1>1, <2>1
<1>3. /\ layout = [regions |-> layout.regions, hidden |-> layout.hidden, controls |-> layout.controls]
      /\ DOMAIN layout.controls = DOMAIN form.controls
  BY <1>2, LayoutOf
<1>4. /\ IsList(layout.regions) /\ \A x \in DOMAIN layout.regions : IsRegion(layout.regions[x])
      /\ \A x, y \in DOMAIN layout.regions : layout.regions[x].id = layout.regions[y].id => x = y
      /\ \A r \in ToSet(Ruled[s][q].hard) :
            /\ r \in ToSet(layout.regions) /\ r.columns = <<>>
            /\ \A c \in ToSet(r.body) : IsCell(c) /\ c.ref = <<"control", c.ref[2]>>
  BY <1>1, LayoutAssumption
<1>5. \A r \in ToSet(Ruled[s][q].hard) : OfControls(r)
  <2> SUFFICES ASSUME NEW r \in ToSet(Ruled[s][q].hard) PROVE OfControls(r)
    OBVIOUS
  <2>1. PICK x \in DOMAIN layout.regions : r = layout.regions[x]
    BY <1>4 DEF ToSet
  <2> QED
    BY <1>4, <2>1 DEF OfControls, IsRegion
<1> QED
  BY <1>1, <1>3, <1>4, <1>5 DEF Laid

\* A valid plan redraws every region it was asked about, and leaves the others.
LEMMA PlanRedraws ==
  ASSUME NEW form, NEW layout, NEW hard, NEW plan, Laid(form, layout, hard), ValidPlan(form, hard, plan)
  PROVE  LET page == ApplyPlan(form, layout, plan) IN
         /\ page.hidden = layout.hidden /\ page.controls = layout.controls
         /\ IsList(page.regions) /\ Rearranged(form, layout.regions, hard, page.regions)
         /\ \A x, y \in DOMAIN page.regions : page.regions[x].id = page.regions[y].id => x = y
<1> DEFINE olds == layout.regions
           entries(r) == {e \in ToSet(plan) : e.id = r.id}
           new(r) == IF entries(r) = {} THEN r ELSE Replace(form, layout, r, CHOOSE e \in entries(r) : TRUE)
           news == [x \in DOMAIN olds |-> new(olds[x])]
<1>1. IsList(olds) /\ DOMAIN olds = 1..Len(olds) /\ Len(olds) \in Nat
  BY LenProperties DEF Laid, IsList
<1>2. ApplyPlan(form, layout, plan) = [layout EXCEPT !.regions = <<>> \o news]
  BY DEF ApplyPlan, Map
<1>3. <<>> \o news = news
  <2>1. news = [x \in 1..Len(olds) |-> news[x]]
    <3> HIDE DEF olds
    <3> QED
      BY <1>1
  <2>2. \A x \in 1..Len(olds) : news[x] \in ToSet(news)
    <3> HIDE DEF olds
    <3> QED
      BY <1>1 DEF ToSet
  <2> HIDE DEF news, olds
  <2> QED
    BY <1>1, <2>1, <2>2, SameSequence
<1>4. PICK page : page = ApplyPlan(form, layout, plan)
  OBVIOUS
<1>5. page.regions = news /\ page.hidden = layout.hidden /\ page.controls = layout.controls
  <2>1. layout = [regions |-> layout.regions, hidden |-> layout.hidden, controls |-> layout.controls]
    BY DEF Laid
  <2>2. page = [layout EXCEPT !.regions = news]
    <3> HIDE DEF news
    <3> QED
      BY <1>2, <1>3, <1>4
  <2> HIDE DEF news
  <2> QED
    BY <2>1, <2>2
<1>6. ASSUME NEW x \in DOMAIN olds, NEW e \in ToSet(plan), e.id = olds[x].id
      PROVE  olds[x] \in ToSet(hard) /\ Redrawn(form, olds[x], Replace(form, layout, olds[x], e))
  <2>1. PICK old : old = olds[x]
    OBVIOUS
  <2>2. IsRegion(old) /\ old \in ToSet(olds)
    BY <2>1 DEF Laid, ToSet
  <2>3. PICK r \in ToSet(hard) : r.id = e.id
    <3>1. PICK k \in DOMAIN plan : e = plan[k]
      BY DEF ToSet
    <3>2. {plan[l].id : l \in DOMAIN plan} = {r.id : r \in ToSet(hard)}
      BY DEF ValidPlan
    <3> QED
      BY <3>1, <3>2
  <2>4. r = old
    <3>1. PICK y \in DOMAIN olds : r = olds[y]
      BY <2>3 DEF Laid, ToSet
    <3>2. \A v, z \in DOMAIN olds : olds[v].id = olds[z].id => v = z
      BY DEF Laid
    <3> HIDE DEF olds
    <3> QED
      BY <1>6, <2>1, <2>3, <3>1, <3>2
  <2>5. old.columns = <<>> /\ OfControls(old)
    BY <2>3, <2>4 DEF Laid
  <2>6. Planned(form, old, e)
    <3>1. old \in {q \in ToSet(hard) : q.id = e.id}
      BY <2>3, <2>4
    <3> QED
      BY <3>1 DEF ValidPlan, Planned, NamesAll
  <2>7. Redrawn(form, old, Replace(form, layout, old, e))
    BY <2>2, <2>5, <2>6, ReplaceRedraws
  <2> QED
    BY <2>1, <2>3, <2>4, <2>7
<1>7. ASSUME NEW x \in DOMAIN olds
      PROVE  IF olds[x] \in ToSet(hard) THEN Redrawn(form, olds[x], news[x]) ELSE news[x] = olds[x]
  <2>1. PICK old : old = olds[x]
    OBVIOUS
  <2>2. news[x] = new(old)
    BY <2>1
  <2>3. CASE entries(old) = {}
    <3>1. old \notin ToSet(hard)
      <4> SUFFICES ASSUME old \in ToSet(hard) PROVE FALSE
        OBVIOUS
      <4>1. {plan[l].id : l \in DOMAIN plan} = {r.id : r \in ToSet(hard)}
        BY DEF ValidPlan
      <4>2. PICK l \in DOMAIN plan : plan[l].id = old.id
        BY <4>1
      <4>3. plan[l] \in entries(old)
        BY <4>2 DEF ToSet
      <4> QED
        BY <2>3, <4>3
    <3> QED
      BY <2>1, <2>2, <2>3, <3>1
  <2>4. CASE entries(old) # {}
    <3>1. PICK e : e = CHOOSE d \in entries(old) : TRUE
      OBVIOUS
    <3>2. e \in entries(old)
      <4> HIDE DEF entries
      <4> QED
        BY <2>4, <3>1
    <3>3. old \in ToSet(hard) /\ Redrawn(form, old, Replace(form, layout, old, e))
      BY <1>6, <2>1, <3>2
    <3>4. new(old) = Replace(form, layout, old, e)
      BY <2>4, <3>1
    <3> HIDE DEF new, news, olds
    <3> QED
      BY <2>1, <2>2, <3>3, <3>4
  <2> QED
    BY <2>3, <2>4
<1>8. DOMAIN news = DOMAIN olds
  OBVIOUS
<1>9. IsList(news)
  <2>1. news \in [1..Len(olds) -> ToSet(news)]
    <3>1. \A x \in DOMAIN news : news[x] \in ToSet(news)
      <4> HIDE DEF news
      <4> QED
        BY DEF ToSet
    <3>2. news = [x \in 1..Len(olds) |-> news[x]]
      <4> HIDE DEF olds
      <4> QED
        BY <1>1
    <3> HIDE DEF news, olds
    <3> QED
      BY <1>1, <1>8, <3>1, <3>2
  <2> HIDE DEF news, olds
  <2> QED
    BY <1>1, <2>1, IsASeq DEF IsList
<1> HIDE DEF news
<1>10. Rearranged(form, olds, hard, news)
  BY <1>7, <1>8 DEF Rearranged
<1>11. \A x, y \in DOMAIN news : news[x].id = news[y].id => x = y
  <2>1. \A x \in DOMAIN olds : news[x].id = olds[x].id
    BY <1>7 DEF Redrawn
  <2>2. \A x, y \in DOMAIN olds : olds[x].id = olds[y].id => x = y
    BY DEF Laid
  <2> HIDE DEF olds
  <2> QED
    BY <1>8, <2>1, <2>2
<1> QED
  BY <1>4, <1>5, <1>9, <1>10, <1>11

\* What a provider can do to a page, whatever the rules made of it: the last
\* one written hides what the rules hide; it is theirs unless a plan was
\* accepted, and then every region asked about is redrawn and the rest theirs;
\* and what is bound on it is bound together, its key included.
AsRuled ==
  exported # Absent =>
    LET form  == Revisions[sample][exported.revision]
        ruled == Ruled[sample][exported.revision]
    IN /\ exported.revision \in DOMAIN Revisions[sample]
       /\ exported.hidden = ruled.layout.hidden
       /\ IF exported.assisted
          THEN Rearranged(form, ruled.layout.regions, ruled.hard, exported.regions)
          ELSE exported.regions = ruled.layout.regions
       /\ BoundTogether(form, exported.regions, exported.hidden, exported.bound)

\* An export writes the rules' page or that of a valid plan, or nothing.
LEMMA ExportKeepsRuled ==
  ASSUME ExportTyped, AsRuled, NEW page, NEW assisted, NEW confirmed, NEW answer,
         Export(page, assisted, confirmed, answer)
  PROVE  AsRuled'
<1> DEFINE cached  == assisted /\ Fits(page, plans[page])
           asked   == assisted /\ HardOnes # <<>> /\ ~cached
           applied == asked /\ answer.kind = "plan" /\ ValidPlan(Form, HardOnes, answer.plan)
           final   == CASE cached  -> ApplyPlan(Form, Rules, plans[page].plan)
                        [] applied -> ApplyPlan(Form, Rules, answer.plan)
                        [] OTHER   -> Rules
<1>1. PICK made, byPlan : made = final /\ byPlan = (cached \/ applied)
  OBVIOUS
<1>2. IF byPlan THEN \E plan : ValidPlan(Form, HardOnes, plan) /\ made = ApplyPlan(Form, Rules, plan)
                ELSE made = Rules
  <2>1. CASE cached
    <3>1. made = ApplyPlan(Form, Rules, plans[page].plan) /\ ValidPlan(Form, HardOnes, plans[page].plan)
      BY <1>1, <2>1 DEF Fits
    <3> QED
      BY <1>1, <2>1, <3>1
  <2>2. CASE applied
    <3>1. made = ApplyPlan(Form, Rules, answer.plan) /\ ValidPlan(Form, HardOnes, answer.plan)
      BY <1>1, <2>2
    <3> QED
      BY <1>1, <2>2, <3>1
  <2>3. CASE ~cached /\ ~applied
    BY <1>1, <2>3
  <2> QED
    BY <2>1, <2>2, <2>3
<1>3. /\ sample' = sample /\ revision' = revision
      /\ exported' = exported
         \/ exported' = [revision |-> revision, page |-> page, asked |-> asked, assisted |-> byPlan,
                         regions |-> made.regions, hidden |-> made.hidden,
                         bound |-> Restrict(confirmed, Bindings(Form, made, confirmed))]
  BY <1>1 DEF Export
<1> HIDE DEF final, cached, asked, applied
<1>4. CASE exported' = exported
  BY <1>3, <1>4 DEF AsRuled
<1>5. CASE exported' = [revision |-> revision, page |-> page, asked |-> asked, assisted |-> byPlan,
                        regions |-> made.regions, hidden |-> made.hidden,
                        bound |-> Restrict(confirmed, Bindings(Form, made, confirmed))]
  <2>1. sample \in DOMAIN Revisions /\ revision \in DOMAIN Revisions[sample]
    BY DEF ExportTyped
  <2>2. PICK form, layout, hard : form = Form /\ layout = Rules /\ hard = HardOnes
    OBVIOUS
  <2>3. Laid(form, layout, hard)
    BY <2>1, <2>2, RulesLay DEF Form, Rules, HardOnes
  <2>4. /\ made.hidden = layout.hidden /\ made.controls = layout.controls /\ IsList(made.regions)
        /\ IF byPlan THEN Rearranged(form, layout.regions, hard, made.regions) ELSE made.regions = layout.regions
        /\ \A x, y \in DOMAIN made.regions : made.regions[x].id = made.regions[y].id => x = y
    <3>1. CASE byPlan
      BY <1>2, <2>2, <2>3, <3>1, PlanRedraws
    <3>2. CASE ~byPlan
      BY <1>2, <2>2, <2>3, <3>2 DEF Laid
    <3> QED
      BY <3>1, <3>2
  <2>5. BoundTogether(form, made.regions, made.hidden, Restrict(confirmed, Bindings(form, made, confirmed)))
    BY <2>3, <2>4, KeysBindTogether DEF Laid
  <2> QED
    BY <1>3, <1>5, <2>1, <2>2, <2>4, <2>5 DEF AsRuled, Form, Rules, HardOnes
<1> QED
  BY <1>3, <1>4, <1>5

\* Whatever a provider proposes, whatever is kept of it, and for whatever form:
\* ailayout.py moves controls inside the regions it asked about, into rows that
\* follow in twelve columns, one cell each, and changes nothing else of the
\* rules' page; those it loses are exactly the Eclipsed ones, which share their
\* item name with a later control of their region (dicts by apex_name,
\* ailayout.py:216 and 284).
THEOREM PlansOnlyRearrange == ExportSpec => []AsRuled
<1>1. ExportInit => AsRuled
  BY DEF ExportInit, AsRuled
<1>2. (ExportInv /\ AsRuled) /\ [ExportNext]_exportVars => AsRuled'
  <2> SUFFICES ASSUME ExportInv, AsRuled, [ExportNext]_exportVars PROVE AsRuled'
    OBVIOUS
  <2>1. CASE Revise
    BY <2>1 DEF Revise, AsRuled
  <2>2. CASE ExportSome
    <3>1. ExportTyped
      BY DEF ExportInv
    <3> QED
      BY <2>2, <3>1, ExportKeepsRuled DEF ExportSome
  <2>3. CASE UNCHANGED exportVars
    BY <2>3 DEF exportVars, AsRuled
  <2> QED
    BY <2>1, <2>2, <2>3 DEF ExportNext
<1>3. ExportInit => ExportInv
  BY ExportInitially
<1> QED
  BY <1>1, <1>2, <1>3, ExportInvariance, PTL DEF ExportSpec

\* The rules put each control on the page once but for the Undrawn ones, in
\* rows that follow.
RulesLayWhole ==
  \A s \in DOMAIN Revisions : \A q \in DOMAIN Revisions[s] :
    LET form == Revisions[s][q]  layout == Ruled[s][q].layout IN
    EveryControlOnce(form, layout.regions, layout.hidden, Undrawn(form)) /\ RowsFollow(layout.regions)

\* Of forms the rules lay out whole, no page is ever less than whole: a plan
\* adds exactly LostToPlan to what the rules leave undrawn, item names being
\* free to collide as apex_item_names lets them.
THEOREM ProvidersKeepPagesWhole == RulesLayWhole => (ExportSpec => []PageIsWhole)
<1> SUFFICES ASSUME RulesLayWhole PROVE ExportSpec => []PageIsWhole
  OBVIOUS
<1>1. ExportInv /\ AsRuled => PageIsWhole
  <2> SUFFICES ASSUME ExportInv, AsRuled, exported # Absent
               PROVE  LET form == Revisions[sample][exported.revision]
                          asked == Ruled[sample][exported.revision].hard
                          lost == Undrawn(form) \cup (IF exported.assisted THEN LostToPlan(form, asked) ELSE {})
                      IN Whole(form, exported.regions, exported.hidden, exported.bound, lost)
    BY DEF PageIsWhole
  <2>1. PICK form, layout, asked : /\ form = Revisions[sample][exported.revision]
                                   /\ layout = Ruled[sample][exported.revision].layout
                                   /\ asked = Ruled[sample][exported.revision].hard
    OBVIOUS
  <2>2. sample \in DOMAIN Revisions /\ exported.revision \in DOMAIN Revisions[sample]
    BY DEF ExportInv, ExportTyped, AsRuled
  <2>3. Laid(form, layout, asked)
    BY <2>1, <2>2, RulesLay
  <2>4. EveryControlOnce(form, layout.regions, layout.hidden, Undrawn(form)) /\ RowsFollow(layout.regions)
    BY <2>1, <2>2 DEF RulesLayWhole
  <2>5. /\ exported.hidden = layout.hidden
        /\ IF exported.assisted THEN Rearranged(form, layout.regions, asked, exported.regions)
                                ELSE exported.regions = layout.regions
        /\ BoundTogether(form, exported.regions, exported.hidden, exported.bound)
    BY <2>1 DEF AsRuled
  <2>6. CASE exported.assisted
    <3>1. ToSet(asked) \subseteq ToSet(layout.regions) /\ IsFiniteSet(DOMAIN layout.regions)
      <4>1. DOMAIN layout.regions = 1..Len(layout.regions) /\ Len(layout.regions) \in Nat
        BY <2>3, LenProperties DEF Laid, IsList
      <4>2. IsFiniteSet(1..Len(layout.regions))
        BY <4>1, FS_Interval
      <4> QED
        BY <2>3, <4>1, <4>2 DEF Laid
    <3>2. EveryControlOnce(form, exported.regions, exported.hidden, Undrawn(form) \cup LostToPlan(form, asked))
      BY <2>4, <2>5, <2>6, <3>1, OnceStays
    <3>3. RowsFollow(exported.regions)
      BY <2>4, <2>5, <2>6, RowsStay
    <3> QED
      BY <2>1, <2>5, <2>6, <3>2, <3>3 DEF Whole
  <2>7. CASE ~exported.assisted
    <3>1. Undrawn(form) \cup {} = Undrawn(form)
      OBVIOUS
    <3> QED
      BY <2>1, <2>4, <2>5, <2>7, <3>1 DEF Whole
  <2> QED
    BY <2>6, <2>7
<1>2. ExportInit => ExportInv
  BY ExportInitially
<1> QED
  BY <1>1, <1>2, ExportInvariance, PlansOnlyRearrange, PTL DEF ExportSpec
=============================================================================
