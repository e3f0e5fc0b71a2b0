---------------------------- MODULE WorkbenchJob ----------------------------
(***************************************************************************)
(* The local workbench (workbench.py) and the run records of a session     *)
(* file (store.py).  One server process serves many request threads and at *)
(* most one conversion thread; `job' is its memory, `runs' the job_run and *)
(* proposal rows on disk, which a crash leaves and other processes can     *)
(* open.  Beside it runs at most one AI explanation, kept in memory only.  *)
(*                                                                         *)
(* A request handler holds the session lock from its first check to its    *)
(* last assignment and is one action; cancel_job releases it before it     *)
(* writes and is two.  The worker takes one step per commit or per section *)
(* under the lock.  Titles, queues and messages shown to the user, stage   *)
(* timings and the text of a proposal are left out.                        *)
(***************************************************************************)
EXTENDS Integers, Sequences, FiniteSets

CONSTANTS Sessions,        \* session files
          Order,           \* the task ids of a session, by position
          Strangers,       \* task ids a request may carry that no session has
          Fingerprint,     \* fingerprint of each task's body, or None
          Providers,       \* configured AI providers
          Answers,         \* what a provider may answer for a unit
          Cautious,        \* the answers that report a behaviour difference
          Browsers,        \* browser tabs: what each last saw
          Cancels,         \* threads serving /api/job/cancel
          Kept,            \* explanations kept in memory (8 in the code)
          None,
          MaxRuns,         \* bound: runs per session
          MaxCrashes,      \* bound: deaths of the server process
          MaxVisits,       \* bound: openings of a file by another process
          MaxFailures,     \* bound: database errors met by the worker
          MaxExplanations  \* bound: explanations started

Tasks == {Order[i] : i \in DOMAIN Order}
Failed == "error"          \* a proposal that carries only an error

ASSUME ConstantsAssumption ==
  /\ Strangers \cap Tasks = {}
  /\ Order \in Seq(Tasks) /\ Fingerprint \in [Tasks -> {Fingerprint[t] : t \in Tasks}]
  /\ Cautious \subseteq Answers /\ Failed \notin Answers
  /\ None \notin Answers \cup Tasks \cup Sessions \cup Nat
  /\ None \notin [answer : Answers \cup {Failed}, by : Providers]
  /\ {MaxRuns, MaxCrashes, MaxVisits, MaxFailures, MaxExplanations} \subseteq Nat
  /\ Kept \in Nat \ {0}

VARIABLES
  runs,       \* disk: the runs of each session, in id order
  latest,     \* disk: the run that made the latest proposal of a task, or 0
  cautious,   \* disk: the tasks whose stored analysis took the AI's caution
  up,         \* the server process is alive
  store,      \* the open session
  provider,   \* the live provider
  job,        \* memory: the job as /api/job reports it
  worker,     \* the conversion thread
  seen,       \* what each browser tab shows: a session, or None
  captured,   \* the run id each cancel thread read, or None
  explained,  \* memory: explanations, oldest first
  active,     \* memory: the id of the explanation under way, or None
  calls,      \* the explanations whose thread is inside the provider
  spent       \* counters behind the bounds

disk == <<runs, latest, cautious>>
ai == <<explained, active, calls>>
vars == <<disk, up, store, provider, job, worker, seen, captured, ai, spent>>

Statuses == {"running", "completed", "cancelled", "crashed"}
Proposal == [answer : Answers \cup {Failed}, by : Providers]

(* `proposals' are the rows the run saved.  The rest is history: `late'     *)
(* counts those saved after its cancellation was recorded, `lost' says     *)
(* that its end could not be written, `units' are the tasks it was given   *)
(* and `announced' the provider it was started with.                       *)
Run == [status : Statuses, cancel : BOOLEAN, done : Nat, failed : Nat, total : Nat,
        late : Nat, lost : BOOLEAN, proposals : [Tasks -> Proposal \cup {None}],
        units : SUBSET Tasks, announced : Providers]

NewRun(ids, p) ==
  [status |-> "running", cancel |-> FALSE, done |-> 0, failed |-> 0,
   total |-> Len(ids), late |-> 0, lost |-> FALSE, proposals |-> [t \in Tasks |-> None],
   units |-> Tasks \cap {ids[i] : i \in DOMAIN ids}, announced |-> p]

\* `home' is history: the session the job's run belongs to.
NoJob == [running |-> FALSE, run |-> 0, home |-> None, done |-> 0, failed |-> 0]

Idle == [pc |-> "none", run |-> 0, left |-> <<>>, task |-> None, result |-> None,
         first |-> [f \in {Fingerprint[t] : t \in Tasks} |-> None], outcome |-> "completed"]

Spent == [crashes |-> 0, visits |-> 0, failures |-> 0, explanations |-> 0]

Init ==
  /\ runs = [s \in Sessions |-> <<>>]
  /\ latest = [s \in Sessions |-> [t \in Tasks |-> 0]]
  /\ cautious = [s \in Sessions |-> {}]
  /\ up = TRUE /\ store \in Sessions /\ provider \in Providers
  /\ job = NoJob /\ worker = Idle
  /\ seen = [b \in Browsers |-> None]
  /\ captured = [k \in Cancels |-> None]
  /\ explained = <<>> /\ active = None /\ calls = {}
  /\ spent = Spent

Spend(what) == spent' = [spent EXCEPT ![what] = @ + 1]

-----------------------------------------------------------------------------
(* Session files *)

\* Opening a file with Store(path) flips every row left at `running'.
Reconciled(rows) ==
  [i \in DOMAIN rows |->
     IF rows[i].status = "running" THEN [rows[i] EXCEPT !.status = "crashed"] ELSE rows[i]]

Open(s) == runs' = [runs EXCEPT ![s] = Reconciled(@)]

\* The flag is set only while the run is there and still running.
Cancellable(rows, i) == i \in DOMAIN rows /\ rows[i].status = "running"

Pending(s) == {t \in Tasks : latest[s][t] = 0}

-----------------------------------------------------------------------------
(* Requests *)

\* GET /api/state: the tab shows the open session and keeps its context id.
Look(b) ==
  /\ up
  /\ seen' = [seen EXCEPT ![b] = store]
  /\ UNCHANGED <<disk, up, store, provider, job, worker, captured, ai, spent>>

\* The context id a request carries is the one of the open session.
InContext(b) == seen[b] = store

\* The tasks of S by their position.
Position(t) == CHOOSE i \in DOMAIN Order : Order[i] = t
Listings(S) ==
  {q \in [1..Cardinality(S) -> S] : \A i, j \in DOMAIN q : i < j => Position(q[i]) < Position(q[j])}

\* Every pending task, or one task by an id that nobody checks.
Batches(s) == Listings(Pending(s)) \cup {<<t>> : t \in Tasks \cup Strangers}

\* start_job: one job at a time, and none beside an explanation.
MayStart == ~job.running /\ active = None

NextId(s) == Len(runs[s]) + 1

Propose(b) ==
  /\ up /\ InContext(b) /\ MayStart
  /\ Len(runs[store]) < MaxRuns
  /\ \E ids \in Batches(store) \ {<<>>} :
       /\ runs' = [runs EXCEPT ![store] = Append(@, NewRun(ids, provider))]
       /\ job' = [NoJob EXCEPT !.running = TRUE, !.run = NextId(store), !.home = store]
       /\ worker' = [Idle EXCEPT !.pc = "check", !.run = NextId(store), !.left = ids]
  /\ UNCHANGED <<latest, cautious, up, store, provider, seen, captured, ai, spent>>

\* cancel_job, under the lock: which run is running?
ReadRun(k) ==
  /\ up /\ captured[k] = None /\ job.running
  /\ captured' = [captured EXCEPT ![k] = job.run]
  /\ UNCHANGED <<disk, up, store, provider, job, worker, seen, ai, spent>>

\* cancel_job, after the lock is released: request_job_cancel on the store
\* that is open by then.
RequestCancel(k) ==
  /\ up /\ captured[k] # None
  /\ captured' = [captured EXCEPT ![k] = None]
  /\ runs' = IF Cancellable(runs[store], captured[k])
             THEN [runs EXCEPT ![store][captured[k]].cancel = TRUE] ELSE runs
  /\ UNCHANGED <<latest, cautious, up, store, provider, job, worker, seen, ai, spent>>

\* open_module and build_blueprint: refused while a conversion runs.
OpenModule(s) ==
  /\ up /\ ~job.running
  /\ Open(s)
  /\ store' = s
  /\ UNCHANGED <<latest, cautious, up, provider, job, worker, seen, captured, ai, spent>>

\* set_provider and save_settings.
SetProvider(p) ==
  /\ up /\ ~job.running
  /\ provider' = p
  /\ UNCHANGED <<disk, up, store, job, worker, seen, captured, ai, spent>>

-----------------------------------------------------------------------------
(* The conversion thread: _run_job *)

Mine == runs[store][worker.run]
Goto(p) == worker' = [worker EXCEPT !.pc = p]
WorkerOnly == UNCHANGED <<up, store, provider, seen, captured, ai, spent>>

\* The loop is exhausted.
NoMoreUnits ==
  /\ worker.pc = "check" /\ worker.left = <<>>
  /\ Goto("final")
  /\ UNCHANGED <<disk, job>> /\ WorkerOnly

\* The flag is read between units only.
NoticeCancel ==
  /\ worker.pc = "check" /\ worker.left # <<>> /\ Mine.cancel
  /\ worker' = [worker EXCEPT !.pc = "final", !.outcome = "cancelled"]
  /\ UNCHANGED <<disk, job>> /\ WorkerOnly

\* get_task finds no such task: the unit is not counted.
SkipStranger ==
  /\ worker.pc = "check" /\ worker.left # <<>> /\ ~Mine.cancel
  /\ Head(worker.left) \notin Tasks
  /\ worker' = [worker EXCEPT !.left = Tail(@)]
  /\ UNCHANGED <<disk, job>> /\ WorkerOnly

TakeUnit ==
  /\ worker.pc = "check" /\ worker.left # <<>> /\ ~Mine.cancel
  /\ Head(worker.left) \in Tasks
  /\ worker' = [worker EXCEPT !.pc = "convert", !.task = Head(worker.left), !.left = Tail(@)]
  /\ UNCHANGED <<disk, job>> /\ WorkerOnly

\* The proposal already stored for an identical body of this run, or None.
TwinProposal ==
  LET twin == worker.first[Fingerprint[worker.task]] IN
  IF Fingerprint[worker.task] = None \/ twin = None THEN None
  ELSE runs[store][latest[store][twin]].proposals[twin]

Reusable == TwinProposal # None /\ TwinProposal.answer # Failed

\* An identical body was converted before: no call to the provider.
Reuse ==
  /\ worker.pc = "convert" /\ Reusable
  /\ worker' = [worker EXCEPT !.pc = "save", !.result = TwinProposal]
  /\ UNCHANGED <<disk, job>> /\ WorkerOnly

\* The provider answers; its failure is a proposal too.
Ask ==
  /\ worker.pc = "convert" /\ ~Reusable
  /\ \E a \in Answers \cup {Failed} :
       worker' = [worker EXCEPT !.pc = "save", !.result = [answer |-> a, by |-> provider]]
  /\ UNCHANGED <<disk, job>> /\ WorkerOnly

SaveProposal ==
  /\ worker.pc = "save"
  /\ runs' = [runs EXCEPT ![store][worker.run] =
                [Mine EXCEPT !.proposals[worker.task] = worker.result,
                             !.late = IF Mine.cancel THEN @ + 1 ELSE @]]
  /\ latest' = [latest EXCEPT ![store][worker.task] = worker.run]
  /\ Goto("merge")
  /\ UNCHANGED <<cautious, job>> /\ WorkerOnly

\* _merge_behavior, then seen.setdefault.
First(f) ==
  IF worker.result.answer # Failed /\ f # None /\ worker.first[f] = None
  THEN worker.task ELSE worker.first[f]

\* Mutant: a reused answer is not merged.
MergeUnlessReused ==
  /\ worker.pc = "merge"
  /\ cautious' = IF worker.result.answer \in Cautious /\ worker.first[Fingerprint[worker.task]] = None
                 THEN [cautious EXCEPT ![store] = @ \cup {worker.task}] ELSE cautious
  /\ worker' = [worker EXCEPT !.pc = "advance",
                  !.first[Fingerprint[worker.task]] = First(Fingerprint[worker.task])]
  /\ UNCHANGED <<runs, latest, job>> /\ WorkerOnly

MergeBehavior ==
  /\ worker.pc = "merge"
  /\ cautious' = IF worker.result.answer \in Cautious
                 THEN [cautious EXCEPT ![store] = @ \cup {worker.task}] ELSE cautious
  /\ worker' = [worker EXCEPT !.pc = "advance",
                  !.first[Fingerprint[worker.task]] = First(Fingerprint[worker.task])]
  /\ UNCHANGED <<runs, latest, job>> /\ WorkerOnly

\* _job_advance, in memory.
Advance ==
  /\ worker.pc = "advance"
  /\ job' = [job EXCEPT !.done = @ + 1, !.failed = IF worker.result.answer = Failed THEN @ + 1 ELSE @]
  /\ Goto("sync")
  /\ UNCHANGED disk /\ WorkerOnly

\* _sync_job_run: inside the loop, and once more when it is over.
Synced == [runs EXCEPT ![store][worker.run] = [Mine EXCEPT !.done = job.done, !.failed = job.failed]]

Sync ==
  /\ worker.pc = "sync"
  /\ runs' = Synced
  /\ worker' = [worker EXCEPT !.pc = "check", !.task = None, !.result = None]
  /\ UNCHANGED <<latest, cautious, job>> /\ WorkerOnly

\* Any exception of the loop ends the run as crashed.
Break ==
  /\ worker.pc \in {"check", "convert", "save", "merge", "sync"}
  /\ spent.failures < MaxFailures /\ Spend("failures")
  /\ worker' = [worker EXCEPT !.pc = "final", !.outcome = "crashed"]
  /\ UNCHANGED <<disk, job, up, store, provider, seen, captured, ai>>

\* Mutant: the stop is announced before the end is written.
AnnounceFirst ==
  /\ worker.pc = "final"
  /\ runs' = Synced
  /\ job' = [job EXCEPT !.running = FALSE]
  /\ Goto("finish")
  /\ UNCHANGED <<latest, cautious>> /\ WorkerOnly

FinalSync ==
  /\ worker.pc = "final"
  /\ runs' = Synced
  /\ Goto("finish")
  /\ UNCHANGED <<latest, cautious, job>> /\ WorkerOnly

\* finish_job_run, whatever the row says by then.
Finish ==
  /\ worker.pc = "finish"
  /\ runs' = [runs EXCEPT ![store][worker.run].status = worker.outcome]
  /\ Goto("stop")
  /\ UNCHANGED <<latest, cautious, job>> /\ WorkerOnly

\* Mutant: the error escapes and the job is never stopped.
LoseRecordAndJob ==
  /\ worker.pc \in {"final", "finish"}
  /\ spent.failures < MaxFailures /\ Spend("failures")
  /\ worker' = Idle
  /\ runs' = [runs EXCEPT ![store][worker.run].lost = TRUE]
  /\ UNCHANGED <<latest, cautious, job, up, store, provider, seen, captured, ai>>

\* The final record cannot be written: the job stops all the same.
LoseRecord ==
  /\ worker.pc \in {"final", "finish"}
  /\ spent.failures < MaxFailures /\ Spend("failures")
  /\ Goto("stop")
  /\ runs' = [runs EXCEPT ![store][worker.run].lost = TRUE]
  /\ UNCHANGED <<latest, cautious, job, up, store, provider, seen, captured, ai>>

Stop ==
  /\ worker.pc = "stop"
  /\ worker' = Idle
  /\ job' = [job EXCEPT !.running = FALSE]
  /\ UNCHANGED disk /\ WorkerOnly

Worker ==
  \/ NoMoreUnits \/ NoticeCancel \/ SkipStranger \/ TakeUnit \/ Reuse \/ Ask \/ SaveProposal
  \/ MergeBehavior \/ Advance \/ Sync \/ FinalSync \/ Finish \/ Stop

-----------------------------------------------------------------------------
(* AI explanations of the open Blueprint *)

\* The Blueprint and the provider an explanation is about.
Context == <<store, provider>>
Known == {i \in DOMAIN explained : explained[i].context = Context}
Newest(S) == CHOOSE i \in S : \A j \in S : j <= i

\* The explanation a new request is answered with, if there is one.
Answered(refresh) ==
  /\ Known # {}
  /\ \/ explained[Newest(Known)].status = "running"
     \/ explained[Newest(Known)].status = "completed" /\ ~refresh

\* popitem(last=False) until at most Kept are left.
Trimmed(q) == IF Len(q) > Kept THEN Tail(q) ELSE q

StartExplanation(refresh) ==
  /\ up /\ ~Answered(refresh)
  /\ active = None /\ ~job.running
  /\ spent.explanations < MaxExplanations /\ Spend("explanations")
  /\ LET id == spent.explanations + 1 IN
       /\ explained' = Trimmed(Append(explained, [id |-> id, context |-> Context, status |-> "running"]))
       /\ active' = id
       /\ calls' = calls \cup {id}
  /\ UNCHANGED <<disk, up, store, provider, job, worker, seen, captured>>

\* Mutant: the answer overwrites a cancellation.
Overwritten(e, i, status) == IF e.id = i THEN [e EXCEPT !.status = status] ELSE e

\* The provider settles: a cancelled explanation keeps its status.
Settled(e, i, status) ==
  IF e.id = i /\ e.status # "cancelled" THEN [e EXCEPT !.status = status] ELSE e

SettleExplanation(i) ==
  /\ i \in calls
  /\ \E status \in {"completed", "failed"} :
       explained' = [n \in DOMAIN explained |-> Settled(explained[n], i, status)]
  /\ active' = None
  /\ calls' = calls \ {i}
  /\ UNCHANGED <<disk, up, store, provider, job, worker, seen, captured, spent>>

\* Mutant: discarding releases the guard while the provider still works.
CancelAndRelease(n) ==
  /\ up /\ n \in Known
  /\ explained' = [explained EXCEPT ![n].status = "cancelled"]
  /\ active' = None
  /\ UNCHANGED <<disk, up, store, provider, job, worker, seen, captured, calls, spent>>

\* Discarding keeps the guard until the provider settles.
CancelExplanation(n) ==
  /\ up /\ n \in Known
  /\ explained' = [explained EXCEPT ![n].status = "cancelled"]
  /\ UNCHANGED <<disk, up, store, provider, job, worker, seen, captured, active, calls, spent>>

-----------------------------------------------------------------------------
(* Processes *)

\* The server dies: what is in memory is gone.
Crash ==
  /\ up /\ spent.crashes < MaxCrashes /\ Spend("crashes")
  /\ up' = FALSE
  /\ job' = NoJob /\ worker' = Idle
  /\ captured' = [k \in Cancels |-> None]
  /\ explained' = <<>> /\ active' = None /\ calls' = {}
  /\ UNCHANGED <<disk, store, provider, seen>>

\* A new server opens a session file with a provider of its own.
Restart(s) ==
  /\ ~up
  /\ up' = TRUE
  /\ store' = s /\ Open(s)
  /\ provider' \in Providers
  /\ UNCHANGED <<latest, cautious, job, worker, seen, captured, ai, spent>>

\* A command line opens a session file, which the server may have open too.
Visit(s) ==
  /\ spent.visits < MaxVisits /\ Spend("visits")
  /\ Open(s)
  /\ UNCHANGED <<latest, cautious, up, store, provider, job, worker, seen, captured, ai>>

-----------------------------------------------------------------------------
Request ==
  \/ \E b \in Browsers : Look(b) \/ Propose(b)
  \/ \E k \in Cancels : ReadRun(k) \/ RequestCancel(k)
  \/ \E s \in Sessions : OpenModule(s)
  \/ \E p \in Providers : SetProvider(p)
  \/ \E refresh \in BOOLEAN : StartExplanation(refresh)
  \/ \E n \in DOMAIN explained : CancelExplanation(n)

Environment ==
  \/ Break \/ LoseRecord \/ Crash
  \/ \E s \in Sessions : Restart(s) \/ Visit(s)

Settle == \E i \in calls : SettleExplanation(i)

Next == Request \/ Worker \/ Settle \/ Environment

Spec == Init /\ [][Next]_vars

\* The conversion thread is scheduled, and a provider answers or times out.
FairSpec == Spec /\ WF_vars(Worker) /\ WF_vars(Settle)

-----------------------------------------------------------------------------
(* Properties *)

\* A poller that reads running = False can already read how the run ended, and
\* the record agrees with the counters it was shown, unless the database
\* refused the record (the order of _run_job's finally blocks).
OutcomeBeforeStop ==
  ~job.running /\ job.run # 0 =>
    LET record == runs[job.home][job.run] IN
    \/ record.lost
    \/ record.status # "running" /\ record.done = job.done /\ record.failed = job.failed

\* What a run record says was done is on disk: no more units are counted than
\* proposals were saved, at most the unit in hand is saved and not yet counted
\* unless the thread was cut off, and a run that completed left no task out.
RecordedProgressIsReal ==
  \A s \in Sessions : \A i \in DOMAIN runs[s] :
    LET r == runs[s][i]
        saved == {t \in Tasks : r.proposals[t] # None} IN
    /\ r.failed <= r.done /\ r.done <= Cardinality(saved) /\ Cardinality(saved) <= r.done + 1
    /\ r.status = "completed" => saved = r.units /\ r.done = Cardinality(r.units)
    /\ \A t \in saved : latest[s][t] # 0

\* Units with the same body converted by the same run get the same answer,
\* and all proposals of a run are by the provider it announced.
RunsAnswerAlike ==
  \A s \in Sessions : \A i \in DOMAIN runs[s] :
    LET p == runs[s][i].proposals
        ok == {t \in Tasks : p[t] # None /\ p[t].answer # Failed} IN
    /\ \A t, u \in ok : Fingerprint[t] = Fingerprint[u] /\ Fingerprint[t] # None => p[t] = p[u]
    /\ \A t \in Tasks : p[t] # None => p[t].by = runs[s][i].announced

\* A run of the open session that reads as running has a thread behind it, or
\* its end could not be written: what a dead server left behind never does.
RunningRowsAreLive ==
  up => \A i \in DOMAIN runs[store] :
          runs[store][i].status = "running" =>
            \/ worker.pc \notin {"none", "stop"} /\ worker.run = i
            \/ runs[store][i].lost

\* Once a cancellation is recorded at most one more unit, the one in flight,
\* gets a proposal, and it does get one or the thread was cut off.
CancelSkipsTheRest ==
  \A s \in Sessions : \A i \in DOMAIN runs[s] :
    /\ runs[s][i].late <= 1
    /\ runs[s][i].status = "cancelled" => runs[s][i].cancel

\* What is on record of a run is true, while it runs, when it stopped, when it
\* was cut off or cancelled, and after the file was opened again.
RunRecordIsTrue ==
  /\ OutcomeBeforeStop /\ RecordedProgressIsReal /\ RunsAnswerAlike
  /\ RunningRowsAreLive /\ CancelSkipsTheRest

\* A run that ended in good order left no warning behind: every unit one of its
\* proposals for or reused, says behaves differently is stored as such.
CautionIsKept ==
  \A s \in Sessions : \A i \in DOMAIN runs[s] :
    runs[s][i].status \in {"completed", "cancelled"} =>
      \A t \in Tasks :
        LET p == runs[s][i].proposals[t] IN p # None /\ p.answer \in Cautious => t \in cautious[s]

\* Whatever is cancelled and retried, one request to a provider is under way
\* at a time: a conversion's unit or one explanation.
OneProviderCall ==
  Cardinality(calls) + (IF worker.pc = "convert" THEN 1 ELSE 0) <= 1

\* A discarded explanation never comes back, whatever its provider answers.
DiscardedStaysDiscarded ==
  [][\A n \in DOMAIN explained : \A m \in DOMAIN explained' :
       explained[n].id = explained'[m].id /\ explained[n].status = "cancelled"
         => explained'[m].status = "cancelled"]_vars

\* A job the server reports as running stops, cancelled or not, and the guard
\* that refuses a second explanation is released.
EverythingSettles ==
  /\ job.running ~> ~job.running
  /\ active # None ~> active = None
=============================================================================
