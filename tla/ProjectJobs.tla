----------------------------- MODULE ProjectJobs -----------------------------
(***************************************************************************)
(* Durable project jobs (project_jobs.py) and the five operations that run *)
(* as one or under the same lock: analysis, discovery, freshness check,    *)
(* Forms2XML conversion and relinking (project_analysis.py,                *)
(* project_service.py, project_freshness.py, project_conversion.py), with  *)
(* the publication they end in (project_store.py).                         *)
(*                                                                         *)
(* A worker is a thread of some process.  It reads its preconditions with  *)
(* no lock, takes the project worker lock or is refused, fails whatever    *)
(* job an earlier process left unfinished, inserts its own job row, works, *)
(* and records how the job ended.  Each SQLite transaction is one step.    *)
(* Clients cancel, files change and processes die at any moment.           *)
(***************************************************************************)
EXTENDS Naturals, FiniteSets

CONSTANTS
  Worker,            \* the threads that run project operations
  Process,           \* the processes they belong to
  ProcOf,            \* the process of each worker
  NoWorker,          \* nobody holds the worker lock
  Root,              \* folders a source root may be linked to
  Content,           \* what a source folder may hold, up to its SHA-256
  Binary,            \* the contents that are an FMB, of use only when converted
  NoContent,         \* a missing folder; no registered conversion
  NoRoot,            \* the descriptor was not read
  NoRevision,        \* the project has no published assessment
  NoInputs,          \* the job has not looked at its sources
  DescriptorFirst,   \* the operations that read the descriptor before the configuration
  MaxJobs,           \* bound: job rows
  MaxConfiguration,  \* bound: configuration revisions
  Setting,           \* the situations a model explores, one of them per behaviour
  Situation          \* what each of them is

Operation == {"ANALYZE", "DISCOVER", "FRESHNESS", "CONVERT"}  \* those that claim a job
Action == Operation \cup {"RELINK", "OPEN"}

ASSUME JobsAssumption ==
  /\ ProcOf \in [Worker -> Process]
  /\ NoWorker \notin Worker
  /\ Binary \subseteq Content
  /\ NoContent \notin Content
  /\ DescriptorFirst \subseteq {"DISCOVER", "FRESHNESS"}
  /\ MaxJobs \in Nat /\ MaxConfiguration \in Nat

ASSUME SettingAssumption ==
  Situation \in [Setting ->
    [requests : SUBSET Action,                   \* what the clients ask for
     root : Root,                                \* the root linked at first
     disk : [Root -> Content \cup {NoContent}],  \* what the folders hold at first
     contents : SUBSET Content,                  \* what an edit may leave there
     edits : Nat,                                \* bound: changes of the folders
     crashes : Nat]]                             \* bound: process deaths

JobId == 1..MaxJobs
Active == {"QUEUED", "RUNNING"}
Terminal == {"COMPLETED", "FAILED", "CANCELLED"}
Verdict == {"CURRENT", "STALE", "MISSING_SOURCE", "INCOMPLETE", "UNVERIFIED"}

\* What an analysis revision stands for: the content found under the selected
\* root, and whether a registered conversion of exactly that content is used.
Revision == [content : Content \cup {NoContent}, converted : BOOLEAN]

\* What a configuration revision stands for: the linked root, and the binary
\* content whose conversion is registered.
Inputs == [root : Root, derived : Content \cup {NoContent}]

\* What an operation expects to find unchanged when it gets its turn.
Precondition == [revision : Revision \cup {NoRevision}, configuration : 0..MaxConfiguration]

Row == [operation : Operation \cup {"NONE"}, status : Active \cup Terminal \cup {"ABSENT"},
        cancel : BOOLEAN, interrupted : BOOLEAN,
        revision : Revision \cup {NoRevision}, configuration : 0..MaxConfiguration,
        result : Revision \cup {NoRevision}, verdict : Verdict \cup {"NONE"}]

NoRow == [operation |-> "NONE", status |-> "ABSENT", cancel |-> FALSE, interrupted |-> FALSE,
          revision |-> NoRevision, configuration |-> 0,
          result |-> NoRevision, verdict |-> "NONE"]

VARIABLES
  lock,           \* who holds the project worker lock
  job,            \* project_job
  last,           \* the rowid of its newest row
  analysis,       \* modernization_project.analysis_revision
  root,           \* the source root in its descriptor
  configuration,  \* project_configuration.revision
  derived,        \* project_derived_source: the binary content a conversion is registered for
  assessments,    \* project_assessment: the revisions retained
  disk,           \* what each folder holds now
  pc,             \* where each worker is
  op,             \* what it was asked to do
  expected,       \* the revision and configuration it was given or read
  folder,         \* the folder it is to link, or the root in the descriptor it read
  mine,           \* its job
  seen,           \* the revision its sources hash to, or the one it was checked against
  ending,         \* the terminal state it is about to record
  verdict,        \* the freshness result it is about to record
  basis,          \* history: the inputs each job explored
  inputs,         \* history: what each configuration revision stood for
  edited,         \* history: jobs that hashed the sources before the latest edit
  edits,          \* changes of the source folders so far
  crashes,        \* process deaths so far
  setting         \* the situation of this behaviour; never changes

store == <<job, last, analysis, root, configuration, derived, assessments>>
local == <<op, expected, folder, mine, seen, ending, verdict>>
history == <<basis, inputs, edited>>
environment == <<disk, edits, crashes, setting>>
vars == <<lock, store, pc, local, history, environment>>

Location == {"idle", "asked", "ready", "locked", "claiming", "queued", "running", "discovered",
             "staged", "persisting", "publishing", "ending", "retrying", "leaving"}
Body == {"running", "discovered", "staged", "persisting", "publishing"}  \* between two checkpoints
Locked == Location \ {"idle", "asked", "ready"}            \* under the worker lock

TypeOK ==
  /\ lock \in Worker \cup {NoWorker}
  /\ job \in [JobId -> Row]
  /\ last \in 0..MaxJobs
  /\ analysis \in Revision \cup {NoRevision}
  /\ root \in Root
  /\ configuration \in 0..MaxConfiguration
  /\ derived \in Content \cup {NoContent}
  /\ assessments \subseteq Revision
  /\ disk \in [Root -> Content \cup {NoContent}]
  /\ pc \in [Worker -> Location]
  /\ op \in [Worker -> Action]
  /\ expected \in [Worker -> Precondition]
  /\ folder \in [Worker -> Root \cup {NoRoot}]
  /\ mine \in [Worker -> 0..MaxJobs]
  /\ seen \in [Worker -> Revision \cup {NoRevision}]
  /\ ending \in [Worker -> Terminal]
  /\ verdict \in [Worker -> Verdict \cup {"NONE"}]
  /\ basis \in [JobId -> Inputs \cup {NoInputs}]
  /\ inputs \in [0..MaxConfiguration -> Inputs \cup {NoInputs}]
  /\ edited \subseteq JobId
  /\ edits \in Nat
  /\ crashes \in Nat
  /\ setting \in Setting

-----------------------------------------------------------------------------
Here == Situation[setting]

Lock == INSTANCE WorkerMutex WITH Thread <- Worker, NoThread <- NoWorker, holder <- lock

\* source_revision of what is under the linked root, with the conversion that
\* discover_project_sources adds only to the binary it was made from.
Fingerprint(r) ==
  [content |-> disk[r], converted |-> disk[r] \in Binary /\ derived = disk[r]]

\* The newest freshness check that completed, 0 when there is none.
NewestCheck ==
  LET checks == {j \in JobId : job[j].operation = "FRESHNESS" /\ job[j].status = "COMPLETED"}
  IN IF checks = {} THEN 0 ELSE CHOOSE j \in checks : \A k \in checks : k <= j

(* Slips: what the definitions after them would be with a mistake in the    *)
(* code, kept to show that the properties below notice it.                  *)

UnfinishedRunning == {j \in JobId : job[j].status = "RUNNING"}

FinishedAgain(row, status) == [row EXCEPT !.status = IF row.cancel THEN "CANCELLED" ELSE status]

FenceUncancelled(w) ==
  /\ job[mine[w]].status = "RUNNING" /\ job[mine[w]].operation = "ANALYZE"
  /\ configuration = job[mine[w]].configuration
  /\ analysis = job[mine[w]].revision

CompletedLater(row, rev) == [row EXCEPT !.result = rev]

UnchangedUnchecked(w) == TRUE

TakeLockUnlessOpening(w) ==
  /\ pc[w] = "ready"
  /\ IF op[w] = "OPEN" THEN UNCHANGED lock ELSE Lock!Acquire(w)
  /\ pc' = [pc EXCEPT ![w] = "locked"]
  /\ UNCHANGED <<store, local, history, environment>>

BadgeOfAnyConfiguration ==
  IF NewestCheck # 0 /\ job[NewestCheck].result = analysis
  THEN [job |-> NewestCheck, status |-> job[NewestCheck].verdict]
  ELSE [job |-> 0, status |-> "UNVERIFIED"]

-----------------------------------------------------------------------------
(* What the code computes.                                                  *)

\* has_unfinished_jobs, and the rows recovery and the unique index look at.
Unfinished == {j \in JobId : job[j].status \in Active}

\* JobLease.finish: a terminal row stays as it is, a requested cancellation wins.
Finished(row, status) ==
  IF row.status \in Terminal THEN row
  ELSE [row EXCEPT !.status = IF row.cancel THEN "CANCELLED" ELSE status]

Interrupted(row) == [row EXCEPT !.status = "FAILED", !.interrupted = TRUE]

\* The preconditions claim() compares inside its own transaction.
Admissible(w) ==
  /\ analysis = expected[w].revision
  /\ configuration = expected[w].configuration

\* What save_assessment requires of the job that publishes.
Fence(w) ==
  LET row == job[mine[w]] IN
  /\ row.status = "RUNNING" /\ row.operation = "ANALYZE" /\ ~row.cancel
  /\ configuration = row.configuration
  /\ analysis = row.revision

\* What save_assessment makes of the row of the job that publishes.
Completed(row, rev) == [row EXCEPT !.status = "COMPLETED", !.result = rev]

\* The recheck of what the job is about to publish.
Unchanged(w) == Fingerprint(root) = seen[w]

\* parse_staged found something to analyze.
Usable(rev) == rev.content # NoContent /\ (rev.content \in Binary => rev.converted)

Row0(w) == [NoRow EXCEPT !.operation = op[w], !.status = "QUEUED",
                         !.revision = expected[w].revision,
                         !.configuration = expected[w].configuration]

NothingRead == [revision |-> NoRevision, configuration |-> 0]

Goto(w, location) == pc' = [pc EXCEPT ![w] = location]

\* project_http._freshness: the newest completed check counts only for the
\* configuration and the assessment it was made of.
Badge ==
  IF NewestCheck # 0 /\ job[NewestCheck].configuration = configuration
                     /\ job[NewestCheck].result = analysis
  THEN [job |-> NewestCheck, status |-> job[NewestCheck].verdict]
  ELSE [job |-> 0, status |-> "UNVERIFIED"]

\* The folders of this behaviour.
Folder == {r \in Root : Here.disk[r] # NoContent}

\* What a worker knew is gone once it is back at rest, or its process is.
Forgotten(W) ==
  /\ pc' = [w \in Worker |-> IF w \in W THEN "idle" ELSE pc[w]]
  /\ op' = [w \in Worker |-> IF w \in W THEN "OPEN" ELSE op[w]]
  /\ expected' = [w \in Worker |-> IF w \in W THEN NothingRead ELSE expected[w]]
  /\ folder' = [w \in Worker |-> IF w \in W THEN NoRoot ELSE folder[w]]
  /\ mine' = [w \in Worker |-> IF w \in W THEN 0 ELSE mine[w]]
  /\ seen' = [w \in Worker |-> IF w \in W THEN NoRevision ELSE seen[w]]
  /\ ending' = [w \in Worker |-> IF w \in W THEN "FAILED" ELSE ending[w]]
  /\ verdict' = [w \in Worker |-> IF w \in W THEN "NONE" ELSE verdict[w]]

Init ==
  /\ lock = NoWorker
  /\ job = [j \in JobId |-> NoRow] /\ last = 0
  /\ analysis = NoRevision
  /\ setting \in Setting
  /\ root = Here.root
  /\ configuration = 0
  /\ derived = NoContent
  /\ assessments = {}
  /\ disk = Here.disk
  /\ pc = [w \in Worker |-> "idle"]
  /\ op = [w \in Worker |-> "OPEN"]
  /\ expected = [w \in Worker |-> NothingRead]
  /\ folder = [w \in Worker |-> NoRoot]
  /\ mine = [w \in Worker |-> 0]
  /\ seen = [w \in Worker |-> NoRevision]
  /\ ending = [w \in Worker |-> "FAILED"]
  /\ verdict = [w \in Worker |-> "NONE"]
  /\ basis = [j \in JobId |-> NoInputs]
  /\ inputs = [c \in 0..MaxConfiguration |->
                 IF c = 0 THEN [root |-> root, derived |-> NoContent] ELSE NoInputs]
  /\ edited = {}
  /\ edits = 0
  /\ crashes = 0

-----------------------------------------------------------------------------
(* Before the lock.                                                         *)

Idle == {w \in Worker : pc[w] = "idle"}

\* The two reads that make up a precondition.  Only discovery keeps the
\* descriptor for its work; the others read it again under the lock.
ReadDescriptor(w) ==
  /\ expected' = [expected EXCEPT ![w].revision = analysis]
  /\ folder' = [folder EXCEPT ![w] = IF op'[w] = "DISCOVER" THEN root ELSE NoRoot]

ReadConfiguration(w) == expected' = [expected EXCEPT ![w].configuration = configuration]

\* The client names a folder and the configuration it has seen.
RequestRelink(w) ==
  /\ ReadConfiguration(w)
  /\ \E r \in Folder : folder' = [folder EXCEPT ![w] = r]

\* A client asks worker w for operation o.  Opening goes on to recovery only
\* when an unfinished row is seen; the other operations have a first half of
\* their preconditions, given by the client or read by the worker.  The two
\* guards on MaxJobs and MaxConfiguration keep every admitted operation within
\* its bounds.
Ask(w, o) ==
  /\ pc[w] = "idle"
  /\ o \in Here.requests
  /\ o = "OPEN" => Unfinished # {}
  /\ o \in Operation => last + Cardinality(Worker \ Idle) < MaxJobs
  /\ o \in {"CONVERT", "RELINK"} => configuration < MaxConfiguration
  /\ op' = [op EXCEPT ![w] = o]
  /\ Goto(w, IF o \in Operation THEN "asked" ELSE "ready")
  /\ IF o = "OPEN" THEN UNCHANGED <<expected, folder>>
     ELSE IF o = "RELINK" THEN RequestRelink(w)
     ELSE IF o \in DescriptorFirst THEN ReadDescriptor(w)
     ELSE ReadConfiguration(w) /\ UNCHANGED folder
  /\ UNCHANGED <<lock, store, mine, seen, ending, verdict, history, environment>>

\* The other half of its preconditions, a read of its own.
ReadRest(w) ==
  /\ pc[w] = "asked"
  /\ Goto(w, "ready")
  /\ UNCHANGED op
  /\ IF op[w] \in DescriptorFirst THEN ReadConfiguration(w) /\ UNCHANGED folder
     ELSE ReadDescriptor(w)
  /\ UNCHANGED <<lock, store, mine, seen, ending, verdict, history, environment>>

TakeLock(w) ==
  /\ pc[w] = "ready"
  /\ Lock!Acquire(w)
  /\ Goto(w, "locked")
  /\ UNCHANGED <<store, local, history, environment>>

\* ProjectBusy: another worker is inside; recover() answers with an empty list.
LockBusy(w) ==
  /\ pc[w] = "ready"
  /\ lock # NoWorker
  /\ Forgotten({w})
  /\ UNCHANGED <<lock, store, history, environment>>

-----------------------------------------------------------------------------
(* Under the lock, before the work.                                         *)

\* _recover_locked: whatever is unfinished belongs to nobody alive.  relink looks
\* at the folder first.
Recover(w) ==
  /\ pc[w] = "locked"
  /\ op[w] = "RELINK" => disk[folder[w]] # NoContent
  /\ job' = [j \in JobId |-> IF j \in Unfinished THEN Interrupted(job[j]) ELSE job[j]]
  /\ Goto(w, IF op[w] = "OPEN" THEN "leaving" ELSE "claiming")
  /\ UNCHANGED <<lock, last, analysis, root, configuration, derived, assessments,
                 local, history, environment>>

\* Opening the store or a transaction of it meets another writer: ProjectBusy.
StoreBusy(w) ==
  /\ pc[w] \in {"locked", "claiming"}
  /\ Goto(w, "leaving")
  /\ UNCHANGED <<lock, store, local, history, environment>>

\* The transaction that inserts the row; the unique index on unfinished rows
\* admits one per project.
Claim(w) ==
  /\ pc[w] = "claiming" /\ op[w] \in Operation
  /\ Admissible(w)
  /\ Unfinished = {}
  /\ last < MaxJobs
  /\ last' = last + 1
  /\ job' = [job EXCEPT ![last + 1] = Row0(w)]
  /\ mine' = [mine EXCEPT ![w] = last + 1]
  /\ Goto(w, "queued")
  /\ UNCHANGED <<lock, analysis, root, configuration, derived, assessments, op,
                 expected, folder, seen, ending, verdict, history, environment>>

\* RevisionConflict, a folder that is not there, or an unfinished row.
Refuse(w) ==
  /\ \/ pc[w] = "claiming" /\ op[w] \in Operation /\ ~(Admissible(w) /\ Unfinished = {})
     \/ pc[w] = "claiming" /\ op[w] = "RELINK"
        /\ ~(configuration = expected[w].configuration /\ Unfinished = {})
     \/ pc[w] = "locked" /\ op[w] = "RELINK" /\ disk[folder[w]] = NoContent
  /\ Goto(w, "leaving")
  /\ UNCHANGED <<lock, store, local, history, environment>>

Start(w) ==
  /\ pc[w] = "queued"
  /\ job' = [job EXCEPT ![mine[w]].status = "RUNNING"]
  /\ Goto(w, "running")
  /\ UNCHANGED <<lock, last, analysis, root, configuration, derived, assessments,
                 local, history, environment>>

\* service.relink after recovery: replace_roots in one EXCLUSIVE transaction.
\* The descriptor it changes was read under the lock.
Relink(w) ==
  /\ pc[w] = "claiming" /\ op[w] = "RELINK"
  /\ Unfinished = {}
  /\ configuration = expected[w].configuration
  /\ root' = folder[w]
  /\ configuration' = configuration + 1
  /\ inputs' = [inputs EXCEPT ![configuration + 1] = [root |-> folder[w], derived |-> derived]]
  /\ Goto(w, "leaving")
  /\ UNCHANGED <<lock, job, last, analysis, derived, assessments, local, basis,
                 edited, environment>>

-----------------------------------------------------------------------------
(* The work.  Each step begins with the checkpoint that raises a requested  *)
(* cancellation or a row that is no longer running (Fail is what follows),  *)
(* and ends before the next one.                                            *)

Checkpoint(w) == job[mine[w]].status \in Active /\ ~job[mine[w]].cancel

Working(w, location, o) == pc[w] = location /\ op[w] = o /\ Checkpoint(w)

\* The end of the work: what the job is to be recorded as, unless it already is.
EndAs(w, status) ==
  /\ ending' = [ending EXCEPT ![w] = status]
  /\ Goto(w, "ending")

Explores(w, r) == basis' = [basis EXCEPT ![mine[w]] = [root |-> r, derived |-> derived]]

\* analyze_project, DISCOVERY: what is there and which conversions apply to it.
Discover(w) ==
  /\ Working(w, "running", "ANALYZE")
  /\ seen' = [seen EXCEPT ![w] = Fingerprint(root)]
  /\ Explores(w, root)
  /\ Goto(w, "discovered")
  /\ UNCHANGED <<lock, store, op, expected, folder, mine, ending, verdict, inputs,
                 edited, environment>>

\* stage_sources: what was found is copied and hashed, as it is by now.
Stage(w) ==
  /\ Working(w, "discovered", "ANALYZE")
  /\ seen' = [seen EXCEPT ![w].content = IF @ = NoContent THEN @ ELSE disk[root]]
  /\ Goto(w, "staged")
  /\ UNCHANGED <<lock, store, op, expected, folder, mine, ending, verdict, history,
                 environment>>

\* Parsing to assessment, or NO_SUPPORTED_SOURCES.
Analyze(w) ==
  /\ Working(w, "staged", "ANALYZE")
  /\ IF Usable(seen[w])
     THEN Goto(w, "persisting") /\ UNCHANGED ending
     ELSE EndAs(w, "FAILED")
  /\ UNCHANGED <<lock, store, op, expected, folder, mine, seen, verdict, history,
                 environment>>

\* service.discover: the preview run of the descriptor read before the lock.
DiscoverPreview(w) ==
  /\ Working(w, "running", "DISCOVER")
  /\ Explores(w, folder[w])
  /\ EndAs(w, "COMPLETED")
  /\ UNCHANGED <<lock, store, op, expected, folder, mine, seen, verdict, inputs,
                 edited, environment>>

\* check_freshness on the descriptor and assessment of the job's own store.  File
\* names, unreadable files and the completeness of an assessment are not
\* modelled: where they decide, any answer they lead to may come.
Freshness ==
  IF analysis = NoRevision THEN {"INCOMPLETE"}
  ELSE IF disk[root] = NoContent THEN {"MISSING_SOURCE", "UNVERIFIED"}
  ELSE IF Fingerprint(root) # analysis THEN {"STALE", "MISSING_SOURCE", "UNVERIFIED"}
  ELSE {"CURRENT", "INCOMPLETE", "UNVERIFIED"}

CheckFreshness(w) ==
  /\ Working(w, "running", "FRESHNESS")
  /\ \E v \in Freshness : verdict' = [verdict EXCEPT ![w] = v]
  /\ seen' = [seen EXCEPT ![w] = analysis]
  /\ Explores(w, root)
  /\ edited' = edited \ {mine[w]}
  /\ EndAs(w, "COMPLETED")
  /\ UNCHANGED <<lock, store, op, expected, folder, mine, inputs, environment>>

\* convert_selected up to the converter's output; other sources are refused.
Convert(w) ==
  /\ Working(w, "running", "CONVERT")
  /\ Explores(w, root)
  /\ IF disk[root] \in Binary
     THEN /\ seen' = [seen EXCEPT ![w] = Fingerprint(root)]
          /\ Goto(w, "persisting")
          /\ UNCHANGED ending
     ELSE EndAs(w, "FAILED") /\ UNCHANGED seen
  /\ UNCHANGED <<lock, store, op, expected, folder, mine, verdict, inputs, edited,
                 environment>>

\* The sources are discovered and hashed again; SourceChanged when they differ.
Recheck(w) ==
  /\ Working(w, "persisting", op[w])
  /\ IF Unchanged(w)
     THEN Goto(w, "publishing") /\ UNCHANGED ending
     ELSE EndAs(w, "FAILED")
  /\ edited' = edited \ {mine[w]}
  /\ UNCHANGED <<lock, store, op, expected, folder, mine, seen, verdict, basis,
                 inputs, environment>>

\* save_assessment: pointer, assessment and the job's completion in one
\* transaction.  A cancellation may have come since the last checkpoint, so the
\* fence tests for it again.  What follows the commit, the final finish() of
\* claim() and the failure of the descriptor mirror included, finds the row
\* terminal.
Publish(w) ==
  /\ pc[w] = "publishing" /\ op[w] = "ANALYZE"
  /\ Fence(w)
  /\ analysis' = seen[w]
  /\ assessments' = assessments \cup {seen[w]}
  /\ job' = [job EXCEPT ![mine[w]] = Completed(@, seen[w])]
  /\ EndAs(w, "FAILED")
  /\ UNCHANGED <<lock, last, root, configuration, derived, op, expected, folder,
                 mine, seen, verdict, history, environment>>

\* convert_selected's last transaction: a checkpoint inside it, the registered
\* conversion, the configuration it makes and the job's completion.
Register(w) ==
  /\ Working(w, "publishing", "CONVERT")
  /\ configuration = expected[w].configuration
  /\ derived' = seen[w].content
  /\ configuration' = configuration + 1
  /\ inputs' = [inputs EXCEPT ![configuration + 1] =
                  [root |-> root, derived |-> seen[w].content]]
  /\ job' = [job EXCEPT ![mine[w]].status = "COMPLETED"]
  /\ EndAs(w, "FAILED")
  /\ UNCHANGED <<lock, last, analysis, root, assessments, op, expected, folder,
                 mine, seen, verdict, basis, edited, environment>>

\* A checkpoint, or the fence, sees the cancellation.
NoticeCancel(w) ==
  /\ pc[w] \in Body
  /\ job[mine[w]].cancel
  /\ EndAs(w, "CANCELLED")
  /\ UNCHANGED <<lock, store, op, expected, folder, mine, seen, verdict, history,
                 environment>>

\* The in-process cancellation of an analysis writes the request down first.
StopAnalysis(w) ==
  /\ pc[w] \in Body /\ op[w] = "ANALYZE"
  /\ job' = [job EXCEPT ![mine[w]].cancel = TRUE]
  /\ EndAs(w, "CANCELLED")
  /\ UNCHANGED <<lock, last, analysis, root, configuration, derived, assessments,
                 op, expected, folder, mine, seen, verdict, history, environment>>

\* Revoked access, an unreadable source, a missing tool, a busy database.
Fail(w) ==
  /\ pc[w] \in Body \cup {"queued"}
  /\ EndAs(w, "FAILED")
  /\ UNCHANGED <<lock, store, op, expected, folder, mine, seen, verdict, history,
                 environment>>

-----------------------------------------------------------------------------
(* The end of a claim.                                                      *)

\* A freshness job records its outcome in the same transaction.
WithOutcome(w, row) ==
  IF op[w] = "FRESHNESS" /\ row.status \notin Terminal /\ verdict[w] # "NONE"
  THEN [row EXCEPT !.result = seen[w], !.verdict = verdict[w]]
  ELSE row

Finish(w) ==
  /\ pc[w] \in {"ending", "retrying"}
  /\ job' = [job EXCEPT ![mine[w]] = Finished(WithOutcome(w, @), ending[w])]
  /\ Goto(w, "leaving")
  /\ UNCHANGED <<lock, last, analysis, root, configuration, derived, assessments,
                 local, history, environment>>

\* The database is busy: the exception makes claim() try again, as FAILED.
FinishBusy(w) ==
  /\ pc[w] = "ending"
  /\ Goto(w, "retrying")
  /\ ending' = [ending EXCEPT ![w] = "FAILED"]
  /\ verdict' = [verdict EXCEPT ![w] = "NONE"]
  /\ UNCHANGED <<lock, store, op, expected, folder, mine, seen, history,
                 environment>>

\* Every attempt was refused: the row stays unfinished and the lock is left.
Abandon(w) ==
  /\ pc[w] = "retrying"
  /\ Goto(w, "leaving")
  /\ UNCHANGED <<lock, store, local, history, environment>>

Leave(w) ==
  /\ pc[w] = "leaving"
  /\ Lock!Release(w)
  /\ Forgotten({w})
  /\ UNCHANGED <<store, history, environment>>

-----------------------------------------------------------------------------
(* Everybody else.                                                          *)

\* ProjectJobManager.cancel, by any client, without the worker lock.
Cancel(j) ==
  /\ job[j].status \in Active
  /\ ~job[j].cancel
  /\ job' = [job EXCEPT ![j].cancel = TRUE]
  /\ UNCHANGED <<lock, last, analysis, root, configuration, derived, assessments,
                 pc, local, history, environment>>

\* The user edits, moves or restores a source folder.
Edit(r, c) ==
  /\ edits < Here.edits
  /\ r \in Folder /\ c \in Here.contents \cup {NoContent}
  /\ edits' = edits + 1
  /\ disk[r] # c
  /\ disk' = [disk EXCEPT ![r] = c]
  /\ edited' = 1..last
  /\ UNCHANGED <<lock, store, pc, local, basis, inputs, crashes, setting>>

\* A process dies: its threads are gone and the OS drops its lock.
Crash(p) ==
  LET gone == {w \in Worker : ProcOf[w] = p} IN
  /\ crashes < Here.crashes
  /\ \E w \in gone : pc[w] # "idle"
  /\ crashes' = crashes + 1
  /\ Lock!Die(p)
  /\ Forgotten(gone)
  /\ UNCHANGED <<store, history, disk, edits, setting>>

\* What a worker does by itself once it was asked.
Proceed(w) ==
  \/ ReadRest(w) \/ TakeLock(w) \/ LockBusy(w)
  \/ Claim(w) \/ Refuse(w) \/ Start(w) \/ Relink(w)
  \/ Discover(w) \/ Stage(w) \/ Analyze(w) \/ DiscoverPreview(w) \/ CheckFreshness(w)
  \/ Convert(w) \/ Recheck(w) \/ Publish(w) \/ Register(w)
  \/ NoticeCancel(w) \/ Fail(w)
  \/ Finish(w) \/ Leave(w)

Next ==
  \/ \E w \in Worker :
       \/ (\E o \in Action : Ask(w, o))
       \/ Proceed(w) \/ Recover(w)
       \/ StoreBusy(w) \/ StopAnalysis(w) \/ FinishBusy(w) \/ Abandon(w)
  \/ \E j \in JobId : Cancel(j)
  \/ \E r \in Root, c \in Content \cup {NoContent} : Edit(r, c)
  \/ \E p \in Process : Crash(p)

Spec == Init /\ [][Next]_vars

\* A worker that was asked goes on; SQLite contention is not for ever, so a
\* recovery that can be tried again and again succeeds; and somebody keeps
\* opening a project whose job is unfinished (the interface polls its job).
\* Cancelling, editing, crashing and further requests are never assumed.
FairSpec ==
  /\ Spec
  /\ \A w \in Worker : WF_vars(Proceed(w)) /\ SF_vars(Recover(w)) /\ WF_vars(Ask(w, "OPEN"))

-----------------------------------------------------------------------------
(* Properties.                                                              *)

\* Between claiming its row and recording its end, a worker holds the lock and
\* its job is the only unfinished one: no opening, recovery or relink by any
\* other thread or process fails, replaces or doubles the job of a live worker.
LiveWorkerKeepsItsJob ==
  \A w \in Worker :
    /\ pc[w] \in {"queued"} \cup Body => lock = w /\ Unfinished = {mine[w]}
    /\ pc[w] = "claiming" => lock = w /\ Unfinished = {}

\* A job whose cancellation was requested never completes: it ends CANCELLED,
\* or FAILED because its process had died (finish, save_assessment and
\* convert_selected test the flag in the transaction that ends the job).
CancellationWins ==
  \A j \in JobId : job[j].cancel /\ job[j].status \in Terminal =>
    \/ job[j].status = "CANCELLED"
    \/ job[j].status = "FAILED" /\ job[j].interrupted

\* However a job ended is how it stays: its row never changes again, whatever
\* finish(), recovery, cancellation or a failed mirror runs after it.
TerminalIsFinal ==
  [][\A j \in JobId : job[j].status \in Terminal => job'[j] = job[j]]_vars

\* The assessment pointer and the job table tell one story after every step and
\* every crash: the pointer is the result of the newest completed analysis, and
\* each completed analysis left its assessment.
PointerMatchesJobs ==
  LET completed == {j \in JobId : job[j].operation = "ANALYZE" /\ job[j].status = "COMPLETED"} IN
  /\ \A j \in completed : job[j].result \in assessments
  /\ analysis = IF completed = {} THEN NoRevision
                ELSE job[CHOOSE j \in completed : \A k \in completed : k <= j].result

\* A job explores the inputs of the configuration its row says it ran under,
\* although it read its preconditions before it had the lock.
JobReadsItsConfiguration ==
  \A j \in JobId : basis[j] # NoInputs => basis[j] = inputs[job[j].configuration]

\* What is about to be published, as an assessment or as a conversion, is what
\* the sources hold, unless they were edited after they were hashed again.
PublishedIsTheSources ==
  \A w \in Worker :
    pc[w] = "publishing" /\ mine[w] \notin edited => seen[w] = Fingerprint(root)

\* A job reads, and publishes, what its row says it is about: the inputs of
\* its configuration, in a state they are still in.
EvidenceIsTrue == JobReadsItsConfiguration /\ PublishedIsTheSources

\* A project shown CURRENT is current, unless a source was edited after it was
\* hashed: no relink, conversion or new assessment leaves an old answer standing.
CurrentBadgeIsTrue ==
  Badge.status = "CURRENT" /\ Badge.job \notin edited => Fingerprint(root) = analysis

\* Every admitted job reaches a terminal state: its worker ends it, or a later
\* opening does so in its place, in a project that somebody keeps opening.
EveryJobEnds ==
  \A j \in JobId :
    job[j].status \in Active /\ "OPEN" \in Here.requests ~> job[j].status \in Terminal
=============================================================================
