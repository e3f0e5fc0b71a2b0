-------------------------- MODULE ProjectGovernance --------------------------
(***************************************************************************)
(* Human governance of a project: reviews of findings (project_review.py), *)
(* and the preparation, target plan, code approval and generation of one   *)
(* of its modules (project_generation.py).                                 *)
(*                                                                         *)
(* A client loads what it shows the user with no lock and sends it back as *)
(* the preconditions of an operation.  An operation holds the project      *)
(* worker lock, verifies the sources, compares the preconditions with the  *)
(* project database, and commits in one or two SQLite transactions: one of *)
(* the project database, one of the code session of the module.  Each step *)
(* of Path is one transaction, or one read of the sources.                 *)
(*                                                                         *)
(* Sources are edited at any moment, the worker lock or not; two kinds of  *)
(* writers do not take that lock: Store.review_blueprint on the project    *)
(* database and the workbench on a code session.                           *)
(***************************************************************************)
EXTENDS Naturals, Sequences, FiniteSets, SequencesExt

CONSTANTS
  Client,        \* callers of the services, of any process
  None,          \* no holder, no assessment, no plan, no approval
  Settings       \* what a model is made of: its bounds, one of them per behaviour

\* The steps of each operation, in the order of its code.
Path ==
  [decide    |-> <<"take", "check", "open", "verify", "commit", "done">>,
   bulk      |-> <<"take", "check", "open", "verify", "commit", "done">>,
   prepare   |-> <<"take", "check", "fence", "create", "recheck", "register", "done">>,
   configure |-> <<"take", "check", "fence", "detail", "session", "recheck", "open", "verify",
                   "commit", "apply", "done">>,
   approve   |-> <<"take", "check", "fence", "session", "open", "verify", "apply", "commit", "done">>,
   generate  |-> <<"take", "check", "fence", "detail", "export", "compare", "recheck", "write",
                   "session", "open", "verify", "commit", "done">>,
   package   |-> <<"take", "check", "fence", "recheck", "write", "open", "verify", "commit", "done">>]

Operation == DOMAIN Path
Step == UNION {{Path[o][i] : i \in DOMAIN Path[o]} : o \in Operation}

\* A target plan, a code approval and the session of a module, in a setting.
Plans(x) == [keys : x.keys \cup {None}, analysis : x.contents, review : Nat]
Approvals(x) == [analysis : x.contents, review : Nat, target : Plans(x) \cup {None}] \cup {None}
Sessions(x) == [code : Nat, keys : x.keys \cup {None}, approval : Approvals(x)]

ASSUME GovernanceAssumption ==
  /\ None \notin Client
  /\ \A x \in Settings :
       /\ None \notin x.contents \cup x.keys \cup Sessions(x)
       /\ IsFiniteSet(x.findings)
       /\ x.requests \subseteq Operation
       /\ {x.reviews, x.codes, x.edits, x.folders} \subseteq Nat

VARIABLES
  lock,           \* who holds the project worker lock
  disk,           \* what the sources hold
  edits,          \* edits of the sources so far
  analysis,       \* modernization_project.analysis_revision
  assessed,       \* project_assessment: the assessments there have been
  log,            \* blueprint_review and blueprint_annotation, in order
  review,         \* modernization_project.review_revision
  plan,           \* the newest project_target_plan of each assessment
  files,          \* assessments whose session and XML files exist
  session,        \* project_module_session, and what its database holds
  folders,        \* the session copies the artifact folders were exported from
  artifacts,      \* project_artifact
  writer,         \* who is inside BEGIN IMMEDIATE of the project database
  sessionWriter,  \* who is inside BEGIN IMMEDIATE of a code session
  pc,             \* the next step of each client
  request,        \* the operation a client asked for, and what it was shown
  staged,         \* what it is about to commit
  late,           \* history: clients past their last check when the sources changed
  setting         \* the setting of this behaviour; it never changes

Finding == setting.findings     \* findings of the assessment
Content == setting.contents     \* what the sources may hold; it names the assessment made of it
Keys == setting.keys            \* row keys a target plan may confirm
Request == setting.requests     \* the operations the clients ask for
MaxReview == setting.reviews    \* bound: rows of the review log
MaxCode == setting.codes        \* bound: states of a code session
MaxEdits == setting.edits       \* bound: edits of the sources
MaxFolders == setting.folders   \* bound: artifact folders

database == <<analysis, assessed, log, review, plan, session, artifacts>>
storage == <<disk, edits, files, folders>>
locks == <<lock, writer, sessionWriter>>
local == <<pc, request, staged>>
vars == <<locks, storage, database, local, late, setting>>

NoRequest == [op |-> None, analysis |-> None, review |-> 0, target |-> None, code |-> None,
              pending |-> {}]
Nothing == [rows |-> <<>>, keys |-> None, copy |-> None, folder |-> 0]

Lock == INSTANCE WorkerMutex
          WITH Thread <- Client, Process <- Client, ProcOf <- [c \in Client |-> c],
               NoThread <- None, holder <- lock

Init ==
  /\ setting \in Settings
  /\ lock = None /\ writer = None /\ sessionWriter = None
  /\ disk \in Content /\ edits = 0
  /\ analysis = None /\ assessed = {} /\ log = <<>> /\ review = 0
  /\ plan = [a \in Content |-> None]
  /\ files = {} /\ session = [a \in Content |-> None]
  /\ folders = <<>> /\ artifacts = {}
  /\ pc = [c \in Client |-> "idle"]
  /\ request = [c \in Client |-> NoRequest]
  /\ staged = [c \in Client |-> Nothing]
  /\ late = {}

-----------------------------------------------------------------------------
(* What the code computes.  A definition called a slip is a plausible     *)
(* error in the one after it; no specification uses it.                   *)

\* A row of the log that decides about a finding; an annotation does not.
Decides(r, f) == r.finding = f /\ r.kind # "note"
Undecided(rows, f) == \A i \in DOMAIN rows : ~Decides(rows[i], f)

\* review_state PENDING: nobody ever decided, not even about an earlier assessment.
PendingToday(f) == \A i \in DOMAIN log : log[i].finding # f \/ log[i].revision # analysis  \* slip
Pending(f) == Undecided(log, f)

\* Store.blueprint: the newest decision counts, if it is about this assessment.
Resolved(a, rows) ==
  \A f \in Finding : \E i \in DOMAIN rows :
    /\ Decides(rows[i], f) /\ rows[i].revision = a /\ rows[i].kind = "resolve"
    /\ \A j \in DOMAIN rows : Decides(rows[j], f) => j <= i

\* What an approval of the code is bound to.
Bound(a, n, target) == [analysis |-> a, review |-> n, target |-> target]

\* _detail finds no blocker: reviews resolved, plan confirmed, its keys in the
\* session, code approved under exactly this evidence.
ReadyUnbound(a, n, target, s) ==  \* slip: any approval will do
  /\ Resolved(a, SubSeq(log, 1, n))
  /\ target # None /\ s # None
  /\ s.keys = target.keys
  /\ s.approval # None

Ready(a, n, target, s) ==
  /\ Resolved(a, SubSeq(log, 1, n))
  /\ target # None /\ s # None
  /\ s.keys = target.keys
  /\ s.approval = Bound(a, n, target)

\* artifact_currency: why an artifact is out of date, or "current".
Currency(x) ==
  IF disk # analysis \/ x.analysis # analysis \/ x.review # review \/ plan[analysis] # x.target
  THEN "stale"
  ELSE IF session[analysis] = None THEN "unavailable"
  ELSE IF session[analysis].code # x.code THEN "code stale" ELSE "current"

Code(s) == IF s = None THEN None ELSE s.code

\* _fence: the evidence the client was shown is the evidence there is.
Unfenced(c) == TRUE  \* slip
Fenced(c) == request[c].analysis = analysis /\ request[c].review = review

\* check_freshness says CURRENT.
Verified == disk = analysis

-----------------------------------------------------------------------------
(* Steps of a client *)

Following(op, step) ==
  LET path == Path[op] IN path[1 + CHOOSE i \in DOMAIN path : path[i] = step]

\* Client c takes step `step' of its operation.
Takes(c, step) ==
  /\ pc[c] = step
  /\ pc' = [pc EXCEPT ![c] = Following(request[c].op, step)]

Op(c, ops) == request[c].op \in ops

\* current_assessment: one read transaction.
ReadAssessment(c, op) ==
  /\ pc[c] = "idle" /\ analysis # None
  /\ pc' = [pc EXCEPT ![c] = "scope"]
  /\ request' = [request EXCEPT ![c] =
       [NoRequest EXCEPT !.op = op, !.analysis = analysis, !.review = review,
                         !.pending = {f \in Finding : Pending(f)}]]
  /\ UNCHANGED <<locks, storage, database, staged, late, setting>>

\* _detail: the target plan and the code revision, read after the assessment.
ReadScope(c) ==
  /\ pc[c] = "scope"
  /\ pc' = [pc EXCEPT ![c] = "take"]
  /\ request' = [request EXCEPT ![c].target = plan[request[c].analysis],
                                ![c].code = Code(session[request[c].analysis])]
  /\ UNCHANGED <<locks, storage, database, staged, late, setting>>

TakeLock(c) ==
  /\ Takes(c, "take")
  /\ Lock!Acquire(c)
  /\ UNCHANGED <<writer, sessionWriter, storage, database, request, staged, late, setting>>

\* The sources are hashed before any transaction.
CheckSources(c) ==
  /\ Takes(c, "check")
  /\ Verified
  /\ UNCHANGED <<locks, storage, database, request, staged, late, setting>>

\* _snapshot and _fence.
Fence(c) ==
  /\ Takes(c, "fence")
  /\ Fenced(c)
  /\ UNCHANGED <<locks, storage, database, request, staged, late, setting>>

\* The scope is what the client was shown, and for a generation not blocked.
Detail(c) ==
  /\ Takes(c, "detail")
  /\ request[c].target = plan[analysis]
  /\ session[analysis] # None /\ request[c].code = session[analysis].code
  /\ Op(c, {"generate"}) => Ready(analysis, request[c].review, plan[analysis], session[analysis])
  /\ UNCHANGED <<locks, storage, database, request, staged, late, setting>>

\* The module's files, from sources hashed again; the files of an attempt that
\* was cut short are left alone, and then there is no preparation.
CreateFiles(c) ==
  /\ Takes(c, "create")
  /\ session[analysis] = None
  /\ Verified
  /\ analysis \notin files
  /\ files' = files \cup {analysis}
  /\ UNCHANGED <<locks, disk, edits, folders, database, request, staged, late, setting>>

\* add_module_session
Register(c) ==
  /\ Takes(c, "register")
  /\ writer = None
  /\ session' = [session EXCEPT ![analysis] = [code |-> 0, keys |-> None, approval |-> None]]
  /\ UNCHANGED <<locks, storage, analysis, assessed, log, review, plan, artifacts, request, staged, late, setting>>

\* The session database is copied and the application exported from the copy.
Export(c) ==
  /\ Takes(c, "export")
  /\ staged' = [staged EXCEPT ![c].copy = session[analysis]]
  /\ UNCHANGED <<locks, storage, database, request, late, setting>>

Compare(c) ==
  /\ Takes(c, "compare")
  /\ session[analysis].code = request[c].code
  /\ UNCHANGED <<locks, storage, database, request, staged, late, setting>>

\* _verify: the sources and the evidence once more, before anything is published.
Recheck(c) ==
  /\ Takes(c, "recheck")
  /\ Verified /\ Fenced(c)
  /\ UNCHANGED <<locks, storage, database, request, staged, late, setting>>

\* The artifact's own folder, under a new id.
WriteFiles(c) ==
  /\ Takes(c, "write")
  /\ Len(folders) < MaxFolders
  /\ folders' = Append(folders, staged[c].copy)
  /\ staged' = [staged EXCEPT ![c].folder = Len(folders) + 1]
  /\ UNCHANGED <<locks, disk, edits, files, database, request, late, setting>>

\* BEGIN IMMEDIATE on the code session; it must be the code that was shown.
BeginSession(c) ==
  /\ Takes(c, "session")
  /\ sessionWriter = None /\ session[analysis] # None
  /\ session[analysis].code = request[c].code
  /\ sessionWriter' = c
  /\ IF Op(c, {"configure"})
     THEN \E k \in Keys : staged' = [staged EXCEPT ![c].keys = k]
     ELSE UNCHANGED staged
  /\ UNCHANGED <<lock, writer, storage, database, request, late, setting>>

\* The rows of one decision or annotation (mutate), or of a bulk review: only
\* pending findings are accepted in bulk, and as many as the preview showed.
OneRow == {<<[kind |-> k, finding |-> f, revision |-> analysis, bulk |-> FALSE]>> :
             k \in {"resolve", "leave", "note"}, f \in Finding}

BulkRow(kind, S) ==
  SetToSeq({[kind |-> kind, finding |-> f, revision |-> analysis, bulk |-> TRUE] : f \in S})

BulkRows(c) ==
  LET selections == SUBSET Finding \ {{}}
      eligible(S) == {f \in S : Pending(f)}
  IN {BulkRow("resolve", eligible(S)) : S \in {T \in selections : eligible(T) = T \cap request[c].pending}}
       \cup {BulkRow("leave", S) : S \in selections}

RowsOf(c) ==
  CASE Op(c, {"decide"}) -> OneRow
    [] Op(c, {"bulk"}) -> BulkRows(c)
    [] OTHER -> {<<>>}

\* BEGIN IMMEDIATE on the project database and the fence inside it; an approval
\* also compares the target plan there.
Open(c) ==
  /\ Takes(c, "open")
  /\ writer = None
  /\ Fenced(c)
  /\ Op(c, {"approve"}) => request[c].target = plan[analysis]
  /\ \E rows \in RowsOf(c) :
       /\ Len(log) + Len(rows) <= MaxReview
       /\ staged' = [staged EXCEPT ![c].rows = rows]
  /\ writer' = c
  /\ UNCHANGED <<lock, sessionWriter, storage, database, request, late, setting>>

\* The sources once more, inside the transaction.
Verify(c) ==
  /\ Takes(c, "verify")
  /\ Verified
  /\ UNCHANGED <<locks, storage, database, request, staged, late, setting>>

NewArtifact(c) ==
  LET generated == Op(c, {"generate"}) IN
  [analysis |-> analysis, review |-> request[c].review,
   target |-> IF generated THEN request[c].target ELSE None,
   code |-> IF generated THEN request[c].code ELSE None,
   folder |-> staged[c].folder]

\* The triggers count every row, of a decision and of an annotation.
Counted(rows) == Len(rows)

\* Commit of the project database.
Commit(c) ==
  /\ Takes(c, "commit")
  /\ log' = log \o staged[c].rows
  /\ review' = review + Counted(staged[c].rows)
  /\ plan' = IF Op(c, {"configure"})
             THEN [plan EXCEPT ![analysis] =
                     [keys |-> staged[c].keys, analysis |-> analysis,
                      review |-> request[c].review]]
             ELSE plan
  /\ artifacts' = IF Op(c, {"generate", "package"}) THEN artifacts \cup {NewArtifact(c)} ELSE artifacts
  /\ writer' = None
  /\ UNCHANGED <<lock, sessionWriter, storage, analysis, assessed, session, request, staged, late, setting>>

\* Commit of the code session: the keys of a plan, after the plan; a decision
\* about the code, approved or not, before the project database lets go of what
\* it was compared with.
Apply(c) ==
  /\ Takes(c, "apply")
  /\ \E approval \in {Bound(analysis, request[c].review, request[c].target), None} :
     LET s == session[analysis] IN
       /\ s.code < MaxCode
       /\ session' = [session EXCEPT ![analysis] =
            IF Op(c, {"configure"})
            THEN [s EXCEPT !.code = @ + 1, !.keys = staged[c].keys]
            ELSE [s EXCEPT !.code = @ + 1, !.approval = approval]]
  /\ sessionWriter' = None
  /\ UNCHANGED <<lock, writer, storage, analysis, assessed, log, review, plan, artifacts, request, staged, late, setting>>

\* The operation is over, was refused, failed or died with its process: open
\* transactions are rolled back and every lock is given back.
Leave(c) ==
  /\ pc[c] # "idle"
  /\ pc' = [pc EXCEPT ![c] = "idle"]
  /\ lock' = IF lock = c THEN None ELSE lock
  /\ writer' = IF writer = c THEN None ELSE writer
  /\ sessionWriter' = IF sessionWriter = c THEN None ELSE sessionWriter
  /\ request' = [request EXCEPT ![c] = NoRequest]
  /\ staged' = [staged EXCEPT ![c] = Nothing]
  /\ late' = late \ {c}
  /\ UNCHANGED <<storage, database, setting>>

-----------------------------------------------------------------------------
(* Everybody else *)

\* An analysis, as ProjectJobs publishes it: under the worker lock.
Analyze ==
  /\ lock = None /\ writer = None
  /\ analysis' = disk /\ assessed' = assessed \cup {disk}
  /\ UNCHANGED <<locks, storage, log, review, plan, session, artifacts, local, late, setting>>

Edit(d) ==
  /\ edits < MaxEdits /\ d # disk
  /\ edits' = edits + 1 /\ disk' = d
  /\ late' = late \cup {c \in Client : pc[c] \in {"commit", "apply"}}
  /\ UNCHANGED <<locks, files, folders, database, local, setting>>

\* review_blueprint through a plain Store: no worker lock, and the assessment it
\* read may have been replaced before it writes.
ExternalReview(f, kind, a) ==
  /\ writer = None /\ Len(log) < MaxReview
  /\ a \in assessed
  /\ log' = Append(log, [kind |-> kind, finding |-> f, revision |-> a, bulk |-> FALSE])
  /\ review' = review + 1
  /\ UNCHANGED <<locks, storage, analysis, assessed, plan, session, artifacts, local, late, setting>>

\* The workbench decides about the code or confirms a row key in the session.
LegacyCode(a, k) ==
  LET s == session[a] IN
  /\ sessionWriter = None
  /\ s # None /\ s.code < MaxCode
  /\ session' = [session EXCEPT ![a] =
       IF k = s.keys THEN [s EXCEPT !.code = @ + 1, !.approval = None]
       ELSE [s EXCEPT !.code = @ + 1, !.keys = k]]
  /\ UNCHANGED <<locks, storage, analysis, assessed, log, review, plan, artifacts, local, late, setting>>

-----------------------------------------------------------------------------
ClientStep(c) ==
  \/ \E op \in Request : ReadAssessment(c, op)
  \/ ReadScope(c) \/ TakeLock(c) \/ CheckSources(c) \/ Fence(c) \/ Detail(c)
  \/ CreateFiles(c) \/ Register(c) \/ Export(c) \/ Compare(c) \/ Recheck(c) \/ WriteFiles(c)
  \/ BeginSession(c) \/ Open(c) \/ Verify(c) \/ Commit(c) \/ Apply(c)
  \/ Leave(c)

Environment ==
  \/ Analyze
  \/ \E d \in Content : Edit(d)
  \/ \E f \in Finding, kind \in {"resolve", "leave"}, a \in Content : ExternalReview(f, kind, a)
  \/ \E a \in Content, k \in Keys : LegacyCode(a, k)

Next == Environment \/ \E c \in Client : ClientStep(c)

Spec == Init /\ [][Next]_vars

-----------------------------------------------------------------------------
(* Properties *)

\* A generated artifact is authorized by what its row names: at its review
\* revision every finding was resolved, the code it was exported from is the
\* code of the row, with the keys of the target plan, and was approved under
\* exactly this assessment, review and plan.  (generate, _detail)
MadeAsTheRowSays ==
  \A x \in artifacts : x.target # None =>
    /\ Resolved(x.analysis, SubSeq(log, 1, x.review))
    /\ x.folder \in DOMAIN folders
    /\ folders[x.folder].code = x.code
    /\ folders[x.folder].keys = x.target.keys
    /\ folders[x.folder].approval = Bound(x.analysis, x.review, x.target)

\* An artifact shown as current would be authorized again today: nothing that
\* happened since, to reviews, plan, keys, code or sources, is hidden from
\* artifact_currency.
CurrentMeansAuthorized ==
  \A x \in artifacts : x.target # None /\ Currency(x) = "current" =>
    Ready(analysis, review, plan[analysis], session[analysis])

\* A generated artifact was authorized when it was made, and is shown as
\* current only as long as it would be.
ArtifactsAreAuthorized == MadeAsTheRowSays /\ CurrentMeansAuthorized

\* A bulk acceptance never decides about a finding somebody decided about
\* before, of whatever assessment and however late.  (_preview, bulk)
BulkNeverOverrides ==
  \A i \in DOMAIN log : log[i].bulk /\ log[i].kind = "resolve" =>
    Undecided(SubSeq(log, 1, i - 1), log[i].finding)

\* What is committed to the project was asked for over the evidence that is
\* there at the commit, and the sources were verified after the last edit
\* unless they were edited between that check and the commit.  A code approval,
\* which commits in the session before the project database lets go, is bound
\* to the assessment, the reviews and the plan in force when it becomes durable.
\* (_write, _operation, code)
CommitsAreFenced ==
  [][/\ \A c \in Client : <<log, plan, artifacts>>' # <<log, plan, artifacts>> /\ writer = c =>
          /\ request[c].analysis = analysis /\ request[c].review = review
          /\ disk = analysis \/ c \in late
     /\ \A a \in Content : session[a] # None /\ session'[a].approval \notin {session[a].approval, None} =>
          session'[a].approval = Bound(analysis', review', plan'[analysis'])]_vars
=============================================================================
