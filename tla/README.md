# FormsLang: TLA+ models, checks and proofs

FormsLang turns Oracle Forms sources into a modernization assessment, a Blueprint,
converted code and an APEX application.  Much of the program is deterministic text
processing; what is hard to test is what happens *around* it: worker threads and
processes that share one project directory, SQLite transactions that commit one by
one, a descriptor file that mirrors a database row, a server that dies in the middle
of a run, requests that race each other, accounts with single-use secrets - and a few
algorithms (risk, dependency graph, page layout) whose corner cases outnumber any
set of examples.  This project models those parts in TLA+, checks them with TLC and
proves the most important results with TLAPS.  Paths such as `project_jobs.py` are
under `src/formslang/`.

## 1. Inventory

| Part | State it keeps | Operations | Hard behaviour | What makes it correct |
| --- | --- | --- | --- | --- |
| Worker lock (`project_lock.py`) | a `threading.Lock` per process, an OS lock on `.formslang/project.worker.lock`, thread-local re-entry keys | `project_worker_lock`, blocking or not | two lock levels, refusals, nested entries, process death | one holder; a nested exit releases nothing; every error path returns the thread lock |
| Project jobs (`project_jobs.py`, `project_service.py`, `project_analysis.py`, `project_freshness.py`, `project_conversion.py`) | `project_job` rows, the assessment pointer, the configuration revision, registered conversions | analyze, discover, check freshness, convert, relink, open, cancel | preconditions read with no lock, one transaction after another, cancellation between any two, recovery of what a dead process left | a live worker's job is the only unfinished one, cancellation wins, ends are final, what is published was found under the recorded configuration |
| Project store (`project_store.py`) | the descriptor row and its mirror `project.json` | open (with repair), `replace_roots`, `save_assessment` | a file and a row that cannot change together, late openers, lost commits | the mirror never goes back, an open leaves it right |
| Project HTTP (`project_http.py`) | worker threads, acknowledgement queues, stop and settled events | start, wait, poll, cancel, shutdown | an acknowledgement that times out while the worker claims its job, shutdown before the claim | nothing runs that nobody can stop; who is told that a job ended finds the project free |
| Reads and projections (`project_assessment.py`, `project_projection.py`) | an LRU cache by project and revision | read, build, clear | the freshness answer is older than the snapshot it marks | nothing is shown as current that was not checked |
| Intake (`project_intake.py`) | reservation, marker, database, index | create, retry, relink, open a moved project | a stop between any two of four places, and the retry | one project, not two; no descriptor without its grant |
| Import of older sessions (`project_migration.py`) | a backup, a migrated copy and a row per revision | import, retry | two imports at once with no lock, a stop between file and row, an original that is still written | a row names the copy that is there; a repeated import finishes |
| Review (`project_review.py`) | append-only decisions over an assessment revision | decide, bulk preview and apply | an assessment replaced between check and commit | a decision only ever stands over the evidence it was made on |
| Generation (`project_generation.py`) | plans and artifacts in the project database, keys and approvals in a module session, artifact folders | prepare, configure, approve, generate, package | two databases that commit in turn, files before their row | what is generated was approved under the evidence it names; fail closed |
| Workbench (`workbench.py`, `store.py` runs and proposals) | one job in memory, `job_run` and proposal rows on disk, AI explanations in memory | start, cancel, poll, open session, set provider, explain, discard | a thread beside request handlers, a crash between two commits, other processes opening the file | one provider call, progress that is real, caution that is kept |
| Unit analysis (`analysis.py`, `risk.py`, `behavior.py`) | a row per unit | refresh, fold in the model's opinion | processes of two releases and a model that write the same rows | the stored row is never less cautious than the rules |
| Test specifications (`testspec.py`, `store.py`) | cases, answers and runs | regenerate, answer, record a run | a merge in several statements | answers survive a regeneration |
| Code review of a session (`store.py`, `workbench.py`, `ui/review.py`) | proposals and decisions | convert, decide, export | a conversion after the decision, a decision without code | what is exported as approved is what was approved |
| Dependency graph (`depgraph.py`) | the saved graph of a session | build, save, load, walk | declarations and references in any order, bounded walks | walks show the nearest, nothing declared counts as missing |
| Accounts (`authstore.py`) | owners and members, sessions, tokens, one-time codes, a secret in the credential store | bootstrap, login, enroll, confirm, reset, roles | two requests with the same secret, a vault no rollback reaches, legal calls that lock everyone out | single use, last owner, the confirmed secret |
| APEX export (`apexlayout.py`, `ailayout.py`, `apexlang.py`) | the remembered choices, a layout plan per page, confirmed keys | export, preview, confirm a key | a kept plan replayed on a form that has changed, rounding of geometry to twelve columns | every control once and in cells that fit; the preview is the export |
| Parsing, Blueprint, database catalog, modernization views, reports, UI, command line | none of their own, or one write per request | pure functions | - | see section 8 |

How they interact: the UI and the command line call the services; every service
opens the project through the store, which may repair the mirror; analysis,
discovery, freshness and conversion run in worker threads under the worker lock
and end in one store transaction; review and generation read the current
assessment the store names and re-verify it inside their own transaction.  The
workbench is a separate path with a session file of its own, which holds the
proposals, the analyses, the test cases, the saved graph and the export settings.

`PROJECT.json` lists every component with the files it is made of, and every
hazard at its line with the properties that watch it.

## 2. Modules

| Module | Models | Composed with |
| --- | --- | --- |
| `WorkerMutex` | abstract specification: one holder, re-entry invisible, death releases | - |
| `WorkerLock` | `project_lock.py`, a step per lock operation | refines `WorkerMutex` |
| `ProjectJobs` | jobs and the operations that run as one | uses `WorkerMutex` as its lock (`Lock!Acquire`, ...) |
| `DescriptorPair` | abstract specification: row and mirror change as one | - |
| `ProjectMirror` | open, repair and publication in `project_store.py` | refines `DescriptorPair` |
| `ProjectReads` | the three steps of a read, the projection cache, and the writers around it | - |
| `ProjectHTTP` | worker threads, acknowledgements, polling, shutdown | extends `ProjectReads`: the worker's publications are what readers race |
| `ProjectIntake` | creation, relinking and opening through four places | - |
| `ProjectMigration` | the import of an older session through two files and a row | extends `ProjectIntake`, whose processes and projects it uses |
| `ProjectGovernance` | reviews, target plans, code approvals and generation, across two databases | uses `WorkerMutex` as its lock |
| `WorkbenchJob` | conversions, cancellation and explanations of the workbench, run records on disk | - |
| `DependencyGraph` | how the graph is built, saved, loaded and walked, as operators | - |
| `UnitAnalysis` | risk, behaviour and test cases of one unit, as operators | - |
| `UnitReview` | the session rows of both, written by processes of two releases, and the reviewed code | extends `DependencyGraph` and `UnitAnalysis` |
| `AuthStore` | accounts, sessions, second factor, resets | - |
| `PageLayout` | how a screen becomes a page of twelve columns, as operators | - |
| `PageExport` | exports of one session, the provider's plans and confirmed keys | extends `PageLayout` |
| `ProjectJobsProofs`, `ProjectMirrorProofs`, `ProjectHTTPProofs`, `ProjectMigrationProofs`, `ProjectGovernanceProofs`, `UnitReviewProofs`, `WorkbenchProofs`, `AuthStoreProofs` | theorems, section 5 | each extends the module it is named after; `ProjectHTTPProofs` is also about `ProjectReads`, `ProjectMigrationProofs` about `ProjectIntake`, `ProjectGovernanceProofs` about `WorkerLock`, and `WorkbenchProofs` about `WorkbenchJob` and `PageExport` |
| `MC*` | constants and symmetry for TLC, with a `.cfg` each | |

Conventions.  A variable carries the name of the table, column or attribute it
stands for; a `pc` names the gap between two atomic steps of a handler.  What is
atomic in the code is one action: a SQLite transaction, a section under a lock,
one system call on a file.  Variables marked `history` exist for properties only
and guard nothing.  A variable that `Init` chooses and no action changes
(`setting` in `ProjectJobs`, `ProjectGovernance` and `ProjectIntake`, `limit` in
`AuthStore`, `form` in `UnitReview`, `situation` in `ProjectHTTP`, `sample` in
`PageExport`) says what a behaviour is about: which requests are made, how many of
them, over which data.  It lets one run ask several small questions instead of
their product.  Operators that a comment calls a *slip* stand next to the
definition they differ from: each is a plausible bug, used by no specification, and
`PROJECT.json` names the property that notices it when it takes the definition's
place.

### WorkerLock

`threadLock`, `fileLock`, `keys` and `depth` are the process's `threading.Lock`, the
OS lock, the thread-local set of re-entered keys and the nesting of the blocking
entry.  A call goes `outside -> thread -> file -> inside -> unlocking -> outside`;
a refused non-blocking call leaves through `failing`, which gives the thread lock
back.  `Reenter`/`LeaveNested` are the early `yield` of a thread that is already
inside; `Crash(p)` is the death of a process, upon which the operating system
releases the file lock.

### ProjectJobs

One worker is one thread of one process that runs `ANALYZE`, `DISCOVER`,
`FRESHNESS`, `CONVERT`, `RELINK` or `OPEN`.  It reads its preconditions with no
lock (`Ask`, `ReadRest`; `DescriptorFirst` names the operations that read the
descriptor before the configuration revision), takes the lock or is refused,
recovers (`Recover` fails whatever an earlier process left), claims its row
(`Claim`, with the unique index on unfinished jobs and the check of the expected
revision and configuration), starts, hashes and parses its sources, compares
again, publishes in one fenced transaction and records its end.  `Cancel`,
`Edit` (a source folder changes) and `Crash` happen at any moment; `StoreBusy`,
`FinishBusy`, `Abandon` and `StopAnalysis` are the error paths.  A source folder
is reduced to a content up to its SHA-256; a revision to that content and whether
a registered conversion of exactly that content is used.

### ProjectMirror

Openers hold SQLite's SHARED lock while they compare `project.json` with the row;
repairs and publications replace the file under EXCLUSIVE.  `Publish` renames the
staged file before `Commit` makes the row durable, so between the two the mirror is
ahead; `LoseCommit`, `PublishFails` and `Tamper` put the mirror in doubt and are
counted in `disturbances`.  The refinement mapping shows an opener the mirror as of
the last moment it could have read it (`shown`), because nobody can open while a
publisher holds the lock.

### ProjectReads and ProjectHTTP

A read is `freshness answer -> snapshot -> projection`, each a step over rows that
analyses, checks and reviews of this and other processes change in between; the cache is
a sequence of entries, the least recently used first, that a build enters after it
worked with no lock held.  A `Post` is a request with the thread it starts: the handler
registers the worker, starts it and waits for the acknowledgement in a queue of one; the
wait may run out (`trouble`), and then the handler sets the stop event and answers.  The
worker opens, claims, acknowledges, works, meets its last checkpoint and publishes.  A
client polls the job until the row has ended and the worker has settled, or its own wait
runs out.  `close()` stops all registered workers, cancels their jobs and waits; an
SQLite error in between breaks it off.  Routing and the shape of answers are left out,
and what `ProjectJobs` says of the worker is not repeated.

### ProjectIntake

A creation reserves an identity in the index (or finds the pending one of the same
request), writes the marker, publishes the database with its link and finishes the
index row; with accounts the directory is managed, without them chosen.  `Stop`
may end a process between any two of these, twice; anybody may repeat a request.  A
relink grants, checks its revision and swaps; opening a moved descriptor remembers
it in a new place, which drops its grants.  A stop between `final.mkdir()` and the link of
the database (`project_store.py:158`) leaves a `.formslang` folder without a database,
and the repeated request is refused: creations are finished from the publication of
the database on, and `RetriesFinish` says exactly that.

### ProjectMigration

An import is `snapshot -> known -> backup -> module -> row`.  The snapshot is one
state of a file that the older release goes on writing (`WriteLegacy`); its rows decide
the revision and its bytes the name of the backup, so a file that is only written anew
has the same revision and another image.  A file is linked in where there is none
(`os.link`), or taken as it is when its bytes are the same; the primary key decides
between two rows.  No lock is held.  The release that migrates the copy is fixed, and
the validation of the schema, which only refuses, is left out.

### ProjectGovernance

A client reads what it shows its user in two reads with no lock (`ReadAssessment`,
`ReadScope`) and sends it back with one of seven operations: `decide` and `bulk` of
`ProjectReviewService`; `prepare`, `configure`, `approve` (the method `code`),
`generate` and `package` (`_generate_assessment_package`) of the generation service.
`Path` gives the steps of each in the order of its code; every step is one
transaction, one hashing of the sources or one file operation.  `check` and `verify`
hash the sources before and inside the transaction; `fence` and `open` compare the
evidence; `session`/`apply` begin and commit the transaction of the code session,
`open`/`commit` the one of the project database.  `configure` commits the project
first and `approve` the session first, and `Leave` may end an operation after any
step, which is a refusal, an exception or the death of the process alike.

Beside the clients there are the two writers who take no worker lock:
`ExternalReview` (`Store.review_blueprint`, which writes for the assessment it read,
by then perhaps an old one) and `LegacyCode` (the workbench in a code session).

Abstractions: one module of the project; a content of the sources stands for the
assessment made of it, with every finding different from one to the next; the code
revision is a counter, so that two states of the code that only happen to be equal
count as different (the digest would call them equal); evidence rules for bulk
acceptance other than *pending* and the blockers that depend on the parsed module
alone are taken as passed; the engine version is fixed, and so is the target, except
that a client may ask for the package as well.  A preparation that stopped between
its files and its row leaves the files, and the module cannot be prepared again for
that assessment: the code says so and fails closed (`prepare`, "An unregistered
preparation exists").

### WorkbenchJob

One server process.  A request handler holds the session lock from its first check
to its last assignment, so it is one action; `cancel_job` releases the lock before
it writes and is two (`ReadRun`, `RequestCancel`).  The conversion thread walks
`check -> convert -> save -> merge -> advance -> sync` for every unit and
`final -> finish -> stop` at the end, one commit or one section under the lock per
step.  `Break` is an exception of the loop, `LoseRecord` a database error in the
`finally` block, `Visit` another process that opens the session file (and thereby
reconciles it), `Crash`/`Restart` the server itself.  Explanations are one scope
kept in memory: a cancelled one keeps its provider busy until it answers.

### DependencyGraph, UnitAnalysis and UnitReview

`DependencyGraph` takes a form as what the parser and `plsql.analyze` read off it: lists
(`IsForm`).  It folds the mentions of `build` into nodes and edges in the order of the
code, first what the module declares (`StructureMentions`), then the units (`Registered`)
and what their text refers to (`Read`); `Reload` is saving and loading, `Walk` the bounded
search of the explorer, one `Turn` per node that may leave its queue.  `UnitAnalysis`
computes the risk of a unit from its factors, floors and damped counts, in hundredths,
its behaviour verdict and its test cases, under the catalog of an engine version; the
catalogs of the run are rows of `rules.py`.  `UnitReview` keeps the rows: a process
opens the session, with its XML or without, brings analyses, graph and cases up to
date unit by unit, and then serves reviewers and the model's opinions; several may do
so at once, of two releases, and each may stop anywhere.  `alone` is a history: the
code promises survival of answers to a process that has the session for itself.
`SavedGraphIsTrue` compares a graph with what the form declares, and its walks with
`Within`, a definition of "at most n edges away" that knows nothing of queues.

The code of a unit is how many proposals it has and its latest decision.  A reviewer
sends a text - empty, his own, or a proposal, perhaps an old one that his tab still
shows; `FinalCode` is `Store.view` and `Exported` what an export would contain.  A
decision freezes the analysis it was taken against (`facts`).  `read`, a history, is the
code the session had for the unit at that moment.

### AuthStore

A request is a thread that resolves its session once and works on what it read; each
`BEGIN IMMEDIATE` transaction is one step.  The second factor has its row in the
database and its secret in the credential store, so enrolment and removal have a variant
in which the transaction rolls back after the vault was written (`EnrollRolledBack`,
`DeletionRolledBack`).  `reused` is set when a code or token is accepted that had been
accepted, replaced, revoked or had expired.  Password hashing, token bytes and the audit
log are left out; the rate limiter only refuses.

### PageLayout and PageExport

`PageLayout` is the layout algorithm: rows by overlap, columns by rounding, wrapping
and pushing, labels, frames and captions drawn as text, tab pages, toolbars, grids of
records, hidden items and forms without a canvas.  Its operators were compared with
the implementation's output on random forms.  `PageExport` exports a form again and
again while its source is converted anew, as one of two pages, with and without the
assistant.  A plan that is not valid changes nothing, whatever is wrong with it, so
one answer "no plan" stands for all of them; the valid ones are enumerated.  `placed`
and `refused` are histories.  The layouts of the sample forms are a constant fixed by
`ExportAssumption`; `LayoutAssumption` says of them what the code has by the way it builds
a page: a list of regions with ids of their own, of which those the assistant is asked
about have cells with a control in each.  Nothing is assumed of item names: where two
controls of a region get the same one, `Called` finds the last, as the dict of
`apply_plan` does.

`PageIsWhole` names its exceptions, the three ways in which the code loses a visible
control (section 6): `Undrawn` (on a tab page its canvas does not declare; on a toolbar
canvas whose host is itself hung as a toolbar) and `LostToPlan` (after an accepted plan,
`Eclipsed` by a later control of the same name).  They are exact, not allowances: these
controls are on no page, every other one is there once, and the sample forms `astray` and
`namesakes` have some of each kind.

## 3. What the runs check

| Run | Question | Bounds |
| --- | --- | --- |
| `worker_lock` | do the two locks agree, do they implement the mutex, does a waiter see service and a non-blocking call return? | 3 threads in 2 processes, 1 nested entry, 2 deaths |
| `jobs` | live jobs, cancellation, pointer, evidence, ends and the CURRENT badge; does every admitted job end? | 2 workers in 2 processes, 2 jobs; either one folder with 1 edit and 1 death (text or binary), or two folders with 1 relink |
| `mirror` | does the mirror follow, do opens leave the truth, does the pair implement `DescriptorPair`, is a stale mirror repaired in the end? | 1 opener, 2 publishers, 2 roots, 2 relinks, 1 published assessment, 1 disturbance |
| `http` | who is told what, what still publishes after a stop, is what is shown as current checked, does everybody return? | 2 requests with workers, 1 polling client, shutdown; or 2 readers, 3 reads, 1 review, 2 foreign analyses or checks, a cache of 1 |
| `intake` | one project per request, grants, imports that are what their row names, and creations and imports that finish when repeated | 2 processes, 2 projects, 2 stops; default place with and without accounts, or two requests for one chosen directory; or 1 project, 2 revisions of an older session and 1 write to it |
| `governance` | is what is generated authorized, is what is shown as current still so, are commits fenced, is bulk acceptance subordinate to persons? | 2 clients; 1 finding, 1 review, 2 row keys, 2 code changes, 1 artifact; or 2 findings, 2 log rows, 2 contents, 1 edit |
| `workbench` | progress, cancellation, reuse, caution, records, one provider call, and everything settles | 2 units with one body, 1 run, 2 explanations, 2 providers, 1 death, 1 database error, 1 visit |
| `unit_review` | the rules are the floor, also of what decisions were taken against; answers survive; every saved graph and every walk over it is true | 5 forms; 1 process with up to 3 openings, or 2 overlapping; 2 releases; 1 answer and 1 opinion, or 2 opinions and 1 decision |
| `runs_erased` (violation) | does the record of a test run survive a regeneration? | as `unit_review` |
| `unread_code` (violation) | is the code an export ships the code its reviewer approved? | as `unit_review` |
| `accounts` | founded once and owned, secrets spent once, the vault agrees with the confirmed row | 2 requests; 1 user with an authenticator over 3 time steps, or 2 users with roles and resets; 1 recovery code, 2 sessions of which 1 may be open |
| `page_export` | is every page whole, are plans replayed, is the preview the export? | 10 forms of up to 5 controls and 3 revisions, 2 page numbers, 3 cells to propose, 3 exports |

Why these are enough.  The hazards are races of two actors, with a third step (a
crash, an edit, a cancellation) in between: two workers, two publishers or two requests
show every order of them, and a bound of one on the disturbing step lets it fall in
every gap once.  A second row, configuration or run is what tells *mine* from
*somebody else's*.  Several openers of one mirror are left to the proofs, which hold
for any number.  In `ProjectGovernance` the lock holder runs alone among the clients,
so a second client matters as the owner of a stale request, and one key confirmation
plus one approval are exactly the two code changes an artifact takes.  Three reads and
a cache of one suffice for an entry made by one request, kept through a second and
served to a third, and for its eviction.  One open session and one recovery code are
the limits at which eviction and exhaustion happen at once.  Three exports are one to
make a plan, one to disturb it and one to replay it.  The sample forms hold every kind of
region, every flag the layout rules can raise and every way to lose a control; what geometry they cannot cover was
compared on random forms.

Where a bound ends a behaviour the run says `CHECK_DEADLOCK FALSE`: the project
rests when nobody asks for anything, which the real one does too; `worker_lock`
checks deadlock.  Symmetry is used for interchangeable processes, threads, clients,
findings and keys, in runs without liveness only.

## 4. Fairness

- Lock: a thread that is scheduled finishes the call it is in (`WF Progress`).
  No order of grants is assumed; `flock` promises none, and a given waiter may
  starve.  Only that *somebody* is served is claimed.
- Jobs: a worker that was asked goes on (`WF Proceed`); a recovery that can be
  retried again and again succeeds, since SQLite contention is not for ever
  (`SF Recover`); somebody keeps opening the project (`WF Ask(w, "OPEN")`), which
  the interface does by polling.  Nothing is assumed of cancellations, edits or
  crashes.
- Mirror: the project keeps being opened and SQLite does not refuse one opener for
  ever (`SF OpenStep`); a publication goes on or gives up; from some time on opens
  are not cut short.
- HTTP: threads are scheduled and waits end with their time-outs (`WF` of each
  thread, handler and poller), and a shutdown that began goes on.  Nobody has to ask,
  cancel or close.
- Intake: a server finishes what it has begun (`WF` of the steps after a
  reservation or a snapshot), and the user repeats a request whose reservation is
  still there (`SF Reserve`) and an import (`SF Snapshot`), which is what the retry is
  for.
- Workbench: the conversion thread is scheduled, and a provider answers or times
  out (every provider call in `ai.py` and `convert.py` carries a timeout).

## 5. What is proved

The theorems hold for every set of threads, processes, clients, users, folders,
contents, requests, findings, tasks and providers and for every bound.  They assume
only the named assumption of their module (`LockAssumption`, `JobsAssumption`, ...):
constants of the right kind, sentinels that are not values, in `ProjectGovernance`
that an assessment has finitely many findings, and in `UnitReview` that what the parser
lists is a list (`IsForm`).  Two theorems, `EvidenceHolds` and
`ProvidersKeepPagesWhole`, have a hypothesis of their own, given below.  Every inductive invariant was checked with TLC on
the constants of its run before it was proved.

- `ProjectJobsProofs`.  The inductive invariant is built in layers, each proved with
  the ones below it: `Typed`; `Guarded` (a worker past `TakeLock` is the holder);
  `OwnsItsJob` (the row of a worker at work is its own, unfinished, and the only
  one); `RowsInOrder` (rows are filled in order and a terminal row agrees with its
  cancel flag).  `LiveJobsAreSafe`, `EndsAreFinal` and `CancellationsWin` follow.
  The layers are needed because the properties speak of job rows only, while what
  protects them is who holds the lock.
  The last layer is `Evidence`: rows name configurations there have been and what was
  explored is what they name (`Books`), a waiting discovery remembers the folder of the
  configuration it expects (`Waits`), a worker at work does what its row says under the
  configuration that cannot change meanwhile, and found what the sources held unless
  they were edited (`Works`), and a recorded check is right about its configuration
  (`ChecksAreTrue`).  From it `PointerAndJobsAgree`, `TheBadgeIsTrue` and
  `PublicationsAreTheSources`, and `EvidenceHolds`, whose hypothesis is that `DISCOVER`
  does not read the descriptor first: its callers name the configuration they have seen
  (`project_http.py:432`, `project_cli.py:157`).  Without it the statement is false, as
  section 6 says of `discover()`.
- `ProjectMirrorProofs`.  `IInv` = types, `Locks` (who may be where, given SQLite's
  locks), `Requests` (what a publisher in flight was asked, over which state),
  `Counts` (a disturbance is noted only after it happened), `Views` (what openers
  can see) and `OpenLeavesTheTruth`.  From it: the mirror follows, opens leave the
  truth, repairs are needed, publications compose (`PublicationsAreSerial`), and the
  implementation of `DescriptorPair`.
- `ProjectHTTPProofs`.  `ThreadIsTrue` says of each worker, by the place it is at,
  whether it holds the lock, is registered, acknowledged or known, and what its row may
  hold; `StopHolds` that one stopped in time still has a checkpoint ahead or did not
  publish; `PollIsTrue` what a client knows of the job it asked about; `Closing` that a
  shutdown has stopped, or has on its list, every registered worker.  The promises speak
  of what a client was told, and what makes them true is the order in which a thread
  unlocks, reports, leaves the registry and settles: hence an invariant over all its
  places.  `SettledMeansTheLockIsFree` and `AStoppedWorkerPublishesNothing` follow.
  For the reads, `ReadsInv` says what a read has gathered (`ReadIsTrue`) and that every
  cache entry is about what its key names and was vouched for if it says so
  (`CacheIsTrue`), through eviction, reordering and entries built late:
  `CurrentMeansChecked`.
- `ProjectMigrationProofs`.  For imports the inductive invariant ties what is published
  to the place an import is at (`Progressed`): its snapshot is among the backups from
  `module` on, and the copy under its revision is of that very snapshot at `row`, because
  a copy that is there is never replaced.  No step of `ProjectIntake` leads into an
  import (`IntakeStepsStayOutside`).  `ImportsAreWhole` follows.
  For creations and relinks the invariant is `Intake`: a process that creates works in
  the home of the project it reserved, whose row is still of its request and still grants
  its source, or was cleared (`TaskIsTrue`); a database says the same of its row, and is
  at home for as long as the reservation stands (`DatabaseIsTrue`); a request has one
  reservation (`ReservedOnce`).  Rows only `Mature` - they stay, lose a reservation once,
  and lose grants only when cleared - so what a process knew stays true between its
  steps.  `CreationsAreSingle` and `GrantsCoverTheSources` follow.  `Intake` does not
  mention the lock of the directory: for these two it is enough that the link refuses a
  place where a database is.
- `ProjectGovernanceProofs`.  `Ways`: a client is at a place of its operation's `Path`
  and holds the worker lock from `take` on.  `Transactions`: inside the transaction of
  the project database it is fenced, has verified the sources unless they changed since
  its last check (`late`), and its bulk rows decide over nobody.  `Makes`: what a
  generation has found out by its place, down to the copy its folder was exported from.
  `Artifacts`: what the row of an artifact says is so.  The heart is `Vouches`: at
  the code revision an approval names, the session has these keys and this approval, and
  every other revision is a later one - a revision is never used twice, the log only
  grows, so neither can be invalidated afterwards.  `EveryArtifactIsAuthorized`,
  `NoBulkAcceptanceOverrides` and the action property `EveryCommitIsFenced` follow.

  The lock beneath it, `WorkerLock`: `TypeOK /\ LocksAgree` is inductive, and
  `LocksAgree` is its own strengthening: it ties the OS lock, the thread lock, the keys
  and the depth to the place each thread is at.  `LockImplementsMutex` maps each step to a
  mutex step or a stutter; a crash of a process that holds nothing is a stutter.
  `GovernanceUsesTheMutex` is the other half: what the services' model does to its lock
  is a behaviour of the same mutex.
- `UnitReviewProofs`.  `Floors`: a row on record is above the rules of its release, an
  opinion in hand was taken of such a row, and whoever serves left no unit without one -
  needed because an opinion is folded into the row that was read, not the one that is
  there.  `Merging` is the lemma about `merge_ai`: its answer is the more cautious of two
  and keeps every doubt.  `AnalysesNeverSoften` follows.  `Regeneration`: what a process
  about to write cases read of them is what is there still, as long as nobody else serves;
  `RespecifyKeeps` says what `save_test_cases` then keeps.  With it the action property
  `RegenerationKeepsAnswers`.
- `UnitReviewProofs`, on the graph.  What `build` and the walks compute are folds, and
  the library's induction theorems take an operator, which the provers cannot supply; so
  a fold is first shown to go through a sequence of values (`Steps`), and that each of
  them is as it should be follows by a least counterexample (`LeastNumber`).  Building:
  every mention leaves a graph a graph (`IsGraph`: edges join two nodes it has, and no
  evidence counts twice) and a settled node settled (`Settled`: there, and not missing);
  the structure vouches for all that is declared (`DeclaredIsVouchedFor`).  Hence
  `BuildSettles`: nothing the form declares ever shows as missing, whatever the code says
  of it and in whatever order.  `ReloadIsTheGraph`: what is loaded is what was saved.
  Walking: `Searching` says of a search after `n` nodes left its queue that the queue is
  what was found since (`Queued`), each node once (`FoundOnce`), at its true distance and
  the nearer ones first (`ByDistance`), and that everything next to a node that left it
  has been found (`Exhausted`).  `ReachedIsSeen` then makes the search complete as far as
  it got, and `WalksAreNearestFirst` follows: for any graph, either way, any depth asked
  for, a walk that is cut off has dropped only what is no nearer than its last node.
  `GraphsAreSound` carries this to the saved graph and to the one each process holds:
  `SavedGraphsAreTrue` and `GraphsShownAreTrue`.
- `WorkbenchProofs`, on conversions.  `RowsAreTrue` says of every run record what holds for good; of
  the one under way `Progress` says what holds at each place of the conversion thread:
  which units are still to come (`UnitsLeft`), how far the counters in memory and on disk
  lag behind the proposals (`Counts`), which answer stands for a body (`Remembered`),
  which warnings are stored (`Warning`), how it ends (`Ends`).  `Standing` is about a
  record when nobody works on it.  `RunRecordsAreTrue` and `WarningsAreStored` follow;
  `OneRequestAtATime` from `OneAtATime`, and the action property `ADiscardIsFinal` from
  `Numbered`, because an explanation's number is never given twice.
- `WorkbenchProofs`, on exports.  `ExportInv` says that a plan kept for a page is one a
  provider gave for regions of the same description and valid for them (`PlacedByPlan`),
  and that the page of an export follows from the remembered choices, the kept plans and
  the confirmed keys alone (`WrittenByChoices`).  `PreviewsShowTheExport` and
  `PlacedPagesAreReplayed` follow, because two forms that are asked about in the same
  words have the same hard regions (`SameFormSamePage`).  `PlansOnlyRearrange` says, with
  no hypothesis, what a provider can do to a page: exactly the regions asked about are
  redrawn, in rows that follow, and a redrawn region has in one cell each of its controls
  that is not `Eclipsed`.  The controls of a plan are a flattened list of lists, so this
  is an induction over its length, done by a least counterexample (`FlattenIsLastPrefix`,
  `FlattenAligned`); which cell a name means is `CalledIsLast`; that a confirmed key binds
  where all columns of its block are is `KeysBindTogether`, applied to the page as it is
  after the plan.  `ProvidersKeepPagesWhole` follows (`OnceStays`, `RowsStay`) for forms
  whose page by the *rules* is whole, its hypothesis `RulesLayWhole`, which is about
  constants only.  For the sample forms `page_export` shows that; for every form it would
  take reasoning about the rounding of geometry to columns that the layout folds over.
- `AuthStoreProofs`.  `Identified` (a request at work serves a user) makes the founding
  and the last-owner rule hold across the gap between resolving a session and the
  transaction: `OrganizationsAreFoundedOnceAndOwned`.  `Secrecy` orders what was retired
  behind the watermark of the enrolment it belongs to (`RetiredIsBehind`), keeps secrets
  apart (`SecretsAreOwn`) and codes and tokens on the books unspent: with it nothing is
  accepted twice (`NoSecretIsAcceptedTwice`) and the vault agrees with the confirmed row
  through every rollback (`TheConfirmedSecretStays`).

Only model-checked: all liveness (`WaiterSeesService`, `EveryJobEnds`,
`StaleMirrorIsRepaired`, `EverythingSettles`, `EverybodyReturns`, `RetriesFinish`),
which TLAPS does not prove under fairness, and that the rules' own pages are whole, the
hypothesis of `ProvidersKeepPagesWhole`.

## 6. Findings

1. `runs_erased`: `save_test_cases` deletes every vanished case that is still pending,
   also one whose run was recorded, though the comment on `run_state` says a
   regeneration must not erase a run.
2. `unread_code`: a decision may come without code (the unit was not converted yet, the
   editor was empty, the request left it out).  `view` then falls back on the latest
   proposal, and `pending_tasks` converts approved units like others: a proposal made
   after the approval is exported as "approved by" the reviewer.  `docs/SPEC.md:43` and
   `ui/review.py:215` say that only approved code enters the application.

Met while reading, and not the subject of a run (most are left out of the models, or
the models have the behaviour the code has):

- Jobs and interface.  The key of a prepared projection (`project_projection.py:169`)
  names the freshness status but not whether `current_assessment` believed it, though
  the store is to remain authoritative (`:103`): a projection marked Stale can be served
  for a current assessment until it is evicted.  `discover()` called without
  preconditions reads the descriptor before its expected configuration.  `cancel_job`
  (`workbench.py:1018`) reads a run id under the lock and writes after it, to whatever
  session is open by then.  Opening a session file reconciles every row at `running`,
  also one whose server is alive.  The freshness worker ignores the stop event.
  `close()` is cut short by an SQLite error from a cancellation.  `last_job` of the
  project summary is answered without waiting for the worker to settle, so its client
  may still meet `ProjectBusy`.
- Store, intake and registry.  Adoption checks the row, replaces the file and marks the
  row (`projects.py:157`, `183`, `184`): of two adoptions that both passed the check,
  the later one replaces a file that is in use by then.  A legacy import stopped before
  its row, whose source is then only written anew, with the same rows, is refused for
  ever ("Existing migration artifact differs"), as `docs/project-model.md:111` allows;
  `RetriesFinish` excepts it.
- Session.  An opinion of the model is lost when a newer engine recomputes the row; two
  processes that convert one session can lose a merge; a case answered between the read
  and the delete of a regeneration by another process is deleted (`store.py:772`).
  Regression cases of one category with two origins collapse into one.  A package's
  specification and body share a graph key (`kind|owner|name`), so both show the last
  task.  A second reference to an absent object clears its missing mark
  (`depgraph.py:555`), against the docstring of `add_node`.  `open_module` refreshes
  analysis and graph but not the test cases.
- Settings.  `import_export` loads and saves the configuration without the lock that
  `save_settings` holds; a transient read failure of the credential store between the
  two deletes the stored key.
- Export.  A control is lost in three cases, against "a visible control lands exactly
  once" (`docs/layout-mapping-matrix.md:147`) and "every control of the region exactly
  once" (`:306`): item names can collide after a block's name is put before a shared one
  (`DEPT_ID`, and `ID` of `DEPT` when another block has an `ID`), and a plan that
  validates and applies its cells by name (`ailayout.py:216,284`) then drops a control; a
  control on an undeclared tab page is on no region; two windows that name each other's
  canvases as toolbars lose both.  `PageIsWhole` states these as its exceptions, and
  `page_export` reaches each.  A confirmed key is
  bound without comparing the block's table with the one it was confirmed for.
  `preview_html` draws page 1 whatever page was exported, so for another number it shows
  the rules' page (`PreviewIsTheExport` is stated for page 1).  A refused export has
  already overwritten the remembered choices.

## 7. Plan

Built so far, in this order: the lock, the jobs, the mirror; the workbench; review and
generation; accounts; intake; the session's analyses, graph and tests; the interface
with its reads; the export; code review; the import of older sessions.  What is left,
most valuable first:

1. An abstract specification of an approval that is all or nothing, implemented by the
   two transactions of `ProjectGovernance`, proved as a refinement.
2. An abstract specification of creation (reserved, published, registered), implemented
   by the four places of `ProjectIntake`; `Intake` is the invariant it needs.

## 8. Not modelled

Parsing of Forms XML and PL/SQL, the database catalog, the Blueprint, scoring and
rollups, the text of the exported package, reports and the user interface are sequential
text processing and rendering with no state of their own; they are the larger part of
the source, and the reason why these models cover a minor share of its lines.  A model
of them would repeat the program.  `modernization_model.py` and `architecture_policy.py`
say of themselves that they are experimental and not wired into the product.  Providers,
SQLcl and the operating system's credential store are external.  The formats of hashes
and ids are abstracted to equality: two contents are equal when their SHA-256 is.
Projects and permissions of the control plane, the configuration file, adoption, and
validation records of artifacts are single transactions or single writes beside the
modelled ones. `PROJECT.json` gives the reason for each component.
