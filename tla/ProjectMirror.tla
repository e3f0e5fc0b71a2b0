---------------------------- MODULE ProjectMirror ----------------------------
(***************************************************************************)
(* project_store.py: the project descriptor in the project database and    *)
(* its readable mirror, project.json.  Openers validate the mirror and     *)
(* repair it (open, sync_descriptor); publishers change the descriptor and *)
(* republish the mirror inside their transaction (replace_roots,           *)
(* save_assessment, _mirror_publication).  What keeps them apart is the    *)
(* SQLite lock of the database: SHARED while an opener compares, EXCLUSIVE *)
(* while anyone replaces the file.  The worker lock is not relied on here. *)
(***************************************************************************)
EXTENDS Integers

CONSTANTS
  Opener,            \* calls of ProjectStore.open, of any process
  Publisher,         \* calls of replace_roots or save_assessment
  Roots, Revision,   \* the two parts of a descriptor that change
  Broken,            \* project.json is not JSON, or is not there
  Rejected,          \* another project, an unknown format, oversized, unreadable
  None,              \* no actor, no file, no request
  MaxConfiguration,  \* bound: accepted relinks
  MaxDisturbances    \* bound: edits of the file, failed renames, lost commits

Actor == Opener \cup Publisher
Descriptor == [roots : Roots, revision : Revision]
Unusable == {Broken, Rejected}
Content == Descriptor \cup Unusable
Request ==
  [kind : {"relink"}, roots : Roots, base : Descriptor, configuration : Nat]
    \cup [kind : {"save"}, revision : Revision, base : Descriptor]

ASSUME MirrorAssumption ==
  /\ Opener \cap Publisher = {}
  /\ None \notin Actor /\ None \notin Descriptor /\ None \notin Request
  /\ Unusable \cap Descriptor = {}
  /\ Broken # Rejected
  /\ MaxConfiguration \in Nat
  /\ MaxDisturbances \in Nat

VARIABLES
  database,       \* the committed descriptor_json
  configuration,  \* the committed project_configuration.revision
  mirror,         \* the content of project.json
  shared,         \* openers inside their validation transaction
  writer,         \* the connection inside BEGIN EXCLUSIVE, or waiting in it
  pc,             \* where each call is
  staged,         \* the flushed .descriptor- file of each call
  request,        \* what each publisher was asked for, and over which state
  failed,         \* publishers whose state["failure"] is set
  disturbances,   \* how often the mirror was put in doubt
  restored,       \* their number when the mirror was last made or found right
  noted,          \* their number when each opener was done with the mirror
  shown           \* mirror and restored as an opener could last see them

vars == <<database, configuration, mirror, shared, writer, pc, staged, request,
          failed, disturbances, restored, noted, shown>>
storeVars == <<database, configuration>>
fileVars == <<mirror, disturbances, restored, shown>>

OpenerAt == {"idle", "compare", "stage", "lock", "sync", "open"}
PublisherAt == {"idle", "stage", "lock", "publish", "commit"}

TypeOK ==
  /\ database \in Descriptor
  /\ configuration \in 0..MaxConfiguration
  /\ mirror \in Content
  /\ shared \subseteq Opener
  /\ writer \in Actor \cup {None}
  /\ pc \in [Actor -> OpenerAt \cup PublisherAt]
  /\ staged \in [Actor -> Descriptor \cup {None}]
  /\ request \in [Publisher -> Request \cup {None}]
  /\ failed \subseteq Publisher
  /\ disturbances \in 0..MaxDisturbances
  /\ restored \in 0..MaxDisturbances
  /\ noted \in [Opener -> 0..MaxDisturbances]
  /\ shown \in [mirror : Content, restored : 0..MaxDisturbances]

Init ==
  /\ database \in Descriptor
  /\ configuration = 0
  /\ mirror = database
  /\ shared = {}
  /\ writer = None
  /\ pc = [a \in Actor |-> "idle"]
  /\ staged = [a \in Actor |-> None]
  /\ request = [p \in Publisher |-> None]
  /\ failed = {}
  /\ disturbances = 0
  /\ restored = 0
  /\ noted = [o \in Opener |-> 0]
  /\ shown = [mirror |-> database, restored |-> 0]

Goto(a, location) == pc' = [pc EXCEPT ![a] = location]
Stage(a, file) == staged' = [staged EXCEPT ![a] = file]
Note(o) == noted' = [noted EXCEPT ![o] = disturbances]

\* Openers see the file as it is now.
Show == shown' = [mirror |-> mirror', restored |-> restored']

\* What a request makes of a descriptor: it replaces its own part.
Apply(r, d) ==
  IF r.kind = "relink" THEN [d EXCEPT !.roots = r.roots]
                       ELSE [d EXCEPT !.revision = r.revision]

-----------------------------------------------------------------------------
(* Slips: what a plausible error would make of a definition below. No      *)
(* action of the specification uses them; each is put in the place of its  *)
(* original to see the property that must notice.                          *)

\* The validation reads without a transaction of its own.
BeginCheckUnlocked(o) ==
  /\ pc[o] = "idle"
  /\ writer = None
  /\ Goto(o, "compare")
  /\ UNCHANGED <<storeVars, fileVars, shared, writer, staged, request, failed, noted>>

\* A delayed reader publishes what it staged, without reading again under the lock.
SyncStaged(o) ==
  /\ pc[o] = "sync" /\ shared = {}
  /\ mirror' = staged[o]
  /\ restored' = disturbances
  /\ Show
  /\ writer' = None
  /\ Goto(o, "open") /\ Stage(o, None) /\ Note(o)
  /\ UNCHANGED <<storeVars, shared, request, failed, disturbances>>

\* A file that is no JSON is left to the next open.
IsCurrentOrBroken == mirror \in {database, Broken}

\* An error under the lock leaves its transaction open.
GiveUpKeepingLock(p) ==
  /\ pc[p] \in {"stage", "lock", "publish"}
  /\ Goto(p, "idle") /\ Stage(p, None)
  /\ request' = [request EXCEPT ![p] = None]
  /\ failed' = failed \ {p}
  /\ UNCHANGED <<storeVars, fileVars, shared, writer, noted>>

-----------------------------------------------------------------------------
(* ProjectStore.open and sync_descriptor.                                  *)

\* The SHARED lock is taken by the first read and held until the mirror has
\* been compared, so the row read now is the committed row at the comparison.
BeginCheck(o) ==
  /\ pc[o] = "idle"
  /\ writer = None
  /\ shared' = shared \cup {o}
  /\ Goto(o, "compare")
  /\ UNCHANGED <<storeVars, fileVars, writer, staged, request, failed, noted>>

\* mirror_current: the text is the canonical form of the row.
IsCurrent == mirror = database

\* A current mirror ends the open; the session connection opened next reads
\* nothing of it.
FindCurrent(o) ==
  /\ pc[o] = "compare"
  /\ IsCurrent
  /\ shared' = shared \ {o}
  /\ restored' = disturbances
  /\ shown' = [shown EXCEPT !.restored = disturbances]
  /\ Goto(o, "open") /\ Note(o)
  /\ UNCHANGED <<storeVars, mirror, writer, staged, request, failed, disturbances>>

FindStale(o) ==
  /\ pc[o] = "compare"
  /\ ~IsCurrent /\ mirror # Rejected
  /\ shared' = shared \ {o}
  /\ Goto(o, "stage")
  /\ UNCHANGED <<storeVars, fileVars, writer, staged, request, failed, noted>>

\* A mirror of another project or format stops the open and is not repaired.
Reject(o) ==
  /\ pc[o] = "compare"
  /\ mirror = Rejected
  /\ shared' = shared \ {o}
  /\ Goto(o, "idle")
  /\ UNCHANGED <<storeVars, fileVars, writer, staged, request, failed, noted>>

\* The copy is flushed before the lock is asked for.
StageRepair(o) ==
  /\ pc[o] = "stage"
  /\ writer = None
  /\ Stage(o, database)
  /\ Goto(o, "lock")
  /\ UNCHANGED <<storeVars, fileVars, shared, writer, request, failed, noted>>

\* BEGIN EXCLUSIVE: no other writer, and no new reader while the readers that
\* are inside drain (SQLite's RESERVED and PENDING).
TakeLock(a, next) ==
  /\ pc[a] = "lock"
  /\ writer = None
  /\ writer' = a
  /\ Goto(a, next)
  /\ UNCHANGED <<storeVars, fileVars, shared, staged, request, failed, noted>>

\* Under the lock the row and the mirror are read again; the copy is staged
\* again if the row moved, and the rename is the last step.
Sync(o) ==
  /\ pc[o] = "sync" /\ shared = {}
  /\ mirror' = database
  /\ restored' = disturbances
  /\ Show
  /\ writer' = None
  /\ Goto(o, "open") /\ Stage(o, None) /\ Note(o)
  /\ UNCHANGED <<storeVars, shared, request, failed, disturbances>>

Close(o) ==
  /\ pc[o] = "open"
  /\ Goto(o, "idle")
  /\ UNCHANGED <<storeVars, fileVars, shared, writer, staged, request, failed, noted>>

\* ProjectBusy after the busy timeout, an I/O error, or the death of the process:
\* the locks and the staged copy are gone and nothing was replaced.
GiveUpOpen(o) ==
  /\ pc[o] \in {"compare", "stage", "lock", "sync"}
  /\ pc[o] = "compare" => mirror # Rejected
  /\ shared' = shared \ {o}
  /\ writer' = IF writer = o THEN None ELSE writer
  /\ Goto(o, "idle") /\ Stage(o, None)
  /\ UNCHANGED <<storeVars, fileVars, request, failed, noted>>

-----------------------------------------------------------------------------
(* replace_roots, save_assessment and _mirror_publication.                 *)

\* The caller's precondition is what it saw of the project some time before.
Ask(p) ==
  /\ pc[p] = "idle"
  /\ \/ \E r \in Roots : request' = [request EXCEPT ![p] =
          [kind |-> "relink", roots |-> r, base |-> database, configuration |-> configuration]]
     \/ \E v \in Revision : request' = [request EXCEPT ![p] =
          [kind |-> "save", revision |-> v, base |-> database]]
  /\ Goto(p, "stage")
  /\ UNCHANGED <<storeVars, fileVars, shared, writer, staged, failed, noted>>

\* The descriptor is read and its successor flushed before the lock; a copy
\* that cannot be staged does not stop the publication.
StageCopy(p) ==
  /\ pc[p] = "stage"
  /\ writer = None
  /\ \/ Stage(p, Apply(request[p], database)) /\ failed' = failed
     \/ failed' = failed \cup {p} /\ staged' = staged
  /\ Goto(p, "lock")
  /\ UNCHANGED <<storeVars, fileVars, shared, writer, request, noted>>

\* The comparison with what the caller saw, made again under the lock.
Accepted(p) ==
  \/ request[p].kind = "relink" /\ request[p].configuration = configuration
  \/ /\ request[p].kind = "save"
     /\ request[p].base.revision = database.revision

\* The transaction writes its part over the row it reads under the lock, whatever
\* it had staged before.
Updated(p) == Apply(request[p], database)

Refuse(p) ==
  /\ pc[p] = "publish" /\ shared = {}
  /\ ~Accepted(p)
  /\ writer' = None
  /\ Goto(p, "idle") /\ Stage(p, None)
  /\ request' = [request EXCEPT ![p] = None]
  /\ failed' = failed \ {p}
  /\ UNCHANGED <<storeVars, fileVars, shared, noted>>

\* publish(): the staged copy, or a new one if the row moved, is renamed over
\* project.json as the last step before the commit.
Publish(p) ==
  /\ pc[p] = "publish" /\ shared = {}
  /\ Accepted(p)
  /\ p \notin failed
  /\ request[p].kind = "relink" => configuration < MaxConfiguration
  /\ Stage(p, Updated(p))
  /\ mirror' = Updated(p)
  /\ restored' = disturbances
  /\ Goto(p, "commit")
  /\ UNCHANGED <<storeVars, shared, writer, request, failed, disturbances, noted, shown>>

\* No copy was staged, or the rename failed: remembered, and committed all the same.
PublishFails(p) ==
  /\ pc[p] = "publish" /\ shared = {}
  /\ Accepted(p)
  /\ request[p].kind = "relink" => configuration < MaxConfiguration
  /\ disturbances < MaxDisturbances
  /\ failed' = failed \cup {p}
  /\ disturbances' = disturbances + 1
  /\ Goto(p, "commit")
  /\ UNCHANGED <<storeVars, mirror, restored, shown, shared, writer, staged, request, noted>>

\* The row is visible; the caller hears of a mirror that failed only now.
Commit(p) ==
  /\ pc[p] = "commit"
  /\ database' = Updated(p)
  /\ configuration' = configuration + (IF request[p].kind = "relink" THEN 1 ELSE 0)
  /\ shown' = [mirror |-> mirror, restored |-> restored]
  /\ writer' = None
  /\ Goto(p, "idle") /\ Stage(p, None)
  /\ request' = [request EXCEPT ![p] = None]
  /\ failed' = failed \ {p}
  /\ UNCHANGED <<mirror, shared, disturbances, restored, noted>>

\* The commit fails, or the process dies between the rename and the commit: the
\* row rolls back under a mirror that is already new.
LoseCommit(p) ==
  /\ pc[p] = "commit"
  /\ disturbances < MaxDisturbances
  /\ disturbances' = disturbances + 1
  /\ shown' = [mirror |-> mirror, restored |-> restored]
  /\ writer' = None
  /\ Goto(p, "idle") /\ Stage(p, None)
  /\ request' = [request EXCEPT ![p] = None]
  /\ failed' = failed \ {p}
  /\ UNCHANGED <<storeVars, mirror, shared, restored, noted>>

\* ProjectBusy, a job that owns or has lost the publication (see ProjectJobs),
\* an SQL error, or the death of the process, before anything was replaced.
GiveUpPublication(p) ==
  /\ pc[p] \in {"stage", "lock", "publish"}
  /\ writer' = IF writer = p THEN None ELSE writer
  /\ Goto(p, "idle") /\ Stage(p, None)
  /\ request' = [request EXCEPT ![p] = None]
  /\ failed' = failed \ {p}
  /\ UNCHANGED <<storeVars, fileVars, shared, noted>>

\* Somebody edits, deletes or overwrites project.json, whoever holds the database.
Tamper(content) ==
  /\ disturbances < MaxDisturbances
  /\ disturbances' = disturbances + 1
  /\ mirror' = content
  /\ shown' = [shown EXCEPT !.mirror = content]
  /\ UNCHANGED <<storeVars, restored, shared, writer, pc, staged, request, failed, noted>>

-----------------------------------------------------------------------------
OpenStep(o) ==
  \/ BeginCheck(o) \/ FindCurrent(o) \/ FindStale(o) \/ Reject(o)
  \/ StageRepair(o) \/ TakeLock(o, "sync") \/ Sync(o) \/ Close(o)

PublishStep(p) ==
  \/ StageCopy(p) \/ TakeLock(p, "publish") \/ Refuse(p)
  \/ Publish(p) \/ PublishFails(p) \/ Commit(p) \/ LoseCommit(p)

Next ==
  \/ \E o \in Opener : OpenStep(o) \/ GiveUpOpen(o)
  \/ \E p \in Publisher : PublishStep(p) \/ Ask(p) \/ GiveUpPublication(p)
  \/ \E content \in Content : Tamper(content)

Spec == Init /\ [][Next]_vars

\* The project keeps being opened (every request opens it), SQLite does not
\* refuse one opener for ever, a publication goes on or gives up once it is
\* asked, and from some time on opens are no longer cut short.
FairSpec ==
  /\ Spec
  /\ \A o \in Opener : SF_vars(OpenStep(o))
  /\ \A p \in Publisher : WF_vars(PublishStep(p) \/ GiveUpPublication(p))
  /\ <>[][\A o \in Opener : ~GiveUpOpen(o)]_vars

-----------------------------------------------------------------------------
\* The mirror was not made right since it was last disturbed.
Disturbed == disturbances > restored

\* Outside a publication's own window the mirror says what the database says,
\* unless the file was edited, could not be written, or a commit was lost; an
\* opener that was late in its repair never brings an older descriptor back.
\* (_mirror_publication, sync_descriptor)
MirrorFollowsDatabase ==
  ~Disturbed /\ (\A p \in Publisher : pc[p] # "commit") => mirror = database

\* An open that returned left a mirror that was right, whoever published while
\* it compared, staged and waited: it differs now only if it was disturbed
\* after this opener was done with it.
OpenLeavesTheTruth ==
  \A o \in Opener :
    (pc[o] = "open" /\ noted[o] = disturbances) => shown.mirror = database

\* No open finds a mirror that a live publication has only not caught up with
\* yet (test_open_never_sees_the_database_ahead_of_its_mirror): to repair one,
\* it must really have been disturbed.
NoNeedlessRepair ==
  [][\A o \in Opener : (pc[o] = "compare" /\ pc'[o] = "stage") => Disturbed]_vars

\* Two publications compose: each changes its own part of the descriptor, over
\* the value its caller saw, and keeps what the other wrote while it waited.
PublicationsCompose ==
  [][\A p \in Publisher : (pc[p] = "commit" /\ database' # database /\ pc'[p] = "idle") =>
       IF request[p].kind = "relink"
       THEN /\ database'.revision = database.revision
            /\ database.roots = request[p].base.roots
       ELSE /\ database'.roots = database.roots
            /\ database.revision = request[p].base.revision]_vars

\* The store as whoever opens it sees it.
Pair == INSTANCE DescriptorPair
          WITH mirror <- shown.mirror, disturbed <- disturbances > shown.restored
ImplementsDescriptorPair == Pair!Spec

\* A mirror that is stale, missing or broken is repaired in the end; one that
\* names another project is left for its owner (docs/project-model.md).
StaleMirrorIsRepaired ==
  (mirror # database) ~> (mirror = database \/ mirror = Rejected)
=============================================================================
