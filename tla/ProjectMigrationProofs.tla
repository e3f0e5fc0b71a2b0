------------------------ MODULE ProjectMigrationProofs ------------------------
(***************************************************************************)
(* The invariants of ProjectMigration and of ProjectIntake beside it, for  *)
(* every set of processes, requests, directories, sources and revisions    *)
(* and for every bound.                                                    *)
(*                                                                         *)
(* First, an imported session is what its row names: IInv says what an     *)
(* import has published by the place it is at; the steps of ProjectIntake  *)
(* matter only in that none of them leads into an import.  Then, a request *)
(* has one project and a descriptor's sources are granted: Intake says     *)
(* what a creation knows at each place and what a row and a database say   *)
(* of one another.                                                         *)
(***************************************************************************)
EXTENDS ProjectMigration, FiniteSetTheorems, TLAPS

ImportPc == {"known", "backup", "module", "row"}

Shaped ==
  /\ task = [x \in Process |-> task[x]]
  /\ \A x \in Process : "pc" \in DOMAIN task[x]

Typed ==
  /\ legacy \in Image
  /\ staged \in [Process -> Image \cup {None}]
  /\ modules \in [Rows -> Image \cup {None}]
  /\ sessions \in [Rows -> Image \cup {None}]

\* A process in an import has a snapshot.
Staged == \A x \in Process : staged[x] = None => task[x].pc \notin ImportPc

\* What an import has published when it is at its last two places.
Progressed ==
  \A x \in Process :
    /\ task[x].pc \in {"module", "row"} => staged[x] \in backups
    /\ task[x].pc = "row" => modules[staged[x].rows] = staged[x]

IInv == Shaped /\ Typed /\ Staged /\ Progressed /\ ImportedIsWhole

-----------------------------------------------------------------------------
(* Steps of a process *)

\* Only x moves, and not into an import.
Outside(x) ==
  /\ \A y \in Process \ {x} : task'[y] = task[y]
  /\ task'[x].pc \notin ImportPc

LEMMA BeginMoves ==
  ASSUME Shaped, NEW x \in Process, NEW t, "pc" \in DOMAIN t, Begin(x, t)
  PROVE  /\ Shaped'
         /\ task'[x] = t
         /\ \A y \in Process \ {x} : task'[y] = task[y]
BY DEF Shaped, Begin

LEMMA GotoMoves ==
  ASSUME Shaped, NEW x \in Process, NEW pc, Goto(x, pc)
  PROVE  /\ Shaped'
         /\ task'[x].pc = pc
         /\ \A y \in Process \ {x} : task'[y] = task[y]
BY DEF Shaped, Goto

LEMMA IdleHasPlace == "pc" \in DOMAIN Idle /\ Idle.pc = "idle"
BY DEF Idle

LEMMA ReturnMoves ==
  ASSUME Shaped, NEW x \in Process, Return(x)
  PROVE  Shaped' /\ task'[x].pc = "idle" /\ \A y \in Process \ {x} : task'[y] = task[y]
BY BeginMoves, IdleHasPlace DEF Return

\* A process of ProjectIntake that takes a step stays outside of imports.
LEMMA IntakeStepsStayOutside ==
  ASSUME Shaped, NEW x \in Process,
         \/ Serving(x) \/ Stop(x)
         \/ \E q \in setting.requests : Reserve(x, q)
         \/ \E p \in Pid, s \in setting.relinks : StartRelink(x, p, s)
         \/ \E d \in Place : OpenLocator(x, d)
  PROVE  Shaped' /\ Outside(x)
<1>r. ASSUME Return(x) PROVE Shaped' /\ Outside(x)
  BY <1>r, ReturnMoves DEF Outside, ImportPc
<1>g. ASSUME NEW pc \in {"mark", "publish", "link", "register", "finish", "swap"}, Goto(x, pc)
      PROVE  Shaped' /\ Outside(x)
  BY <1>g, GotoMoves DEF Outside, ImportPc
<1>b. ASSUME NEW t, "pc" \in DOMAIN t, t.pc \in {"lock", "swap", "grant", "remember"}, Begin(x, t)
      PROVE  Shaped' /\ Outside(x)
  BY <1>b, BeginMoves DEF Outside, ImportPc
<1>a. \A t : AfterDatabase(t) \in {"register", "finish"}
  BY DEF AfterDatabase
<1>1. CASE Lock(x)
  BY <1>1, <1>g DEF Lock
<1>2. CASE Busy(x) \/ Foreign(x) \/ Finish(x) \/ Swap(x) \/ Stop(x) \/ \E a \in Actors : Remember(x, a)
  BY <1>2, <1>r DEF Busy, Foreign, Finish, Swap, Stop, Remember
<1>3. CASE Mark(x)
  BY <1>3, <1>g DEF Mark
<1>4. CASE Resume(x)
  BY <1>4, <1>r, <1>g, <1>a DEF Resume
<1>5. CASE MakeDirectory(x)
  BY <1>5, <1>r, <1>g DEF MakeDirectory
<1>6. CASE Link(x)
  BY <1>6, <1>r, <1>g, <1>a DEF Link
<1>7. CASE Register(x)
  BY <1>7, <1>g DEF Register
<1>8. CASE Grant(x)
  BY <1>8, <1>g DEF Grant
<1>9. CASE \E q \in setting.requests : Reserve(x, q)
  <2>1. PICK q \in setting.requests, p \in Pid :
          Begin(x, [Idle EXCEPT !.pc = "lock", !.request = q, !.pid = p, !.place = HomeOf(q, p)])
    BY <1>9 DEF Reserve
  <2> QED BY <2>1, <1>b DEF Idle
<1>10. CASE \E p \in Pid, s \in setting.relinks : StartRelink(x, p, s)
  <2>1. PICK p \in Pid, s \in setting.relinks : \E c \in 0..disk[Located(p)].db.config :
          Begin(x, [Idle EXCEPT !.pc = IF setting.managed THEN "swap" ELSE "grant",
                                !.pid = p, !.source = s, !.config = c])
    BY <1>10 DEF StartRelink
  <2> QED BY <2>1, <1>b DEF Idle
<1>11. CASE \E d \in Place : OpenLocator(x, d)
  <2>1. PICK d \in Place :
          Begin(x, [Idle EXCEPT !.pc = "remember", !.pid = disk[d].db.pid, !.place = d])
    BY <1>11 DEF OpenLocator
  <2> QED BY <2>1, <1>b DEF Idle
<1> QED
  BY <1>1, <1>2, <1>3, <1>4, <1>5, <1>6, <1>7, <1>8, <1>9, <1>10, <1>11 DEF Serving, Creating

\* So it changes nothing of the imports that run beside it.
LEMMA IntakeKeepsImports ==
  ASSUME IInv, Next, UNCHANGED migration,
         \A x \in Process : staged[x] # None => task'[x] = task[x]
  PROVE  IInv'
<1>1. Shaped' /\ \A x \in Process : task'[x] = task[x] \/ task'[x].pc \notin ImportPc
  <2>1. CASE \E d \in Place, e \in Free : Move(d, e)
    BY <2>1 DEF Move, IInv, Shaped
  <2>2. ASSUME NEW x \in Process,
               \/ Serving(x) \/ Stop(x)
               \/ \E q \in setting.requests : Reserve(x, q)
               \/ \E p \in Pid, s \in setting.relinks : StartRelink(x, p, s)
               \/ \E d \in Place : OpenLocator(x, d)
        PROVE  Shaped' /\ Outside(x)
    BY <2>2, IntakeStepsStayOutside DEF IInv
  <2> QED BY <2>1, <2>2 DEF Next, Outside
<1>2. Typed' /\ ImportedIsWhole'
  BY DEF IInv, Typed, ImportedIsWhole, migration, imported
<1>3. Staged'
  BY <1>1 DEF IInv, Staged, migration, imported
<1>4. Progressed'
  BY <1>1 DEF IInv, Progressed, ImportPc, migration, imported
<1> QED BY <1>1, <1>2, <1>3, <1>4 DEF IInv

-----------------------------------------------------------------------------
(* Steps of an import *)

LEMMA InitIsInvariant == MigrationInit => IInv
<1> SUFFICES ASSUME MigrationInit PROVE IInv
  OBVIOUS
<1>1. Shaped /\ \A x \in Process : task[x].pc = "idle"
  BY DEF MigrationInit, Init, Idle, Shaped
<1>2. Typed
  <2>1. (CHOOSE r \in Rows : TRUE) \in Rows
    BY MigrationAssumption
  <2> QED BY <2>1, MigrationAssumption DEF MigrationInit, Typed, Image
<1>3. Staged /\ Progressed
  BY <1>1 DEF MigrationInit, Staged, Progressed, ImportPc
<1>4. ImportedIsWhole
  BY DEF MigrationInit, ImportedIsWhole
<1> QED BY <1>1, <1>2, <1>3, <1>4 DEF IInv

\* At its places an import has a snapshot of the older session.
LEMMA SnapshotIsImage ==
  ASSUME IInv, NEW x \in Process, task[x].pc \in ImportPc
  PROVE  staged[x] \in Image /\ Revision(x) \in Rows
BY DEF IInv, Typed, Staged, Revision, Image

LEMMA SnapshotKeeps ==
  ASSUME IInv, NEW x \in Process, Snapshot(x)
  PROVE  IInv'
<1>1. /\ Shaped'
      /\ task'[x].pc = "known"
      /\ \A y \in Process \ {x} : task'[y] = task[y]
  <2> DEFINE t == [Idle EXCEPT !.pc = "known", !.pid = setting.target]
  <2>1. "pc" \in DOMAIN t /\ t.pc = "known"
    BY DEF Idle
  <2>2. Begin(x, t)
    BY DEF Snapshot
  <2> QED BY <2>1, <2>2, BeginMoves DEF IInv
<1>2. Typed'
  BY DEF IInv, Typed, Snapshot, imported
<1>3. Staged'
  BY <1>1, MigrationAssumption DEF IInv, Typed, Staged, Snapshot
<1>4. Progressed'
  BY <1>1 DEF IInv, Typed, Progressed, Snapshot, imported
<1>5. ImportedIsWhole'
  BY DEF IInv, ImportedIsWhole, Snapshot, imported
<1> QED BY <1>1, <1>2, <1>3, <1>4, <1>5 DEF IInv

\* Whoever leaves an import forgets the snapshot and leaves the files alone.
LEMMA EndKeeps ==
  ASSUME IInv, NEW x \in Process, EndImport(x), UNCHANGED <<legacy, backups, modules>>,
         sessions' \in [Rows -> Image \cup {None}], ImportedIsWhole'
  PROVE  IInv'
<1>1. Shaped' /\ task'[x].pc = "idle" /\ \A y \in Process \ {x} : task'[y] = task[y]
  BY ReturnMoves DEF EndImport, IInv
<1>2. Typed'
  BY DEF IInv, Typed, EndImport
<1>3. Staged' /\ Progressed'
  BY <1>1 DEF IInv, Typed, Staged, Progressed, EndImport, ImportPc
<1> QED BY <1>1, <1>2, <1>3 DEF IInv

\* Whoever goes on has the same snapshot, and published what its place says.
LEMMA GoingOnKeeps ==
  ASSUME IInv, NEW x \in Process, NEW pc, Goto(x, pc), task[x].pc \in ImportPc,
         UNCHANGED <<legacy, staged, sessions>>,
         modules' \in [Rows -> Image \cup {None}], ImportedIsWhole',
         backups \subseteq backups',
         \A r \in Rows : modules[r] # None => modules'[r] = modules[r],
         pc \in {"module", "row"} => staged[x] \in backups',
         pc = "row" => modules'[Revision(x)] = staged[x]
  PROVE  IInv'
<1>1. Shaped' /\ task'[x].pc = pc /\ \A y \in Process \ {x} : task'[y] = task[y]
  BY GotoMoves DEF IInv
<1>2. Typed'
  BY DEF IInv, Typed
<1>3. Staged'
  BY <1>1, SnapshotIsImage, MigrationAssumption DEF IInv, Staged
<1>4. ASSUME NEW y \in Process
      PROVE  /\ task'[y].pc \in {"module", "row"} => staged'[y] \in backups'
             /\ task'[y].pc = "row" => modules'[staged'[y].rows] = staged'[y]
  <2>1. CASE y = x
    BY <1>1, <2>1 DEF Revision
  <2>2. CASE y # x /\ task[y].pc = "row"
    <3>1. staged[y] \in Image /\ staged[y].rows \in Rows
      BY <2>2, SnapshotIsImage DEF ImportPc, Revision
    <3>2. modules[staged[y].rows] = staged[y] /\ staged[y] \in backups
      BY <2>2 DEF IInv, Progressed
    <3> QED BY <1>1, <2>2, <3>1, <3>2, MigrationAssumption
  <2>3. CASE y # x /\ task[y].pc # "row"
    BY <1>1, <2>3 DEF IInv, Progressed
  <2> QED BY <2>1, <2>2, <2>3
<1>5. Progressed'
  BY <1>4 DEF Progressed
<1> QED BY <1>1, <1>2, <1>3, <1>5 DEF IInv

LEMMA KnownKeeps ==
  ASSUME IInv, NEW x \in Process, Known(x)
  PROVE  IInv'
<1>1. task[x].pc \in ImportPc
  BY DEF Known, At, ImportPc
<1>2. ImportedIsWhole'
  BY DEF IInv, ImportedIsWhole, Known, imported
<1>3. CASE EndImport(x)
  BY <1>2, <1>3, EndKeeps DEF Known, imported, IInv, Typed
<1>4. CASE Goto(x, "backup") /\ UNCHANGED staged
  BY <1>1, <1>2, <1>4, GoingOnKeeps DEF Known, imported, IInv, Typed
<1> QED BY <1>3, <1>4 DEF Known

LEMMA PublishBackupKeeps ==
  ASSUME IInv, NEW x \in Process, PublishBackup(x)
  PROVE  IInv'
<1>1. task[x].pc \in ImportPc
  BY DEF PublishBackup, At, ImportPc
<1>2. ImportedIsWhole'
  BY DEF IInv, ImportedIsWhole, PublishBackup
<1>3. /\ Goto(x, "module") /\ UNCHANGED <<legacy, staged, sessions, modules>>
      /\ backups \subseteq backups' /\ staged[x] \in backups'
  BY DEF PublishBackup
<1> QED BY <1>1, <1>2, <1>3, GoingOnKeeps DEF IInv, Typed

\* A copy that is there stays: the one linked in is the first or the same.
LEMMA PublishModuleKeeps ==
  ASSUME IInv, NEW x \in Process, PublishModule(x)
  PROVE  IInv'
<1>1. task[x].pc \in ImportPc /\ staged[x] \in Image /\ Revision(x) \in Rows
  BY SnapshotIsImage DEF PublishModule, At, ImportPc
<1>2. CASE Published(x) \in {None, staged[x]}
  <2>1. /\ modules' = [modules EXCEPT ![Revision(x)] = staged[x]]
        /\ Goto(x, "row") /\ UNCHANGED <<legacy, staged, sessions, backups>>
    BY <1>2 DEF PublishModule
  <2>2. /\ modules' \in [Rows -> Image \cup {None}] /\ modules'[Revision(x)] = staged[x]
        /\ \A r \in Rows : modules[r] # None => modules'[r] = modules[r]
    BY <1>1, <1>2, <2>1 DEF IInv, Typed, Published
  <2>3. ImportedIsWhole'
    BY <2>1, <2>2 DEF IInv, ImportedIsWhole
  <2>4. staged[x] \in backups'
    BY <2>1 DEF IInv, Progressed, PublishModule, At
  <2> QED BY <1>1, <2>1, <2>2, <2>3, <2>4, GoingOnKeeps
<1>3. CASE Published(x) \notin {None, staged[x]}
  <2>1. EndImport(x) /\ UNCHANGED <<legacy, sessions, backups, modules>>
    BY <1>3 DEF PublishModule
  <2>2. ImportedIsWhole'
    BY <2>1 DEF IInv, ImportedIsWhole
  <2> QED BY <2>1, <2>2, EndKeeps DEF IInv, Typed
<1> QED BY <1>2, <1>3

\* The row names the snapshot the copy was made of.
LEMMA AddRowKeeps ==
  ASSUME IInv, NEW x \in Process, AddRow(x)
  PROVE  IInv'
<1>1. staged[x] \in Image /\ Revision(x) \in Rows
  BY SnapshotIsImage DEF AddRow, At, ImportPc
<1>2. modules[Revision(x)] = staged[x] /\ staged[x] \in backups /\ staged[x].rows = Revision(x)
  BY DEF IInv, Progressed, AddRow, At, Revision
<1>3. EndImport(x) /\ UNCHANGED <<legacy, backups, modules>>
  BY DEF AddRow
<1>4. \/ UNCHANGED sessions
      \/ sessions' = [sessions EXCEPT ![Revision(x)] = staged[x]]
  BY DEF AddRow
<1>5. sessions' \in [Rows -> Image \cup {None}]
  BY <1>1, <1>4 DEF IInv, Typed
<1>6. ImportedIsWhole'
  BY <1>1, <1>2, <1>3, <1>4 DEF IInv, Typed, ImportedIsWhole
<1> QED BY <1>3, <1>5, <1>6, EndKeeps

LEMMA StopKeeps ==
  ASSUME IInv, NEW x \in Process, StopImport(x)
  PROVE  IInv'
<1>1. EndImport(x) /\ UNCHANGED <<legacy, sessions, backups, modules>>
  BY DEF StopImport, Stop, EndImport, imported
<1>2. ImportedIsWhole'
  BY <1>1 DEF IInv, ImportedIsWhole
<1> QED BY <1>1, <1>2, EndKeeps DEF IInv, Typed

LEMMA WriteKeeps ==
  ASSUME IInv, NEW r \in Rows, WriteLegacy(r)
  PROVE  IInv'
<1>1. legacy' \in Image
  BY MigrationAssumption DEF IInv, Typed, Image, WriteLegacy
<1> QED BY <1>1 DEF IInv, Shaped, Typed, Staged, Progressed, ImportedIsWhole, WriteLegacy, imported, vars

LEMMA NextKeeps == IInv /\ [MigrationNext]_allVars => IInv'
<1> SUFFICES ASSUME IInv, [MigrationNext]_allVars PROVE IInv'
  OBVIOUS
<1>1. ASSUME NEW x \in Process, Snapshot(x) \/ Importing(x) \/ StopImport(x)
      PROVE  IInv'
  BY <1>1, SnapshotKeeps, KnownKeeps, PublishBackupKeeps, PublishModuleKeeps, AddRowKeeps,
     StopKeeps DEF Importing
<1>2. ASSUME NEW r \in Rows, WriteLegacy(r) PROVE IInv'
  BY <1>2, WriteKeeps
<1>3. CASE Next /\ (\A x \in Process : staged[x] # None => task'[x] = task[x]) /\ UNCHANGED migration
  BY <1>3, IntakeKeepsImports
<1>4. CASE UNCHANGED allVars
  BY <1>4 DEF IInv, Shaped, Typed, Staged, Progressed, ImportedIsWhole, allVars, migration, imported, vars
<1> QED BY <1>1, <1>2, <1>3, <1>4 DEF MigrationNext

\* Whoever imports, races, stops or writes the original: a module session that
\* is entered is the copy of the image its row names, with its backup.
\* (import_legacy_session, _publish_file)
THEOREM ImportsAreWhole == MigrationSpec => []ImportedIsWhole
<1>1. MigrationInit => IInv
  BY InitIsInvariant
<1>2. IInv /\ [MigrationNext]_allVars => IInv'
  BY NextKeeps
<1>3. IInv => ImportedIsWhole
  BY DEF IInv
<1> QED BY <1>1, <1>2, <1>3, PTL DEF MigrationSpec

-----------------------------------------------------------------------------
(* Where projects come from: the invariant of ProjectIntake.  A process that *)
(* creates works in the home of the project it has reserved; the row of that *)
(* project stays, loses its reservation once and its grants only when it is  *)
(* relocated; a database is the one its request would make, at home for as   *)
(* long as the reservation is there.                                         *)

CreationPc == {"lock", "mark", "publish", "link", "register", "finish"}
Pc == CreationPc \cup ImportPc \cup {"idle", "grant", "swap", "remember"}

Task == [pc : Pc, request : Request \cup {None}, pid : Pid \cup {None}, place : Place \cup {None},
         source : Source \cup {None}, config : Nat]

Directory == [root : BOOLEAN, marker : [pid : Pid, request : Request] \cup {None},
              dir : BOOLEAN, db : Database \cup {None}]

IntakeTyped ==
  /\ index \in [Pid -> Locator \cup {None}]
  /\ disk \in [Place -> Directory]
  /\ registry \subseteq Pid
  /\ setting \in Settings
  /\ task \in [Process -> Task]
  /\ reserved \in Nat

\* A row of the index: reserved before, its own source granted while reserved.
RowIsTrue(p) ==
  index[p] # None =>
    /\ p <= reserved
    /\ index[p].pending # None => index[p].pending.source \in index[p].grants

\* The row of p is the one request q has made, whatever became of it.
MadeBy(p, q) ==
  /\ index[p] # None
  /\ index[p].pending \in {None, q}

\* What process x is at, and what it knows by then.
TaskIsTrue(x) ==
  LET t == task[x] IN
  /\ t.pc \in CreationPc =>
       /\ t.request \in Request /\ t.pid \in Pid /\ t.place = HomeOf(t.request, t.pid)
       /\ MadeBy(t.pid, t.request)
       /\ index[t.pid].cleared \/ t.request.source \in index[t.pid].grants
       /\ setting.managed => t.request.dest = None
       /\ t.pc = "register" => setting.managed
  /\ t.pc \in {"grant", "swap"} => t.pid \in Pid /\ t.source \in Source
  /\ t.pc = "remember" => t.pid \in Pid /\ t.place \in Place
  /\ t.pc \in {"grant", "remember"} => index[t.pid] # None

\* The database in directory d.
DatabaseIsTrue(d) ==
  LET b == DbAt(d) IN
  b # None =>
    /\ MadeBy(b.pid, b.request)
    /\ index[b.pid].pending # None => d = HomeOf(b.request, b.pid)
    /\ setting.managed \/ index[b.pid].cleared \/ b.source \in index[b.pid].grants

Registered ==
  \A p \in registry : setting.managed /\ DbAt(p) # None /\ DbAt(p).pid = p

\* A request has one reservation.
ReservedOnce ==
  \A p, o \in Pid :
    /\ index[p] # None /\ index[o] # None
    /\ index[p].pending # None /\ index[p].pending = index[o].pending
    => p = o

Intake ==
  /\ IntakeTyped
  /\ \A p \in Pid : RowIsTrue(p)
  /\ \A x \in Process : TaskIsTrue(x)
  /\ \A d \in Place : DatabaseIsTrue(d)
  /\ Registered
  /\ ReservedOnce

-----------------------------------------------------------------------------
(* What a step of ProjectIntake leaves as it is *)

LEMMA SettingIsTyped ==
  ASSUME IntakeTyped
  PROVE  /\ setting.managed \in BOOLEAN /\ setting.requests \subseteq Request
         /\ setting.relinks \subseteq Source /\ setting.target \in Pid \cup {None}
BY IntakeAssumption DEF IntakeTyped

LEMMA HomeIsAPlace ==
  ASSUME NEW q \in Request, NEW p \in Pid
  PROVE  HomeOf(q, p) \in Place
BY DEF HomeOf, Place

LEMMA PidsAreNumbers == Pid \subseteq Nat
BY IntakeAssumption DEF Pid

\* A row stays, its reservation may end, its grants grow unless it is cleared.
Matures ==
  \A p \in Pid : index[p] # None =>
    /\ index'[p] # None
    /\ index'[p].pending \in {None, index[p].pending}
    /\ index[p].cleared => index'[p].cleared
    /\ index'[p].cleared \/ index[p].grants \subseteq index'[p].grants

LEMMA MadeByStays ==
  ASSUME Matures, NEW p \in Pid, NEW q, MadeBy(p, q)
  PROVE  MadeBy(p, q)'
BY DEF Matures, MadeBy

LEMMA TaskStays ==
  ASSUME Intake, Matures, setting' = setting, NEW y \in Process, task'[y] = task[y]
  PROVE  TaskIsTrue(y)'
<1> DEFINE t == task[y]
<1>1. TaskIsTrue(y)
  BY DEF Intake
<1>2. ASSUME t.pc \in CreationPc
      PROVE  /\ t.request \in Request /\ t.pid \in Pid /\ t.place = HomeOf(t.request, t.pid)
             /\ MadeBy(t.pid, t.request)'
             /\ index'[t.pid].cleared \/ t.request.source \in index'[t.pid].grants
             /\ setting'.managed => t.request.dest = None
             /\ t.pc = "register" => setting'.managed
  <2>1. /\ t.request \in Request /\ t.pid \in Pid /\ t.place = HomeOf(t.request, t.pid)
        /\ MadeBy(t.pid, t.request)
        /\ index[t.pid].cleared \/ t.request.source \in index[t.pid].grants
        /\ setting.managed => t.request.dest = None
        /\ t.pc = "register" => setting.managed
    BY <1>1, <1>2 DEF TaskIsTrue
  <2>2. MadeBy(t.pid, t.request)'
    BY <2>1, MadeByStays
  <2>3. index'[t.pid].cleared \/ t.request.source \in index'[t.pid].grants
    BY <2>1 DEF Matures, MadeBy
  <2> QED BY <2>1, <2>2, <2>3
<1>3. t.pc \in {"grant", "swap"} => t.pid \in Pid /\ t.source \in Source
  BY <1>1 DEF TaskIsTrue
<1>4. t.pc = "remember" => t.pid \in Pid /\ t.place \in Place
  BY <1>1 DEF TaskIsTrue
<1>5. t.pc \in {"grant", "remember"} => index'[t.pid] # None
  BY <1>1, <1>3, <1>4 DEF TaskIsTrue, Matures
<1> QED BY <1>2, <1>3, <1>4, <1>5 DEF TaskIsTrue, MadeBy, HomeOf

LEMMA DatabaseStays ==
  ASSUME Intake, Matures, setting' = setting, NEW d \in Place, DbAt(d)' = DbAt(d)
  PROVE  DatabaseIsTrue(d)'
<1> SUFFICES ASSUME DbAt(d) # None PROVE DatabaseIsTrue(d)'
  BY DEF DatabaseIsTrue
<1>1. DatabaseIsTrue(d)
  BY DEF Intake
<1>2. DbAt(d) \in Database /\ DbAt(d).pid \in Pid
  BY DEF Intake, IntakeTyped, DbAt, Directory, Database
<1>3. MadeBy(DbAt(d).pid, DbAt(d).request)'
  BY <1>1, <1>2, MadeByStays DEF DatabaseIsTrue, MadeBy
<1>4. index'[DbAt(d).pid].pending # None => d = HomeOf(DbAt(d).request, DbAt(d).pid)
  BY <1>1, <1>2 DEF DatabaseIsTrue, Matures, MadeBy
<1>5. setting.managed \/ index'[DbAt(d).pid].cleared \/ DbAt(d).source \in index'[DbAt(d).pid].grants
  BY <1>1, <1>2 DEF DatabaseIsTrue, Matures, MadeBy
<1> QED BY <1>3, <1>4, <1>5 DEF DatabaseIsTrue, MadeBy, HomeOf

\* Process x takes a step: what is to be shown of it.
LEMMA StepKeeps ==
  ASSUME Intake, NEW x \in Process, IntakeTyped', setting' = setting,
         \A y \in Process \ {x} : task'[y] = task[y],
         TaskIsTrue(x)',
         Matures, \A p \in Pid : RowIsTrue(p)', ReservedOnce', Registered',
         \A d \in Place : DbAt(d)' = DbAt(d) \/ DatabaseIsTrue(d)'
  PROVE  Intake'
<1>1. \A y \in Process : TaskIsTrue(y)'
  BY TaskStays
<1>2. \A d \in Place : DatabaseIsTrue(d)'
  BY DatabaseStays
<1> QED BY <1>1, <1>2 DEF Intake

\* A step that leaves the index alone leaves its rows as they are.
LEMMA IndexStays ==
  ASSUME Intake, index' = index, reserved' = reserved
  PROVE  Matures /\ (\A p \in Pid : RowIsTrue(p)') /\ ReservedOnce'
BY DEF Intake, Matures, RowIsTrue, ReservedOnce

\* A step that keeps the identity of what is published keeps what is registered.
LEMMA RegistryStays ==
  ASSUME Intake, registry' = registry, setting' = setting,
         \A d \in Place : DbAt(d) # None => DbAt(d)' # None /\ DbAt(d)'.pid = DbAt(d).pid
  PROVE  Registered'
BY DEF Intake, IntakeTyped, Registered, Place

LEMMA TaskTyping ==
  ASSUME IntakeTyped, NEW x \in Process, NEW t \in Task, Begin(x, t)
  PROVE  /\ task' \in [Process -> Task] /\ task'[x] = t
         /\ \A y \in Process \ {x} : task'[y] = task[y]
BY DEF IntakeTyped, Begin

LEMMA PcTyping ==
  ASSUME IntakeTyped, NEW x \in Process, NEW pc \in Pc, Goto(x, pc)
  PROVE  /\ task' \in [Process -> Task] /\ task'[x] = [task[x] EXCEPT !.pc = pc]
         /\ \A y \in Process \ {x} : task'[y] = task[y]
<1>1. task[x] \in Task
  BY DEF IntakeTyped
<1>2. [task[x] EXCEPT !.pc = pc] \in Task
  BY <1>1 DEF Task
<1> QED BY <1>2 DEF IntakeTyped, Goto

LEMMA IdleIsATask == Idle \in Task
BY DEF Idle, Task, Pc, CreationPc, ImportPc

\* x returns: the rest of its step is about the files.
LEMMA ReturnKeeps ==
  ASSUME Intake, NEW x \in Process, Return(x), UNCHANGED setting,
         index' \in [Pid -> Locator \cup {None}], disk' \in [Place -> Directory],
         registry' \subseteq Pid, reserved' \in Nat,
         Matures, \A p \in Pid : RowIsTrue(p)', ReservedOnce', Registered',
         \A d \in Place : DbAt(d)' = DbAt(d) \/ DatabaseIsTrue(d)'
  PROVE  Intake'
<1>1. /\ task' \in [Process -> Task] /\ task'[x] = Idle
      /\ \A y \in Process \ {x} : task'[y] = task[y]
  BY TaskTyping, IdleIsATask DEF Intake, Return
<1>2. TaskIsTrue(x)'
  BY <1>1 DEF TaskIsTrue, Idle, CreationPc
<1>3. IntakeTyped'
  BY <1>1 DEF Intake, IntakeTyped
<1> QED BY <1>1, <1>2, <1>3, StepKeeps

\* x goes on with a creation: likewise.
LEMMA CreationKeeps ==
  ASSUME Intake, NEW x \in Process, NEW pc \in CreationPc, Goto(x, pc),
         task[x].pc \in CreationPc, pc = "register" => setting.managed,
         UNCHANGED <<index, setting, reserved>>, disk' \in [Place -> Directory],
         registry' \subseteq Pid, Registered',
         \A d \in Place : DbAt(d)' = DbAt(d) \/ DatabaseIsTrue(d)'
  PROVE  Intake'
<1>1. /\ task' \in [Process -> Task] /\ task'[x] = [task[x] EXCEPT !.pc = pc]
      /\ \A y \in Process \ {x} : task'[y] = task[y]
  BY PcTyping DEF Intake, Pc
<1>2. IntakeTyped'
  BY <1>1 DEF Intake, IntakeTyped
<1>3. task[x] \in Task /\ task'[x] \in Task
  BY <1>1 DEF Intake, IntakeTyped
<1>4. /\ task'[x].pc = pc /\ task'[x].request = task[x].request
      /\ task'[x].pid = task[x].pid /\ task'[x].place = task[x].place
  BY <1>1, <1>3 DEF Task
<1>5. TaskIsTrue(x)
  BY DEF Intake
<1>6. TaskIsTrue(x)'
  BY <1>4, <1>5 DEF TaskIsTrue, CreationPc, MadeBy, HomeOf
<1> QED BY <1>1, <1>2, <1>6, IndexStays, StepKeeps

-----------------------------------------------------------------------------
(* Steps of ProjectIntake, one by one *)

LEMMA InitIsIntake == MigrationInit => Intake
<1> SUFFICES ASSUME MigrationInit PROVE Intake
  OBVIOUS
<1> USE DEF MigrationInit, Init
<1>1. IntakeTyped
  <2>1. NoDir \in Directory
    BY DEF NoDir, Directory
  <2> QED BY <2>1, IdleIsATask DEF IntakeTyped
<1>2. \A x \in Process : TaskIsTrue(x)
  BY DEF TaskIsTrue, Idle, CreationPc
<1>3. \A d \in Place : DatabaseIsTrue(d)
  BY DEF DatabaseIsTrue, DbAt, NoDir
<1> QED BY <1>1, <1>2, <1>3 DEF Intake, RowIsTrue, Registered, ReservedOnce

\* A directory takes a new value in one field; the databases stay.
LEMMA DirectoryChanges ==
  ASSUME IntakeTyped, NEW d \in Place, NEW r \in Directory, r.db = disk[d].db,
         disk' = [disk EXCEPT ![d] = r]
  PROVE  disk' \in [Place -> Directory] /\ \A e \in Place : DbAt(e)' = DbAt(e)
BY DEF IntakeTyped, DbAt

LEMMA ReserveKeeps ==
  ASSUME Intake, NEW x \in Process, NEW q \in setting.requests, Reserve(x, q)
  PROVE  Intake'
<1>1. q \in Request /\ IntakeTyped
  BY SettingIsTyped DEF Intake
<1>2. PICK p \in Pid :
        /\ \/ p \in Pending(q) /\ UNCHANGED <<index, reserved>>
           \/ /\ Pending(q) = {} /\ p = reserved + 1 /\ p <= setting.projects
              /\ reserved' = p /\ index' = [index EXCEPT ![p] = NewRow(q, p)]
        /\ Begin(x, [Idle EXCEPT !.pc = "lock", !.request = q, !.pid = p, !.place = HomeOf(q, p)])
  BY DEF Reserve
<1> DEFINE t == [Idle EXCEPT !.pc = "lock", !.request = q, !.pid = p, !.place = HomeOf(q, p)]
<1>3. /\ t \in Task /\ t.pc = "lock" /\ t.request = q /\ t.pid = p /\ t.place = HomeOf(q, p)
  <2>1. HomeOf(q, p) \in Place
    BY <1>1, HomeIsAPlace
  <2> QED BY <1>1, <2>1 DEF Idle, Task, Pc, CreationPc
<1>4. Begin(x, t)
  BY <1>2
<1> HIDE DEF t
<1>5. task' \in [Process -> Task] /\ task'[x] = t /\ \A y \in Process \ {x} : task'[y] = task[y]
  BY <1>1, <1>3, <1>4, TaskTyping
<1>6. /\ UNCHANGED <<disk, registry, setting>>
      /\ setting.managed => q.dest = None
  BY DEF Reserve
<1>7. ASSUME IntakeTyped', MadeBy(p, q)', q.source \in index'[p].grants,
             Matures, \A o \in Pid : RowIsTrue(o)', ReservedOnce'
      PROVE  Intake'
  <2>1. TaskIsTrue(x)'
    BY <1>1, <1>3, <1>5, <1>6, <1>7 DEF TaskIsTrue, CreationPc
  <2>2. Registered' /\ \A d \in Place : DbAt(d)' = DbAt(d)
    BY <1>6 DEF Intake, Registered, DbAt
  <2> QED BY <1>5, <1>6, <1>7, <2>1, <2>2, StepKeeps
<1>8. CASE p \in Pending(q) /\ UNCHANGED <<index, reserved>>
  <2>1. IntakeTyped'
    BY <1>1, <1>5, <1>6, <1>8 DEF IntakeTyped
  <2>2. index[p] # None /\ index[p].pending = q /\ q # None
    BY <1>1, <1>8, IntakeAssumption DEF Pending
  <2>3. q.source \in index[p].grants
    BY <2>2 DEF Intake, RowIsTrue
  <2> QED BY <1>7, <1>8, <2>1, <2>2, <2>3, IndexStays DEF MadeBy
<1>9. CASE /\ Pending(q) = {} /\ p = reserved + 1
           /\ reserved' = p /\ index' = [index EXCEPT ![p] = NewRow(q, p)]
  <2> DEFINE n == NewRow(q, p)
  <2>1. n \in Locator /\ n # None /\ n.pending = q /\ n.grants = {q.source}
    <3>1. HomeOf(q, p) \in Place /\ q.actor \in Actors /\ q.source \in Source
      BY <1>1, HomeIsAPlace, IntakeAssumption DEF Actors
    <3>2. n \in Locator
      BY <1>1, <3>1 DEF NewRow, Locator
    <3> QED BY <3>2, IntakeAssumption DEF NewRow
  <2> HIDE DEF n
  <2>2. index' = [index EXCEPT ![p] = n]
    BY <1>9 DEF n
  <2>3. index[p] = None /\ p \in Nat /\ reserved \in Nat
    BY <1>1, <1>9, PidsAreNumbers DEF Intake, IntakeTyped, RowIsTrue
  <2>4. /\ index' \in [Pid -> Locator \cup {None}]
        /\ index'[p] = n /\ \A o \in Pid \ {p} : index'[o] = index[o]
    BY <1>1, <2>1, <2>2 DEF IntakeTyped
  <2>5. IntakeTyped'
    BY <1>1, <1>5, <1>6, <1>9, <2>3, <2>4 DEF IntakeTyped
  <2>6. Matures
    BY <2>3, <2>4 DEF Matures
  <2>7. \A o \in Pid : RowIsTrue(o)'
    <3>1. p <= reserved' /\ reserved < reserved'
      BY <1>9, <2>3
    <3>2. RowIsTrue(p)'
      BY <2>1, <2>4, <3>1 DEF RowIsTrue
    <3>3. ASSUME NEW o \in Pid \ {p} PROVE RowIsTrue(o)'
      <4>1. RowIsTrue(o) /\ index'[o] = index[o] /\ o \in Nat
        BY <2>4, PidsAreNumbers DEF Intake
      <4> QED BY <1>9, <2>3, <3>1, <4>1 DEF RowIsTrue
    <3> QED BY <3>2, <3>3
  <2>8. ReservedOnce'
    <3>1. \A o \in Pid \ {p} : ~(index[o] # None /\ index[o].pending = q)
      BY <1>9 DEF Pending
    <3> QED BY <2>1, <2>4, <3>1 DEF Intake, ReservedOnce
  <2>9. MadeBy(p, q)' /\ q.source \in index'[p].grants
    BY <2>1, <2>4 DEF MadeBy
  <2> QED BY <1>7, <2>5, <2>6, <2>7, <2>8, <2>9
<1> QED BY <1>2, <1>8, <1>9

\* The first steps of a creation change a directory around its database.
LEMMA TakingKeeps ==
  ASSUME Intake, NEW x \in Process, Lock(x) \/ Busy(x) \/ Mark(x) \/ Foreign(x)
  PROVE  Intake'
<1> DEFINE t == task[x]
<1>0. t.pc \in {"lock", "mark"} /\ IntakeTyped
  BY DEF Lock, Busy, Mark, Foreign, At, Intake
<1>1. /\ t.request \in Request /\ t.pid \in Pid /\ t.place = HomeOf(t.request, t.pid)
      /\ t.place \in Place
  <2>1. TaskIsTrue(x)
    BY DEF Intake
  <2> QED BY <1>0, <2>1, HomeIsAPlace DEF TaskIsTrue, CreationPc
<1>2. disk[t.place] \in Directory
  BY <1>0, <1>1 DEF IntakeTyped
<1>3. disk' = disk \/ \E r \in Directory : r.db = disk[t.place].db /\ disk' = [disk EXCEPT ![t.place] = r]
  <2>1. ASSUME disk' = [disk EXCEPT ![t.place].root = TRUE]
        PROVE  <1>3!2
    <3> DEFINE r == [disk[t.place] EXCEPT !.root = TRUE]
    <3>1. r \in Directory /\ r.db = disk[t.place].db
      BY <1>2 DEF Directory
    <3>2. disk' = [disk EXCEPT ![t.place] = r]
      BY <2>1
    <3> QED BY <3>1, <3>2
  <2>2. ASSUME disk' = [disk EXCEPT ![t.place].marker = Marker(t)]
        PROVE  <1>3!2
    <3> DEFINE r == [disk[t.place] EXCEPT !.marker = Marker(t)]
    <3>1. r \in Directory /\ r.db = disk[t.place].db
      BY <1>1, <1>2 DEF Directory, Marker
    <3>2. disk' = [disk EXCEPT ![t.place] = r]
      BY <2>2
    <3> QED BY <3>1, <3>2
  <2> QED BY <2>1, <2>2 DEF Lock, Busy, Mark, Foreign, store
<1>4. disk' \in [Place -> Directory] /\ \A d \in Place : DbAt(d)' = DbAt(d)
  <2>1. CASE disk' = disk
    BY <1>0, <2>1 DEF IntakeTyped, DbAt
  <2>2. CASE \E r \in Directory : r.db = disk[t.place].db /\ disk' = [disk EXCEPT ![t.place] = r]
    BY <1>0, <1>1, <2>2, DirectoryChanges
  <2> QED BY <1>3, <2>1, <2>2
<1>5. UNCHANGED <<index, registry, setting, reserved>>
  BY DEF Lock, Busy, Mark, Foreign, store
<1>6. Registered'
  BY <1>4, <1>5, RegistryStays
<1>7. CASE Return(x)
  BY <1>0, <1>4, <1>5, <1>6, <1>7, IndexStays, ReturnKeeps DEF IntakeTyped
<1>8. CASE Goto(x, "mark") \/ Goto(x, "publish")
  BY <1>0, <1>4, <1>5, <1>6, <1>8, CreationKeeps DEF IntakeTyped, CreationPc
<1> QED BY <1>7, <1>8 DEF Lock, Busy, Mark, Foreign

\* Steps that only read the files, and stops, which leave them as they are.
LEMMA ReadingKeeps ==
  ASSUME Intake, NEW x \in Process, UNCHANGED <<store, setting, reserved>>,
         \/ Return(x)
         \/ \E pc \in CreationPc : /\ Goto(x, pc) /\ task[x].pc \in CreationPc
                                   /\ pc = "register" => setting.managed
  PROVE  Intake'
<1>1. /\ index' \in [Pid -> Locator \cup {None}] /\ disk' \in [Place -> Directory]
      /\ registry' \subseteq Pid /\ reserved' \in Nat
      /\ \A d \in Place : DbAt(d)' = DbAt(d)
  BY DEF Intake, IntakeTyped, store, DbAt
<1>2. UNCHANGED <<index, registry, setting, reserved>> /\ Registered'
  BY DEF Intake, Registered, DbAt, store
<1>3. CASE Return(x)
  BY <1>1, <1>2, <1>3, IndexStays, ReturnKeeps
<1>4. ASSUME NEW pc \in CreationPc, Goto(x, pc), task[x].pc \in CreationPc,
             pc = "register" => setting.managed
      PROVE  Intake'
  BY <1>1, <1>2, <1>4, CreationKeeps
<1> QED BY <1>3, <1>4

LEMMA AfterIsAPlace ==
  ASSUME NEW t
  PROVE  AfterDatabase(t) \in CreationPc /\ (AfterDatabase(t) = "register" => setting.managed)
BY DEF AfterDatabase, CreationPc

LEMMA ResumeKeeps ==
  ASSUME Intake, NEW x \in Process, Resume(x) \/ Stop(x)
  PROVE  Intake'
<1>1. CASE Stop(x)
  BY <1>1, ReadingKeeps DEF Stop
<1>2. CASE Resume(x)
  <2>1. task[x].pc \in CreationPc
    BY <1>2 DEF Resume, At, CreationPc
  <2>2. UNCHANGED <<store, setting, reserved>> /\ (Goto(x, AfterDatabase(task[x])) \/ Return(x))
    BY <1>2 DEF Resume
  <2> QED BY <2>1, <2>2, ReadingKeeps, AfterIsAPlace
<1> QED BY <1>1, <1>2

\* A process that creates works in the home of its project.
LEMMA CreatorIsAtHome ==
  ASSUME Intake, NEW x \in Process, task[x].pc \in CreationPc
  PROVE  /\ task[x].request \in Request /\ task[x].pid \in Pid
         /\ task[x].place = HomeOf(task[x].request, task[x].pid) /\ task[x].place \in Place
         /\ MadeBy(task[x].pid, task[x].request)
         /\ index[task[x].pid] \in Locator
         /\ index[task[x].pid].cleared \/ task[x].request.source \in index[task[x].pid].grants
         /\ setting.managed => task[x].request.dest = None
         /\ task[x].pc = "register" => setting.managed
         /\ disk[task[x].place] \in Directory
<1>1. TaskIsTrue(x)
  BY DEF Intake
<1> QED BY <1>1, HomeIsAPlace DEF TaskIsTrue, MadeBy, Intake, IntakeTyped

LEMMA MakeDirectoryKeeps ==
  ASSUME Intake, NEW x \in Process, MakeDirectory(x)
  PROVE  Intake'
<1> DEFINE d == task[x].place
           r == [disk[d] EXCEPT !.dir = TRUE]
<1>1. task[x].pc \in CreationPc /\ UNCHANGED <<index, registry, setting, reserved>>
  BY DEF MakeDirectory, At, CreationPc
<1>2. CASE Return(x) /\ UNCHANGED disk
  BY <1>1, <1>2, ReadingKeeps DEF store
<1>3. CASE disk' = [disk EXCEPT ![d].dir = TRUE] /\ Goto(x, "link")
  <2>1. d \in Place /\ r \in Directory /\ r.db = disk[d].db
    BY <1>1, CreatorIsAtHome DEF Directory
  <2>2. disk' = [disk EXCEPT ![d] = r]
    BY <1>3
  <2>3. disk' \in [Place -> Directory] /\ \A e \in Place : DbAt(e)' = DbAt(e)
    BY <2>1, <2>2, DirectoryChanges DEF Intake
  <2>4. Registered'
    BY <1>1, <2>3, RegistryStays
  <2>5. registry' \subseteq Pid
    BY <1>1 DEF Intake, IntakeTyped
  <2> QED BY <1>1, <1>3, <2>3, <2>4, <2>5, CreationKeeps DEF CreationPc
<1> QED BY <1>2, <1>3 DEF MakeDirectory

\* The database is the one its request makes, where none was.
LEMMA LinkKeeps ==
  ASSUME Intake, NEW x \in Process, Link(x)
  PROVE  Intake'
<1> DEFINE t == task[x]
<1>1. t.pc \in CreationPc /\ UNCHANGED <<index, registry, setting, reserved>>
  BY DEF Link, At, CreationPc
<1>2. CASE Return(x) /\ UNCHANGED disk
  BY <1>1, <1>2, ReadingKeeps DEF store
<1>3. CASE /\ disk[t.place].db = None /\ disk' = [disk EXCEPT ![t.place].db = Descriptor(t)]
           /\ Goto(x, AfterDatabase(t))
  <2>1. Descriptor(t) \in Database
    <3>1. t.request.source \in Source /\ 0 \in 0..MaxConfig
      BY <1>1, CreatorIsAtHome, IntakeAssumption
    <3> QED BY <1>1, <3>1, CreatorIsAtHome DEF Descriptor, Database
  <2>2. PICK d \in Place, b \in Database : d = t.place /\ b = Descriptor(t)
    BY <1>1, <2>1, CreatorIsAtHome
  <2>3. b # None /\ b.pid = t.pid /\ b.request = t.request /\ b.source = t.request.source
    BY <2>2, IntakeAssumption DEF Descriptor
  <2>4. /\ disk' \in [Place -> Directory] /\ DbAt(d)' = b
        /\ \A e \in Place \ {d} : DbAt(e)' = DbAt(e)
    <3> DEFINE r == [disk[d] EXCEPT !.db = b]
    <3>1. r \in Directory /\ r.db = b
      BY <1>1, <2>2, CreatorIsAtHome DEF Directory
    <3>2. disk' = [disk EXCEPT ![d] = r]
      BY <1>3, <2>2
    <3> HIDE DEF r
    <3> QED BY <3>1, <3>2 DEF Intake, IntakeTyped, DbAt
  <2>5. MadeBy(b.pid, b.request)'
    BY <1>1, <2>3, CreatorIsAtHome DEF MadeBy
  <2>6. d = HomeOf(b.request, b.pid)
    BY <1>1, <2>2, <2>3, CreatorIsAtHome
  <2>7. index'[b.pid].cleared \/ b.source \in index'[b.pid].grants
    BY <1>1, <2>3, CreatorIsAtHome
  <2>8. DatabaseIsTrue(d)'
    BY <2>4, <2>5, <2>6, <2>7 DEF DatabaseIsTrue, MadeBy, HomeOf
  <2>9. Registered'
    <3>1. DbAt(d) = None
      BY <1>3, <2>2 DEF DbAt
    <3> QED BY <1>1, <2>4, <3>1, RegistryStays
  <2>10. registry' \subseteq Pid
    BY <1>1 DEF Intake, IntakeTyped
  <2>11. \A e \in Place : DbAt(e)' = DbAt(e) \/ DatabaseIsTrue(e)'
    BY <2>4, <2>8
  <2> QED BY <1>1, <1>3, <2>4, <2>9, <2>10, <2>11, AfterIsAPlace, CreationKeeps
<1> QED BY <1>2, <1>3 DEF Link

LEMMA RegisterKeeps ==
  ASSUME Intake, NEW x \in Process, Register(x)
  PROVE  Intake'
<1> DEFINE t == task[x]
<1>1. t.pc = "register" /\ t.pc \in CreationPc
  BY DEF Register, At, CreationPc
<1>2. /\ UNCHANGED <<index, disk, setting, reserved>> /\ Goto(x, "finish")
      /\ registry' = registry \cup {t.pid} /\ DbAt(t.place) # None /\ DbAt(t.place).pid = t.pid
  BY DEF Register, DbAt
<1>3. setting.managed /\ t.pid \in Pid /\ t.place = t.pid
  BY <1>1, CreatorIsAtHome DEF HomeOf
<1>4. /\ disk' \in [Place -> Directory] /\ registry' \subseteq Pid
      /\ \A d \in Place : DbAt(d)' = DbAt(d)
  BY <1>2, <1>3 DEF Intake, IntakeTyped, DbAt
<1>5. Registered'
  BY <1>2, <1>3 DEF Intake, Registered, DbAt
<1> QED BY <1>1, <1>2, <1>4, <1>5, CreationKeeps DEF CreationPc

LEMMA RowChanges ==
  ASSUME IntakeTyped, NEW p \in Pid, NEW n \in Locator, index' = [index EXCEPT ![p] = n]
  PROVE  /\ index' \in [Pid -> Locator \cup {None}] /\ index'[p] = n /\ n # None
         /\ \A o \in Pid \ {p} : index'[o] = index[o]
BY IntakeAssumption DEF IntakeTyped

\* A row changes as rows do and keeps what it says.
LEMMA RowKeeps ==
  ASSUME Intake, NEW p \in Pid, NEW n \in Locator, index' = [index EXCEPT ![p] = n],
         reserved' = reserved, index[p] # None,
         n.pending \in {None, index[p].pending},
         n.pending # None => index[p].grants \subseteq n.grants,
         index[p].cleared => n.cleared,
         n.cleared \/ index[p].grants \subseteq n.grants
  PROVE  Matures /\ (\A o \in Pid : RowIsTrue(o)') /\ ReservedOnce'
<1>1. index'[p] = n /\ n # None /\ \A o \in Pid \ {p} : index'[o] = index[o]
  BY RowChanges DEF Intake
<1>2. Matures
  BY <1>1 DEF Matures
<1>3. ASSUME NEW o \in Pid PROVE RowIsTrue(o)'
  <2>1. RowIsTrue(o) /\ RowIsTrue(p)
    BY DEF Intake
  <2>2. CASE o # p
    BY <1>1, <2>1, <2>2 DEF RowIsTrue
  <2>3. CASE o = p
    BY <1>1, <2>1, <2>3 DEF RowIsTrue
  <2> QED BY <2>2, <2>3
<1>4. ReservedOnce'
  BY <1>1 DEF Intake, ReservedOnce
<1> QED BY <1>2, <1>3, <1>4

LEMMA FinishKeeps ==
  ASSUME Intake, NEW x \in Process, Finish(x)
  PROVE  Intake'
<1> DEFINE p == task[x].pid
           n == [index[p] EXCEPT !.pending = None]
<1>1. task[x].pc \in CreationPc
  BY DEF Finish, At, CreationPc
<1>2. p \in Pid /\ index[p] # None /\ index[p] \in Locator
  BY <1>1, CreatorIsAtHome DEF MadeBy
<1>3. /\ n \in Locator /\ n.pending = None /\ n.grants = index[p].grants
      /\ n.cleared = index[p].cleared
  BY <1>2 DEF Locator
<1>4. /\ index' = [index EXCEPT ![p] = n] /\ Return(x)
      /\ UNCHANGED <<disk, registry, setting, reserved>>
  BY DEF Finish
<1> HIDE DEF n, p
<1>5. /\ index' \in [Pid -> Locator \cup {None}] /\ disk' \in [Place -> Directory]
      /\ registry' \subseteq Pid /\ reserved' \in Nat
      /\ \A d \in Place : DbAt(d)' = DbAt(d)
  BY <1>2, <1>3, <1>4, RowChanges DEF Intake, IntakeTyped, DbAt
<1>6. Matures /\ (\A o \in Pid : RowIsTrue(o)') /\ ReservedOnce'
  BY <1>2, <1>3, <1>4, RowKeeps
<1>7. Registered'
  BY <1>4, <1>5, RegistryStays
<1> QED BY <1>4, <1>5, <1>6, <1>7, ReturnKeeps

\* A process that begins something else than a creation.
LEMMA BeginKeeps ==
  ASSUME Intake, NEW x \in Process, NEW t \in Task, Begin(x, t),
         UNCHANGED <<index, disk, registry, setting, reserved>>,
         t.pc \notin CreationPc,
         t.pc \in {"grant", "swap"} => t.pid \in Pid /\ t.source \in Source,
         t.pc = "remember" => t.pid \in Pid /\ t.place \in Place,
         t.pc \in {"grant", "remember"} => index[t.pid] # None
  PROVE  Intake'
<1>1. task' \in [Process -> Task] /\ task'[x] = t /\ \A y \in Process \ {x} : task'[y] = task[y]
  BY TaskTyping DEF Intake
<1>2. TaskIsTrue(x)'
  BY <1>1 DEF TaskIsTrue
<1>3. IntakeTyped' /\ Registered' /\ \A d \in Place : DbAt(d)' = DbAt(d)
  BY <1>1 DEF Intake, IntakeTyped, Registered, DbAt
<1> QED BY <1>1, <1>2, <1>3, IndexStays, StepKeeps

LEMMA DatabaseIsTyped ==
  ASSUME IntakeTyped, NEW d \in Place, DbAt(d) # None
  PROVE  DbAt(d) \in Database /\ DbAt(d).pid \in Pid
BY DEF IntakeTyped, DbAt, Directory, Database

\* What can be reached has a row or is registered, and a database where it is located.
LEMMA ReachableIsLocated ==
  ASSUME Intake, NEW p \in Pid, Reachable(p)
  PROVE  /\ Located(p) \in Place /\ DbAt(Located(p)) # None /\ DbAt(Located(p)) \in Database
         /\ ~setting.managed => index[p] # None /\ DbAt(Located(p)).pid = p
<1>1. Located(p) \in Place
  BY DEF Reachable, Located, Intake, IntakeTyped, Locator, Place
<1>2. /\ DbAt(Located(p)) # None
      /\ ~setting.managed => index[p] # None /\ DbAt(Located(p)).pid = p
  BY DEF Reachable, DbAt
<1> QED BY <1>1, <1>2, DatabaseIsTyped DEF Intake

LEMMA StartRelinkKeeps ==
  ASSUME Intake, NEW x \in Process, NEW p \in Pid, NEW s \in setting.relinks, StartRelink(x, p, s)
  PROVE  Intake'
<1>1. PICK c \in 0..disk[Located(p)].db.config :
        Begin(x, [Idle EXCEPT !.pc = IF setting.managed THEN "swap" ELSE "grant",
                              !.pid = p, !.source = s, !.config = c])
  BY DEF StartRelink
<1> DEFINE t == [Idle EXCEPT !.pc = IF setting.managed THEN "swap" ELSE "grant",
                             !.pid = p, !.source = s, !.config = c]
<1>2. s \in Source /\ c \in Nat
  <2>1. s \in Source
    BY SettingIsTyped DEF Intake
  <2>2. disk[Located(p)].db.config \in Nat
    BY ReachableIsLocated, IntakeAssumption DEF StartRelink, DbAt, Database
  <2> QED BY <2>1, <2>2
<1>3. /\ t \in Task /\ t.pid = p /\ t.source = s
      /\ t.pc = IF setting.managed THEN "swap" ELSE "grant"
  BY <1>2 DEF Idle, Task, Pc
<1>4. ~setting.managed => index[p] # None
  BY ReachableIsLocated DEF StartRelink
<1>5. UNCHANGED <<index, disk, registry, setting, reserved>> /\ Begin(x, t)
  BY <1>1 DEF StartRelink, store
<1> HIDE DEF t
<1> QED BY <1>2, <1>3, <1>4, <1>5, BeginKeeps DEF CreationPc

LEMMA OpenLocatorKeeps ==
  ASSUME Intake, NEW x \in Process, NEW d \in Place, OpenLocator(x, d)
  PROVE  Intake'
<1> DEFINE t == [Idle EXCEPT !.pc = "remember", !.pid = disk[d].db.pid, !.place = d]
<1>1. disk[d].db.pid \in Pid /\ index[disk[d].db.pid] # None
  <2>1. DbAt(d) # None /\ DatabaseIsTrue(d)
    BY DEF OpenLocator, DbAt, Intake
  <2> QED BY <2>1, DatabaseIsTyped DEF DatabaseIsTrue, MadeBy, DbAt, Intake
<1>2. t \in Task /\ t.pc = "remember" /\ t.pid \in Pid /\ t.place = d /\ index[t.pid] # None
  BY <1>1 DEF Idle, Task, Pc
<1>3. UNCHANGED <<index, disk, registry, setting, reserved>> /\ Begin(x, t)
  BY DEF OpenLocator, store
<1> HIDE DEF t
<1> QED BY <1>2, <1>3, BeginKeeps DEF CreationPc

LEMMA GrantKeeps ==
  ASSUME Intake, NEW x \in Process, Grant(x)
  PROVE  Intake'
<1> DEFINE p == task[x].pid
           n == [index[p] EXCEPT !.grants = @ \cup {task[x].source}]
<1>1. task[x].pc = "grant" /\ TaskIsTrue(x) /\ task[x] \in Task
  BY DEF Grant, At, Intake, IntakeTyped
<1>2. p \in Pid /\ task[x].source \in Source /\ index[p] # None /\ index[p] \in Locator
  BY <1>1 DEF TaskIsTrue, Intake, IntakeTyped
<1>3. /\ n \in Locator /\ n.pending = index[p].pending /\ index[p].grants \subseteq n.grants
      /\ n.cleared = index[p].cleared
  BY <1>2 DEF Locator
<1>4. /\ index' = [index EXCEPT ![p] = n] /\ Goto(x, "swap")
      /\ UNCHANGED <<disk, registry, setting, reserved>>
  BY <1>2 DEF Grant
<1> HIDE DEF n
<1>5. /\ task' \in [Process -> Task] /\ task'[x] = [task[x] EXCEPT !.pc = "swap"]
      /\ \A y \in Process \ {x} : task'[y] = task[y]
  BY <1>4, PcTyping DEF Intake, Pc
<1>6. TaskIsTrue(x)'
  BY <1>1, <1>2, <1>5 DEF TaskIsTrue, CreationPc, Task
<1>7. IntakeTyped' /\ \A d \in Place : DbAt(d)' = DbAt(d)
  BY <1>2, <1>3, <1>4, <1>5, RowChanges DEF Intake, IntakeTyped, DbAt
<1>8. Matures /\ (\A o \in Pid : RowIsTrue(o)') /\ ReservedOnce'
  BY <1>2, <1>3, <1>4, RowKeeps
<1>9. Registered'
  BY <1>4, <1>7, RegistryStays
<1> QED BY <1>4, <1>5, <1>6, <1>7, <1>8, <1>9, StepKeeps

\* The new source is granted, and nothing else of the database is new.
LEMMA SwapKeeps ==
  ASSUME Intake, NEW x \in Process, Swap(x)
  PROVE  Intake'
<1>1. task[x].pc = "swap" /\ TaskIsTrue(x) /\ task[x] \in Task
  BY DEF Swap, At, Intake, IntakeTyped
<1>2. task[x].pid \in Pid /\ task[x].source \in Source /\ task[x].config \in Nat
  BY <1>1 DEF TaskIsTrue, Task
<1>3. PICK p \in Pid, s \in Source, c \in Nat : p = task[x].pid /\ s = task[x].source /\ c = task[x].config
  BY <1>2
<1>4. Return(x) /\ UNCHANGED <<index, registry, setting, reserved>>
  BY DEF Swap
<1>5. CASE UNCHANGED disk
  BY <1>4, <1>5, ReadingKeeps DEF store
<1>6. CASE /\ Reachable(p) /\ (setting.managed \/ s \in index[p].grants) /\ c < MaxConfig
           /\ disk' = [disk EXCEPT ![Located(p)].db =
                         [disk[Located(p)].db EXCEPT !.source = s, !.config = c + 1]]
  <2>1. PICK d \in Place, b \in Database : d = Located(p) /\ b = DbAt(d) /\ b # None
    BY <1>6, ReachableIsLocated
  <2> DEFINE m == c + 1
             e == [b EXCEPT !.source = s, !.config = m]
             r == [disk[d] EXCEPT !.db = e]
  <2>2. m \in 0..MaxConfig
    BY <1>6, IntakeAssumption
  <2>3. disk' = [disk EXCEPT ![d].db = e]
    BY <1>6, <2>1 DEF DbAt
  <2> HIDE DEF m
  <2>4. /\ e \in Database /\ e # None /\ e.source = s /\ e.pid = b.pid /\ e.request = b.request
    <3>1. e \in Database /\ e.source = s /\ e.pid = b.pid /\ e.request = b.request
      BY <2>2 DEF Database
    <3> QED BY <3>1, IntakeAssumption
  <2> HIDE DEF e
  <2>5. r \in Directory /\ r.db = e /\ disk' = [disk EXCEPT ![d] = r]
    BY <2>3, <2>4 DEF Directory, Intake, IntakeTyped
  <2> HIDE DEF r
  <2>6. PICK v \in Database : v = e
    BY <2>4
  <2>7. /\ disk' \in [Place -> Directory] /\ DbAt(d)' = v
        /\ \A f \in Place \ {d} : DbAt(f)' = DbAt(f)
    BY <2>5, <2>6 DEF Intake, IntakeTyped, DbAt
  <2>8. DatabaseIsTrue(d)'
    <3>1. DatabaseIsTrue(d)
      BY DEF Intake
    <3>2. /\ MadeBy(b.pid, b.request)
          /\ index[b.pid].pending # None => d = HomeOf(b.request, b.pid)
      BY <2>1, <3>1 DEF DatabaseIsTrue
    <3>3. setting.managed \/ s \in index[b.pid].grants
      BY <1>6, <2>1, ReachableIsLocated
    <3>4. v.source = s /\ v.pid = b.pid /\ v.request = b.request /\ v # None
      BY <2>4, <2>6
    <3>5. MadeBy(v.pid, v.request)'
      BY <1>4, <3>2, <3>4 DEF MadeBy
    <3> QED BY <1>4, <2>7, <3>2, <3>3, <3>4, <3>5 DEF DatabaseIsTrue, HomeOf
  <2>9. Registered'
    <3>1. \A f \in Place : DbAt(f) # None => DbAt(f)' # None /\ DbAt(f)'.pid = DbAt(f).pid
      BY <2>1, <2>4, <2>6, <2>7
    <3> QED BY <1>4, <3>1, RegistryStays
  <2>10. /\ index' \in [Pid -> Locator \cup {None}] /\ registry' \subseteq Pid /\ reserved' \in Nat
         /\ \A f \in Place : DbAt(f)' = DbAt(f) \/ DatabaseIsTrue(f)'
    BY <1>4, <2>7, <2>8 DEF Intake, IntakeTyped
  <2> QED BY <1>4, <2>7, <2>9, <2>10, IndexStays, ReturnKeeps
<1> QED BY <1>3, <1>5, <1>6 DEF Swap

\* An opened descriptor has a row, which keeps its grants or is cleared.
LEMMA RememberKeeps ==
  ASSUME Intake, NEW x \in Process, NEW a \in Actors, Remember(x, a)
  PROVE  Intake'
<1> DEFINE p == task[x].pid
           old == index[p]
           n == [place |-> task[x].place, actor |-> a, pending |-> None,
                 grants |-> IF old # None /\ old.place = task[x].place THEN old.grants ELSE {},
                 cleared |-> old = None \/ old.place # task[x].place \/ old.cleared]
<1>1. task[x].pc = "remember" /\ TaskIsTrue(x)
  BY DEF Remember, At, Intake
<1>2. p \in Pid /\ task[x].place \in Place /\ index[p] # None /\ index[p] \in Locator
  BY <1>1 DEF TaskIsTrue, Intake, IntakeTyped
<1>3. Return(x) /\ UNCHANGED <<disk, registry, setting, reserved>>
  BY DEF Remember
<1>4. CASE UNCHANGED index
  BY <1>3, <1>4, ReadingKeeps DEF store
<1>5. CASE index' = [index EXCEPT ![p] = n]
  <2>1. /\ n \in Locator /\ n.pending = None
        /\ old.cleared => n.cleared
    BY <1>2 DEF Locator
  <2>2. n.cleared \/ old.grants \subseteq n.grants
    BY <1>2
  <2> HIDE DEF n
  <2>3. Matures /\ (\A o \in Pid : RowIsTrue(o)') /\ ReservedOnce'
    BY <1>2, <1>3, <1>5, <2>1, <2>2, RowKeeps
  <2>4. /\ index' \in [Pid -> Locator \cup {None}] /\ disk' \in [Place -> Directory]
        /\ registry' \subseteq Pid /\ reserved' \in Nat
        /\ \A d \in Place : DbAt(d)' = DbAt(d)
    BY <1>2, <1>3, <1>5, <2>1, RowChanges DEF Intake, IntakeTyped, DbAt
  <2>5. Registered'
    BY <1>3, <2>4, RegistryStays
  <2> QED BY <1>3, <2>3, <2>4, <2>5, ReturnKeeps
<1> QED BY <1>4, <1>5 DEF Remember

\* A finished project is nowhere in particular.
LEMMA MoveKeeps ==
  ASSUME Intake, NEW d \in Place, NEW e \in Free, Move(d, e)
  PROVE  Intake'
<1>1. /\ UNCHANGED <<index, registry, setting, task, reserved>> /\ ~setting.managed
      /\ DbAt(d) # None /\ index[DbAt(d).pid].pending = None
      /\ disk' = [disk EXCEPT ![e] = disk[d], ![d] = NoDir]
  BY DEF Move, DbAt
<1>2. e \in Place
  BY DEF Place
<1>3. disk' \in [Place -> Directory]
  <2>1. NoDir \in Directory
    BY DEF NoDir, Directory
  <2> QED BY <1>1, <1>2, <2>1 DEF Intake, IntakeTyped
<1>4. /\ DbAt(d)' = None
      /\ e # d => DbAt(e)' = DbAt(d)
      /\ \A f \in Place \ {d, e} : DbAt(f)' = DbAt(f)
  BY <1>1, <1>2 DEF Intake, IntakeTyped, DbAt, NoDir
<1>5. Matures /\ (\A p \in Pid : RowIsTrue(p)') /\ ReservedOnce'
  BY <1>1, IndexStays
<1>6. \A y \in Process : TaskIsTrue(y)'
  BY <1>1, <1>5, TaskStays
<1>7. ASSUME e # d PROVE DatabaseIsTrue(e)'
  <2>1. DatabaseIsTrue(d)
    BY DEF Intake
  <2> QED BY <1>1, <1>4, <1>7, <2>1 DEF DatabaseIsTrue, MadeBy, HomeOf
<1>8. \A f \in Place : DatabaseIsTrue(f)'
  <2>1. DatabaseIsTrue(d)'
    BY <1>4 DEF DatabaseIsTrue
  <2>2. ASSUME NEW f \in Place \ {d, e} PROVE DatabaseIsTrue(f)'
    BY <1>1, <1>4, <1>5, DatabaseStays
  <2> QED BY <1>7, <2>1, <2>2
<1>9. IntakeTyped' /\ Registered'
  BY <1>1, <1>3 DEF Intake, IntakeTyped, Registered
<1> QED BY <1>5, <1>6, <1>8, <1>9 DEF Intake

LEMMA NextKeepsIntake ==
  ASSUME Intake, Next
  PROVE  Intake'
<1>1. ASSUME NEW x \in Process, Serving(x) PROVE Intake'
  <2>1. CASE Lock(x) \/ Busy(x) \/ Mark(x) \/ Foreign(x)
    BY <2>1, TakingKeeps
  <2>2. CASE Resume(x)
    BY <2>2, ResumeKeeps
  <2>3. CASE MakeDirectory(x)
    BY <2>3, MakeDirectoryKeeps
  <2>4. CASE Link(x)
    BY <2>4, LinkKeeps
  <2>5. CASE Register(x)
    BY <2>5, RegisterKeeps
  <2>6. CASE Finish(x)
    BY <2>6, FinishKeeps
  <2>7. CASE Grant(x)
    BY <2>7, GrantKeeps
  <2>8. CASE Swap(x)
    BY <2>8, SwapKeeps
  <2>9. CASE \E a \in Actors : Remember(x, a)
    BY <2>9, RememberKeeps
  <2> QED BY <1>1, <2>1, <2>2, <2>3, <2>4, <2>5, <2>6, <2>7, <2>8, <2>9 DEF Serving, Creating
<1>2. ASSUME NEW x \in Process,
             \/ Stop(x)
             \/ \E q \in setting.requests : Reserve(x, q)
             \/ \E p \in Pid, s \in setting.relinks : StartRelink(x, p, s)
             \/ \E d \in Place : OpenLocator(x, d)
      PROVE  Intake'
  BY <1>2, ResumeKeeps, ReserveKeeps, StartRelinkKeeps, OpenLocatorKeeps
<1>3. CASE \E d \in Place, e \in Free : Move(d, e)
  BY <1>3, MoveKeeps
<1> QED BY <1>1, <1>2, <1>3 DEF Next

-----------------------------------------------------------------------------
(* Beside imports, which are none of its business *)

LEMMA ImportKeepsIntake ==
  ASSUME Intake, NEW x \in Process, Snapshot(x) \/ Importing(x) \/ StopImport(x)
  PROVE  Intake'
<1>1. UNCHANGED <<store, setting, reserved>>
  BY DEF Snapshot, Importing, Known, PublishBackup, PublishModule, AddRow, StopImport, Stop
<1>2. CASE Return(x)
  BY <1>1, <1>2, ReadingKeeps
<1>3. CASE \E pc \in {"backup", "module", "row"} : Goto(x, pc)
  <2>1. PICK pc \in {"backup", "module", "row"} : Goto(x, pc)
    BY <1>3
  <2>2. /\ task' \in [Process -> Task] /\ task'[x] = [task[x] EXCEPT !.pc = pc]
        /\ \A y \in Process \ {x} : task'[y] = task[y]
    BY <2>1, PcTyping DEF Intake, Pc, ImportPc
  <2>3. task'[x].pc = pc
    BY <2>2 DEF Intake, IntakeTyped, Task
  <2>4. TaskIsTrue(x)'
    BY <2>3 DEF TaskIsTrue, CreationPc
  <2>5. IntakeTyped' /\ Registered' /\ \A d \in Place : DbAt(d)' = DbAt(d)
    BY <1>1, <2>2 DEF Intake, IntakeTyped, Registered, DbAt, store
  <2> QED BY <1>1, <2>2, <2>4, <2>5, IndexStays, StepKeeps DEF store
<1>4. CASE Snapshot(x)
  <2> DEFINE t == [Idle EXCEPT !.pc = "known", !.pid = setting.target]
  <2>1. t \in Task /\ t.pc = "known"
    BY SettingIsTyped DEF Idle, Task, Pc, ImportPc, Intake
  <2>2. Begin(x, t)
    BY <1>4 DEF Snapshot
  <2> HIDE DEF t
  <2> QED BY <1>1, <2>1, <2>2, BeginKeeps DEF CreationPc, store
<1> QED
  BY <1>2, <1>3, <1>4 DEF Importing, Known, PublishBackup, PublishModule, AddRow, StopImport, Stop, EndImport

LEMMA StutteringKeepsIntake ==
  ASSUME Intake, UNCHANGED vars
  PROVE  Intake'
<1>1. /\ UNCHANGED <<index, disk, registry, setting, task, reserved>>
  BY DEF vars, store
<1>2. IntakeTyped' /\ Registered' /\ ReservedOnce'
  BY <1>1 DEF Intake, IntakeTyped, Registered, ReservedOnce, DbAt
<1>3. Matures /\ \A p \in Pid : RowIsTrue(p)'
  BY <1>1, IndexStays
<1>4. \A y \in Process : TaskIsTrue(y)'
  BY <1>1, <1>3, TaskStays
<1>5. \A d \in Place : DatabaseIsTrue(d)'
  BY <1>1, <1>3, DatabaseStays DEF DbAt
<1> QED BY <1>2, <1>3, <1>4, <1>5 DEF Intake

LEMMA IntakeAlways == MigrationSpec => []Intake
<1>1. Intake /\ [MigrationNext]_allVars => Intake'
  <2> SUFFICES ASSUME Intake, [MigrationNext]_allVars PROVE Intake'
    OBVIOUS
  <2>1. CASE \E x \in Process : Snapshot(x) \/ Importing(x) \/ StopImport(x)
    BY <2>1, ImportKeepsIntake
  <2>2. CASE Next
    BY <2>2, NextKeepsIntake
  <2>3. CASE UNCHANGED vars
    BY <2>3, StutteringKeepsIntake
  <2> QED BY <2>1, <2>2, <2>3 DEF MigrationNext, WriteLegacy, allVars
<1> QED BY <1>1, InitIsIntake, PTL DEF MigrationSpec

\* One request has one unfinished project wherever its creation stopped and
\* whoever repeats it, and what is registered is published under its identity,
\* for any processes, requests, directories and bounds.  (create,
\* _create_managed)
THEOREM CreationsAreSingle == MigrationSpec => []OneProjectPerRequest
<1>1. Intake => OneProjectPerRequest
  <2> SUFFICES ASSUME Intake PROVE OneProjectPerRequest
    OBVIOUS
  <2>1. ASSUME NEW q \in Request PROVE Cardinality(Pending(q)) <= 1
    <3>1. q # None
      BY IntakeAssumption
    <3>2. \A p, o \in Pending(q) : p = o
      BY <3>1 DEF Pending, Intake, ReservedOnce
    <3>3. Pending(q) = {} \/ \E p : Pending(q) = {p}
      BY <3>2
    <3>4. Cardinality(Pending(q)) = 0 \/ Cardinality(Pending(q)) = 1
      BY <3>3, FS_EmptySet, FS_Singleton
    <3> QED BY <3>4
  <2>2. ASSUME NEW d \in Place, NEW e \in Place, DbAt(d) # None, DbAt(e) # None, d # e,
               DbAt(d).request = DbAt(e).request
        PROVE  \E x \in {d, e} : index[DbAt(x).pid].pending = None
    <3> SUFFICES ASSUME index[DbAt(d).pid].pending # None, index[DbAt(e).pid].pending # None
                 PROVE  FALSE
      OBVIOUS
    <3>1. DatabaseIsTrue(d) /\ DatabaseIsTrue(e)
      BY DEF Intake
    <3>2. DbAt(d).pid \in Pid /\ DbAt(e).pid \in Pid
      BY <2>2, DatabaseIsTyped DEF Intake
    <3>3. DbAt(d).pid = DbAt(e).pid
      BY <2>2, <3>1, <3>2 DEF Intake, ReservedOnce, DatabaseIsTrue, MadeBy
    <3> QED BY <2>2, <3>1, <3>3 DEF DatabaseIsTrue
  <2>3. \A d \in Place : DbAt(d) # None => index[DbAt(d).pid] # None
    BY DEF Intake, DatabaseIsTrue, MadeBy
  <2>4. \A p \in registry : DbAt(p) # None /\ DbAt(p).pid = p
    BY DEF Intake, Registered
  <2> QED BY <2>1, <2>2, <2>3, <2>4 DEF OneProjectPerRequest
<1> QED BY <1>1, IntakeAlways, PTL

\* A descriptor's sources are granted in the index, wherever a relink stopped
\* or was refused, for any processes, sources and bounds.  (relink, _remember)
THEOREM GrantsCoverTheSources == MigrationSpec => []SourcesAreGranted
<1>1. Intake => SourcesAreGranted
  <2> SUFFICES ASSUME Intake, NEW p \in Pid, ~setting.managed, index[p] # None, Reachable(p),
                      ~index[p].cleared
               PROVE  DbAt(index[p].place).source \in index[p].grants
    BY DEF SourcesAreGranted
  <2>1. Located(p) = index[p].place
    BY DEF Located
  <2>2. index[p].place \in Place /\ DbAt(index[p].place) # None /\ DbAt(index[p].place).pid = p
    BY <2>1, ReachableIsLocated
  <2> QED BY <2>2 DEF Intake, DatabaseIsTrue
<1> QED BY <1>1, IntakeAlways, PTL
=============================================================================
