--------------------------- MODULE ProjectMigration ---------------------------
(***************************************************************************)
(* Importing the session file of an older release into a project           *)
(* (project_migration.py): a consistent snapshot is published as a backup  *)
(* under its hash, migrated and published as a module session under the    *)
(* hash of its rows, and entered in the project's table.  Both files are   *)
(* linked in only where none is; no worker lock is taken, so imports of    *)
(* one file race, may stop anywhere, and the file is still in use.         *)
(*                                                                         *)
(* The rows of a file decide its revision, every write gives it another    *)
(* image, and the migrated copy is a function of the image: an image also  *)
(* stands for the copy made of it.  Beside ProjectIntake, whose processes  *)
(* and projects these are; one project imports.                            *)
(***************************************************************************)
EXTENDS ProjectIntake

CONSTANTS Rows,     \* what the older session may hold
          MaxWrites \* bound: writes to the older session

VARIABLES
  legacy,   \* the older session file
  staged,   \* the snapshot a process works on
  backups,  \* the images under backups/ of the project
  modules,  \* per revision: the image whose copy is under modules/
  sessions  \* table project_module_session: the image its row names

imported == <<backups, modules, sessions>>
migration == <<legacy, staged, imported>>
allVars == <<vars, migration>>

Image == [rows : Rows, writes : 0..MaxWrites]

ASSUME MigrationAssumption == MaxWrites \in Nat /\ Rows # {} /\ None \notin Image

MigrationInit ==
  /\ Init
  /\ legacy = [rows |-> CHOOSE r \in Rows : TRUE, writes |-> 0]
  /\ staged = [x \in Process |-> None]
  /\ backups = {}
  /\ modules = [r \in Rows |-> None]
  /\ sessions = [r \in Rows |-> None]

\* The backup interface of SQLite: one state of the file, committed WAL too.
Snapshot(x) ==
  /\ setting.target # None /\ At(x, "idle") /\ Reachable(setting.target)
  /\ staged' = [staged EXCEPT ![x] = legacy]
  /\ Begin(x, [Idle EXCEPT !.pc = "known", !.pid = setting.target])
  /\ UNCHANGED <<store, setting, lock, reserved, stops, legacy, imported>>

EndImport(x) == Return(x) /\ staged' = [staged EXCEPT ![x] = None]
Revision(x) == staged[x].rows
Recorded(x) == sessions[Revision(x)]
Published(x) == modules[Revision(x)]

\* A revision with a row is answered from the row.
Known(x) ==
  /\ At(x, "known")
  /\ IF Recorded(x) # None THEN EndImport(x) ELSE Goto(x, "backup") /\ UNCHANGED <<lock, staged>>
  /\ UNCHANGED <<store, setting, reserved, stops, legacy, imported>>

\* The hash is the name, so a file that is there is this one.
PublishBackup(x) ==
  /\ At(x, "backup")
  /\ backups' = backups \cup {staged[x]}
  /\ Goto(x, "module")
  /\ UNCHANGED <<store, setting, lock, reserved, stops, legacy, staged, modules, sessions>>

\* A slip: the copy is moved to its place over what is there.
PublishAnew(x) ==
  /\ At(x, "module")
  /\ modules' = [modules EXCEPT ![Revision(x)] = staged[x]]
  /\ Goto(x, "row")
  /\ UNCHANGED <<store, setting, lock, reserved, stops, legacy, staged, backups, sessions>>

\* A slip: whatever is there, the same copy too, ends the import.
PublishOnce(x) ==
  /\ At(x, "module")
  /\ IF Published(x) = None
     THEN /\ modules' = [modules EXCEPT ![Revision(x)] = staged[x]]
          /\ Goto(x, "row") /\ UNCHANGED <<lock, staged>>
     ELSE EndImport(x) /\ UNCHANGED modules
  /\ UNCHANGED <<store, setting, reserved, stops, legacy, backups, sessions>>

\* Linked in where there is none, or the same copy of a stopped import; a copy
\* made of another image is kept and the import refused.
PublishModule(x) ==
  /\ At(x, "module")
  /\ IF Published(x) \in {None, staged[x]}
     THEN /\ modules' = [modules EXCEPT ![Revision(x)] = staged[x]]
          /\ Goto(x, "row") /\ UNCHANGED <<lock, staged>>
     ELSE EndImport(x) /\ UNCHANGED modules
  /\ UNCHANGED <<store, setting, reserved, stops, legacy, backups, sessions>>

\* The primary key refuses the second of two imports.
AddRow(x) ==
  /\ At(x, "row")
  /\ sessions' = IF Recorded(x) # None THEN sessions
                 ELSE [sessions EXCEPT ![Revision(x)] = staged[x]]
  /\ EndImport(x)
  /\ UNCHANGED <<store, setting, reserved, stops, legacy, backups, modules>>

\* The older session is still in use: its rows change or are only written anew.
WriteLegacy(r) ==
  /\ setting.target # None /\ legacy.writes < MaxWrites
  /\ legacy' = [rows |-> r, writes |-> legacy.writes + 1]
  /\ UNCHANGED <<vars, staged, imported>>

\* A write or a transaction fails or the process dies: the staging is gone.
StopImport(x) ==
  /\ staged[x] # None /\ Stop(x)
  /\ staged' = [staged EXCEPT ![x] = None]
  /\ UNCHANGED <<legacy, imported>>

Importing(x) == Known(x) \/ PublishBackup(x) \/ PublishModule(x) \/ AddRow(x)

MigrationNext ==
  \/ \E x \in Process :
       Snapshot(x) \/ Importing(x) \/ StopImport(x)
  \/ \E r \in Rows : WriteLegacy(r)
  \/ Next /\ (\A x \in Process : staged[x] # None => task'[x] = task[x]) /\ UNCHANGED migration

MigrationSpec == MigrationInit /\ [][MigrationNext]_allVars

\* The server serves what it has begun, and the user repeats what was not
\* done: a creation whose reservation is still there, an import.
FairSpec ==
  /\ MigrationSpec
  /\ \A x \in Process : WF_allVars(Importing(x) \/ (Serving(x) /\ UNCHANGED migration))
  /\ \A q \in Request : SF_vars(q \in setting.requests /\ \E x \in Process : Reserve(x, q))
  /\ SF_allVars(\E x \in Process : Snapshot(x))

-----------------------------------------------------------------------------
(* Properties *)

\* A module session that is entered is the copy of the image its row names,
\* holds the rows it is named after, and its unchanged original is among the
\* backups, whoever else imported the file and wherever they stopped.
\* (import_legacy_session, _publish_file)
ImportedIsWhole ==
  \A r \in Rows : LET i == sessions[r] IN
    i # None => i.rows = r /\ modules[r] = i /\ i \in backups

\* Published and not entered, and the older session is as it was.
HalfImported ==
  /\ setting.target # None /\ Reachable(setting.target)
  /\ modules[legacy.rows] = legacy /\ sessions[legacy.rows] = None

\* A creation or an import that stopped halfway is finished when it is
\* repeated: the creation unless its project was changed in the meantime, the
\* import unless the older session was written.
\* (create, _create_managed, import_legacy_session)
RetriesFinish == []<>(~HalfImported /\ \A p \in Pid : ~Unfinished(p))
=============================================================================
