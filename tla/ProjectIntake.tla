---------------------------- MODULE ProjectIntake ----------------------------
(***************************************************************************)
(* Where projects come from (project_intake.py, the creation half of       *)
(* project_store.py, the registration of authstore.py): a creation writes  *)
(* four places one after the other - the locator index, the marker of the  *)
(* directory, the database and, with accounts, the control plane - and may *)
(* stop between any two of them; the same request repeated goes on where   *)
(* it stopped.  Beside it, the operations on the same index: relinking a   *)
(* source folder and opening a moved descriptor.                           *)
(*                                                                         *)
(* A process is a thread or a program serving one call at a time.  Its     *)
(* failure and its death have the same effect here: the operating system   *)
(* releases its lock and what it wrote stays.                              *)
(***************************************************************************)
EXTENDS Integers, FiniteSets

CONSTANTS Process, Source, None,
          Request,     \* creations: [actor, dest, source]; dest None: the default
          Settings,    \* bound: the settings explored, see the variable
          Free,        \* places a directory may be moved to
          MaxProjects, \* bound: projects ever reserved
          MaxConfig,   \* bound: relinks of a project
          MaxStops     \* bound: operations that stop halfway

Pid == 1..MaxProjects
Place == Pid \cup Free \cup ({q.dest : q \in Request} \ {None})

Actors == {q.actor : q \in Request}

\* A row of the index, and what a database tells of its project.
Locator == [place : Place, actor : Actors, grants : SUBSET Source, pending : Request \cup {None},
            cleared : BOOLEAN]
Database == [pid : Pid, request : Request, source : Source, config : 0..MaxConfig]

ASSUME IntakeAssumption ==
  /\ {MaxProjects, MaxConfig, MaxStops} \subseteq Nat
  /\ \A q \in Request : q.source \in Source
  /\ Settings \subseteq [managed : BOOLEAN, requests : SUBSET Request, relinks : SUBSET Source,
                            projects : Pid, target : Pid \cup {None}]
  /\ None \notin Place \cup Source \cup Process
  /\ None \notin Request /\ None \notin Locator /\ None \notin Database

VARIABLES
  index,     \* locators.json: the row of a project, or None
  disk,      \* a directory: is it there, initialization marker, .formslang,
             \* database (its mirror is in ProjectMirror)
  registry,  \* table project of auth.db: the managed projects
  setting,   \* chosen once: has the installation accounts, and (bounds) which
             \* creations are asked for, which folders are relinked, how many
             \* projects there are and which one an older session is imported
             \* into (ProjectMigration)
  lock,      \* who holds the initialization lock of a directory
  task,      \* what a process is doing
  reserved,  \* projects reserved so far: the last one's identity
  stops      \* operations that stopped halfway

store == <<index, disk, registry>>
vars == <<store, setting, lock, task, reserved, stops>>

NoDir == [root |-> FALSE, marker |-> None, dir |-> FALSE, db |-> None]
Idle == [pc |-> "idle", request |-> None, pid |-> None, place |-> None, source |-> None, config |-> 0]

Init ==
  /\ index = [p \in Pid |-> None] /\ disk = [d \in Place |-> NoDir] /\ registry = {}
  /\ lock = [d \in Place |-> None] /\ task = [x \in Process |-> Idle]
  /\ setting \in Settings /\ reserved = 0 /\ stops = 0

At(x, pc) == task[x].pc = pc
Goto(x, pc) == task' = [task EXCEPT ![x].pc = pc]
Begin(x, t) == task' = [task EXCEPT ![x] = t]
Release(x) == lock' = [d \in Place |-> IF lock[d] = x THEN None ELSE lock[d]]
Return(x) == Begin(x, Idle) /\ Release(x)

-----------------------------------------------------------------------------
(* Creation *)

\* The directory of a new project: the one asked for, or its own.
HomeOf(q, p) == IF q.dest = None THEN p ELSE q.dest

Pending(q) == {p \in Pid : index[p] # None /\ index[p].pending = q}

NewRow(q, p) ==
  [place |-> HomeOf(q, p), actor |-> q.actor, grants |-> {q.source}, pending |-> q,
   cleared |-> FALSE]

\* Under the index lock: the reservation of the same request, or a new one.
Reserve(x, q) ==
  /\ At(x, "idle") /\ (setting.managed => q.dest = None)
  /\ \E p \in Pid :
       /\ \/ p \in Pending(q) /\ UNCHANGED <<index, reserved>>
          \/ /\ Pending(q) = {} /\ p = reserved + 1 /\ p <= setting.projects
             /\ reserved' = p /\ index' = [index EXCEPT ![p] = NewRow(q, p)]
       /\ Begin(x, [Idle EXCEPT !.pc = "lock", !.request = q, !.pid = p, !.place = HomeOf(q, p)])
  /\ UNCHANGED <<disk, registry, setting, lock, stops>>

\* The lock of the directory is tried, not waited for.
Lock(x) ==
  LET d == task[x].place IN
  /\ At(x, "lock") /\ lock[d] = None
  /\ lock' = [lock EXCEPT ![d] = x]
  /\ disk' = [disk EXCEPT ![d].root = TRUE]
  /\ Goto(x, "mark")
  /\ UNCHANGED <<index, registry, setting, reserved, stops>>

Busy(x) ==
  /\ At(x, "lock") /\ lock[task[x].place] # None
  /\ disk' = [disk EXCEPT ![task[x].place].root = TRUE]
  /\ Return(x) /\ UNCHANGED <<index, registry, setting, reserved, stops>>

Marker(t) == [pid |-> t.pid, request |-> t.request]

\* The marker is mine, or there is none and no project either.
Mark(x) ==
  LET t == task[x] IN
  /\ At(x, "mark")
  /\ \/ disk[t.place].marker = Marker(t) /\ UNCHANGED disk
     \/ /\ disk[t.place].marker = None /\ ~disk[t.place].dir
        /\ disk' = [disk EXCEPT ![t.place].marker = Marker(t)]
  /\ Goto(x, "publish")
  /\ UNCHANGED <<index, registry, setting, lock, reserved, stops>>

Foreign(x) ==
  LET d == disk[task[x].place] IN
  /\ At(x, "mark") /\ d.marker # Marker(task[x]) /\ (d.marker # None \/ d.dir)
  /\ Return(x) /\ UNCHANGED <<store, setting, reserved, stops>>

Descriptor(t) == [pid |-> t.pid, request |-> t.request, source |-> t.request.source, config |-> 0]

AfterDatabase(t) == IF setting.managed THEN "register" ELSE "finish"

\* A slip: a database that is there is refused, whoever made it.
ResumeNever(x) ==
  /\ At(x, "publish") /\ disk[task[x].place].db # None
  /\ Return(x) /\ UNCHANGED <<store, setting, reserved, stops>>

\* A database that is there must be the one this request would make.
Resume(x) ==
  LET t == task[x]
      d == disk[t.place] IN
  /\ At(x, "publish") /\ d.db # None
  /\ IF [d.db EXCEPT !.config = 0] = Descriptor(t)
     THEN Goto(x, AfterDatabase(t)) /\ UNCHANGED lock
     ELSE Return(x)
  /\ UNCHANGED <<store, setting, reserved, stops>>

\* The directory is taken exclusively, then the staged database is linked in.
MakeDirectory(x) ==
  LET d == task[x].place IN
  /\ At(x, "publish") /\ disk[d].db = None
  /\ IF disk[d].dir
     THEN Return(x) /\ UNCHANGED disk
     ELSE /\ disk' = [disk EXCEPT ![d].dir = TRUE]
          /\ Goto(x, "link") /\ UNCHANGED lock
  /\ UNCHANGED <<index, registry, setting, reserved, stops>>

Link(x) ==
  LET t == task[x] IN
  /\ At(x, "link")
  /\ IF disk[t.place].dir /\ disk[t.place].db = None
     THEN /\ disk' = [disk EXCEPT ![t.place].db = Descriptor(t)]
          /\ Goto(x, AfterDatabase(t)) /\ UNCHANGED lock
     ELSE Return(x) /\ UNCHANGED disk
  /\ UNCHANGED <<index, registry, setting, reserved, stops>>

\* Idempotent: the descriptor is read again and must carry the identity.
Register(x) ==
  LET t == task[x] IN
  /\ At(x, "register") /\ disk[t.place].db # None /\ disk[t.place].db.pid = t.pid
  /\ registry' = registry \cup {t.pid}
  /\ Goto(x, "finish")
  /\ UNCHANGED <<index, disk, setting, lock, reserved, stops>>

Finish(x) ==
  /\ At(x, "finish")
  /\ index' = [index EXCEPT ![task[x].pid].pending = None]
  /\ Return(x)
  /\ UNCHANGED <<disk, registry, setting, reserved, stops>>

\* A slip: a creation that fails takes its reservation back.
StopForgets(x) ==
  /\ ~At(x, "idle") /\ stops < MaxStops /\ stops' = stops + 1
  /\ index' = IF task[x].request = None THEN index ELSE [index EXCEPT ![task[x].pid] = None]
  /\ Return(x) /\ UNCHANGED <<disk, registry, setting, reserved>>

\* A write fails, authority is withdrawn or the process dies.
Stop(x) ==
  /\ ~At(x, "idle") /\ stops < MaxStops /\ stops' = stops + 1
  /\ Return(x) /\ UNCHANGED <<store, setting, reserved>>

-----------------------------------------------------------------------------
(* Relinking a source folder *)

\* The directory the index, or the control plane, names for a project.
Located(p) == IF setting.managed THEN p ELSE index[p].place

\* A local row must lead to a project of that identity.
Reachable(p) ==
  /\ IF setting.managed THEN p \in registry ELSE index[p] # None
  /\ LET db == disk[Located(p)].db IN db # None /\ (setting.managed \/ db.pid = p)

\* The client's revision may be an old one.
StartRelink(x, p, s) ==
  /\ At(x, "idle") /\ Reachable(p)
  /\ \E c \in 0..disk[Located(p)].db.config :
       Begin(x, [Idle EXCEPT !.pc = IF setting.managed THEN "swap" ELSE "grant",
                             !.pid = p, !.source = s, !.config = c])
  /\ UNCHANGED <<store, setting, lock, reserved, stops>>

\* A slip: the new folder takes the place of what was granted.
GrantReplaces(x) ==
  LET t == task[x] IN
  /\ At(x, "grant")
  /\ index' = [index EXCEPT ![t.pid].grants = {t.source}]
  /\ Goto(x, "swap")
  /\ UNCHANGED <<disk, registry, setting, lock, reserved, stops>>

\* The capability is granted first and kept if the descriptor refuses.
Grant(x) ==
  LET t == task[x] IN
  /\ At(x, "grant")
  /\ index' = [index EXCEPT ![t.pid].grants = @ \cup {t.source}]
  /\ Goto(x, "swap")
  /\ UNCHANGED <<disk, registry, setting, lock, reserved, stops>>

\* Access is asked for again; the replaced root must be granted.
Swap(x) ==
  LET t == task[x]
      d == Located(t.pid)
      db == disk[d].db IN
  /\ At(x, "swap")
  /\ IF /\ Reachable(t.pid) /\ (setting.managed \/ t.source \in index[t.pid].grants)
        /\ db.config = t.config /\ t.config < MaxConfig
     THEN disk' = [disk EXCEPT ![d].db = [db EXCEPT !.source = t.source,
                                                    !.config = t.config + 1]]
     ELSE UNCHANGED disk
  /\ Return(x)
  /\ UNCHANGED <<index, registry, setting, reserved, stops>>

-----------------------------------------------------------------------------
(* Descriptors opened by hand, directories moved by their owner *)

OpenLocator(x, d) ==
  /\ At(x, "idle") /\ ~setting.managed /\ disk[d].db # None
  /\ Begin(x, [Idle EXCEPT !.pc = "remember", !.pid = disk[d].db.pid, !.place = d])
  /\ UNCHANGED <<store, setting, lock, reserved, stops>>

\* A known project is relocated only if nothing is left at its old place; the
\* new row has no reservation, and no capabilities if it moved.
Remember(x, a) ==
  LET t == task[x]
      old == index[t.pid] IN
  /\ At(x, "remember")
  /\ IF old = None \/ (old.actor = a /\ (old.place = t.place \/ ~disk[old.place].root))
     THEN index' = [index EXCEPT ![t.pid] =
            [place |-> t.place, actor |-> a, pending |-> None,
             grants |-> IF old # None /\ old.place = t.place THEN old.grants ELSE {},
             cleared |-> old = None \/ old.place # t.place \/ old.cleared]]
     ELSE UNCHANGED index
  /\ Return(x)
  /\ UNCHANGED <<disk, registry, setting, reserved, stops>>

\* The user renames the directory of a finished project nobody works on.
Move(d, e) ==
  /\ ~setting.managed /\ disk[d].db # None /\ ~disk[e].root
  /\ LET p == disk[d].db.pid IN
       index[p].pending = None /\ \A x \in Process : task[x].pid # p
  /\ disk' = [disk EXCEPT ![e] = disk[d], ![d] = NoDir]
  /\ UNCHANGED <<index, registry, setting, lock, task, reserved, stops>>

-----------------------------------------------------------------------------
Creating(x) ==
  \/ Lock(x) \/ Busy(x) \/ Mark(x) \/ Foreign(x) \/ Resume(x) \/ MakeDirectory(x)
  \/ Link(x) \/ Register(x) \/ Finish(x)

Serving(x) == Creating(x) \/ Grant(x) \/ Swap(x) \/ \E a \in Actors : Remember(x, a)

Next ==
  \/ \E x \in Process :
       \/ Serving(x) \/ Stop(x)
       \/ \E q \in setting.requests : Reserve(x, q)
       \/ \E p \in Pid, s \in setting.relinks : StartRelink(x, p, s)
       \/ \E d \in Place : OpenLocator(x, d)
  \/ \E d \in Place, e \in Free : Move(d, e)

Spec == Init /\ [][Next]_vars

-----------------------------------------------------------------------------
(* Properties *)

DbAt(d) == disk[d].db

\* Wherever a creation stopped and whoever repeats it, one request has one
\* unfinished project, and its database is published under the identity that
\* was reserved for it, once.  (create, _create_managed)
OneProjectPerRequest ==
  /\ \A q \in Request : Cardinality(Pending(q)) <= 1
  /\ \A d, e \in Place :
       /\ DbAt(d) # None /\ DbAt(e) # None /\ d # e
       => DbAt(d).request # DbAt(e).request \/ \E x \in {d, e} : index[DbAt(x).pid].pending = None
  /\ \A d \in Place : DbAt(d) # None => index[DbAt(d).pid] # None
  /\ \A p \in registry : DbAt(p) # None /\ DbAt(p).pid = p

\* The sources of a project's descriptor are granted in the index wherever a
\* relink stopped or was refused, unless the project was relocated, which
\* drops its grants.  (relink, _remember)
SourcesAreGranted ==
  \A p \in Pid : ~setting.managed /\ index[p] # None /\ Reachable(p) /\ ~index[p].cleared
               => DbAt(index[p].place).source \in index[p].grants

\* Nobody else asks for this directory.
Alone(q) == q.dest = None \/ \A r \in setting.requests \ {q} : r.dest # q.dest

\* Its database is published and its reservation still there.
Unfinished(p) ==
  \E q \in Request :
    /\ Alone(q) /\ p \in Pending(q)
    /\ DbAt(index[p].place) # None /\ DbAt(index[p].place).pid = p
    /\ DbAt(index[p].place).config = 0
=============================================================================
