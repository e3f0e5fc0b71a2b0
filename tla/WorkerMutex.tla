----------------------------- MODULE WorkerMutex -----------------------------
(***************************************************************************)
(* What the project worker lock promises its callers: at most one thread,  *)
(* of any process, is inside the guarded section, only that thread leaves  *)
(* it, and the death of its process leaves it too.  WorkerLock implements  *)
(* this specification; ProjectJobs is built on it.                         *)
(***************************************************************************)

CONSTANTS
  Thread,     \* every thread that may run a project operation
  Process,    \* the processes they belong to
  ProcOf,     \* the process of each thread
  NoThread    \* the absent holder

VARIABLE holder  \* the thread inside the guarded section, or NoThread

Init == holder = NoThread

Acquire(t) ==
  /\ holder = NoThread
  /\ holder' = t

Release(t) ==
  /\ holder = t
  /\ holder' = NoThread

\* The holder left when its process is gone: the operating system drops its lock.
HolderAfterDeath(p) ==
  IF holder # NoThread /\ ProcOf[holder] = p THEN NoThread ELSE holder

Die(p) == holder' = HolderAfterDeath(p)

Next ==
  \/ \E t \in Thread : Acquire(t) \/ Release(t)
  \/ \E p \in Process : Die(p)

Spec == Init /\ [][Next]_holder
=============================================================================
