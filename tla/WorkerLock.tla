------------------------------ MODULE WorkerLock ------------------------------
(***************************************************************************)
(* project_lock.py: the lock every project operation runs under.  One      *)
(* acquisition takes two locks in turn, a threading.Lock of the calling    *)
(* process and an OS lock on .formslang/project.worker.lock, and gives     *)
(* them back in the opposite order.  A blocking caller (the locator index) *)
(* may enter again while it is inside; the inner entry takes and releases  *)
(* nothing.                                                                *)
(***************************************************************************)
EXTENDS Naturals

CONSTANTS
  Thread,     \* every thread that may enter the lock
  Process,    \* the processes they belong to
  ProcOf,     \* the process of each thread
  NoThread,   \* the absent owner of a lock
  MaxDepth,   \* bound: how deep blocking entries are nested
  MaxCrashes  \* bound: how many times a process dies

ASSUME LockAssumption ==
  /\ ProcOf \in [Thread -> Process]
  /\ NoThread \notin Thread
  /\ MaxDepth \in Nat
  /\ MaxCrashes \in Nat

VARIABLES
  threadLock,  \* _locks: the owner of each process's threading.Lock
  fileLock,    \* the thread whose open stream holds the OS lock
  keys,        \* threads whose _thread_state.blocking_keys holds this lock's key
  depth,       \* entries nested in the outer blocking entry of each thread
  mode,        \* how the current call of each thread was made
  at,          \* where each thread is in project_worker_lock
  crashes      \* process deaths so far

lockVars == <<threadLock, fileLock, keys, depth, mode, at, crashes>>

Mode == {"blocking", "nonblocking"}

\* "outside": no call in progress. "thread": at lock.acquire. "file": at flock.
\* "inside": after the yield. "unlocking": file lock released, thread lock held.
\* "failing": the OS refused, the thread lock is still held.
Location == {"outside", "thread", "file", "inside", "unlocking", "failing"}

TypeOK ==
  /\ threadLock \in [Process -> Thread \cup {NoThread}]
  /\ fileLock \in Thread \cup {NoThread}
  /\ keys \subseteq Thread
  /\ depth \in [Thread -> 0..MaxDepth]
  /\ mode \in [Thread -> Mode]
  /\ at \in [Thread -> Location]
  /\ crashes \in 0..MaxCrashes

LockInit ==
  /\ threadLock = [p \in Process |-> NoThread]
  /\ fileLock = NoThread
  /\ keys = {}
  /\ depth = [t \in Thread |-> 0]
  /\ mode = [t \in Thread |-> "nonblocking"]
  /\ at = [t \in Thread |-> "outside"]
  /\ crashes = 0

Goto(t, location) == at' = [at EXCEPT ![t] = location]

-----------------------------------------------------------------------------
(* Slips: what a plausible error would make of an action below.  No action  *)
(* of the specification uses them; each is put in the place of its original *)
(* to see the property that must notice.                                    *)

\* A shared OS lock where an exclusive one is needed.
TakeFileLockShared(t) ==
  /\ at[t] = "file"
  /\ fileLock' = t
  /\ keys' = IF mode[t] = "blocking" THEN keys \cup {t} ELSE keys
  /\ Goto(t, "inside")
  /\ UNCHANGED <<threadLock, depth, mode, crashes>>

\* A nested exit unlocks the file as the outer one does.
ReleaseFileLockNested(t) ==
  /\ at[t] = "inside"
  /\ keys' = keys \ {t}
  /\ fileLock' = NoThread
  /\ Goto(t, "unlocking")
  /\ UNCHANGED <<threadLock, depth, mode, crashes>>

\* The error path of the OS lock leaves the thread lock taken.
ReleaseThreadLockAfterUseOnly(t) ==
  /\ at[t] = "unlocking"
  /\ threadLock' = [threadLock EXCEPT ![ProcOf[t]] = NoThread]
  /\ Goto(t, "outside")
  /\ UNCHANGED <<fileLock, keys, depth, mode, crashes>>

-----------------------------------------------------------------------------
\* A thread calls project_worker_lock and does not already own its key.
Call(t, m) ==
  /\ at[t] = "outside"
  /\ mode' = [mode EXCEPT ![t] = m]
  /\ Goto(t, "thread")
  /\ UNCHANGED <<threadLock, fileLock, keys, depth, crashes>>

\* A blocking call of a thread that is inside by a blocking call: yields at once.
Reenter(t) ==
  /\ at[t] = "inside"
  /\ t \in keys
  /\ depth[t] < MaxDepth
  /\ depth' = [depth EXCEPT ![t] = @ + 1]
  /\ UNCHANGED <<threadLock, fileLock, keys, mode, at, crashes>>

LeaveNested(t) ==
  /\ depth[t] > 0
  /\ depth' = [depth EXCEPT ![t] = @ - 1]
  /\ UNCHANGED <<threadLock, fileLock, keys, mode, at, crashes>>

TakeThreadLock(t) ==
  /\ at[t] = "thread"
  /\ threadLock[ProcOf[t]] = NoThread
  /\ threadLock' = [threadLock EXCEPT ![ProcOf[t]] = t]
  /\ Goto(t, "file")
  /\ UNCHANGED <<fileLock, keys, depth, mode, crashes>>

\* lock.acquire(blocking=False) failed: ProjectBusy, with nothing taken.
ThreadLockBusy(t) ==
  /\ at[t] = "thread"
  /\ mode[t] = "nonblocking"
  /\ threadLock[ProcOf[t]] # NoThread
  /\ Goto(t, "outside")
  /\ UNCHANGED <<threadLock, fileLock, keys, depth, mode, crashes>>

TakeFileLock(t) ==
  /\ at[t] = "file"
  /\ fileLock = NoThread
  /\ fileLock' = t
  /\ keys' = IF mode[t] = "blocking" THEN keys \cup {t} ELSE keys
  /\ Goto(t, "inside")
  /\ UNCHANGED <<threadLock, depth, mode, crashes>>

\* The non-blocking OS call is refused while any stream holds the lock.
FileLockBusy(t) ==
  /\ at[t] = "file"
  /\ mode[t] = "nonblocking"
  /\ fileLock # NoThread
  /\ Goto(t, "failing")
  /\ UNCHANGED <<threadLock, fileLock, keys, depth, mode, crashes>>

\* The finally block: forget the key, unlock the stream, close it.
ReleaseFileLock(t) ==
  /\ at[t] = "inside"
  /\ depth[t] = 0
  /\ keys' = keys \ {t}
  /\ fileLock' = NoThread
  /\ Goto(t, "unlocking")
  /\ UNCHANGED <<threadLock, depth, mode, crashes>>

ReleaseThreadLock(t) ==
  /\ at[t] \in {"unlocking", "failing"}
  /\ threadLock' = [threadLock EXCEPT ![ProcOf[t]] = NoThread]
  /\ Goto(t, "outside")
  /\ UNCHANGED <<fileLock, keys, depth, mode, crashes>>

\* A process ends anywhere: its memory is gone and the OS drops its file lock.
Crash(p) ==
  LET gone == {t \in Thread : ProcOf[t] = p} IN
  /\ crashes < MaxCrashes
  /\ \E t \in gone : at[t] # "outside"
  /\ crashes' = crashes + 1
  /\ threadLock' = [threadLock EXCEPT ![p] = NoThread]
  /\ fileLock' = IF fileLock \in gone THEN NoThread ELSE fileLock
  /\ keys' = keys \ gone
  /\ depth' = [t \in Thread |-> IF t \in gone THEN 0 ELSE depth[t]]
  /\ at' = [t \in Thread |-> IF t \in gone THEN "outside" ELSE at[t]]
  /\ UNCHANGED mode

\* The steps a call in progress takes by itself; the body under the lock ends.
Progress(t) ==
  \/ TakeThreadLock(t) \/ ThreadLockBusy(t)
  \/ TakeFileLock(t) \/ FileLockBusy(t)
  \/ LeaveNested(t) \/ ReleaseFileLock(t) \/ ReleaseThreadLock(t)

LockNext ==
  \/ \E t \in Thread : Progress(t) \/ Reenter(t) \/ (\E m \in Mode : Call(t, m))
  \/ \E p \in Process : Crash(p)

LockSpec == LockInit /\ [][LockNext]_lockVars

\* A thread that is scheduled finishes what it is in the middle of. Nothing is
\* assumed of who calls, who nests a further entry, or who crashes; and no
\* lock is assumed to be granted in any order.
FairSpec == LockSpec /\ \A t \in Thread : WF_lockVars(Progress(t))

-----------------------------------------------------------------------------
Waiting(t) == at[t] \in {"thread", "file"}

\* The two locks agree: whoever holds the OS lock is inside or on its way out
\* through the thread lock of its own process, and a nested blocking entry is
\* only ever open in the thread that still holds both. A nested exit that
\* released either lock, or an acquisition error path that forgot the thread
\* lock, breaks it several steps later in another thread.
LocksAgree ==
  /\ \A t \in Thread :
       /\ (fileLock = t) <=> (at[t] = "inside")
       /\ at[t] \in {"file", "inside", "unlocking", "failing"} => threadLock[ProcOf[t]] = t
       /\ depth[t] > 0 => fileLock = t /\ t \in keys
       /\ t \in keys <=> (at[t] = "inside" /\ mode[t] = "blocking")
  /\ \A p \in Process : threadLock[p] # NoThread =>
       /\ ProcOf[threadLock[p]] = p
       /\ at[threadLock[p]] \in {"file", "inside", "unlocking", "failing"}

\* The lock as its callers see it.
Mutex == INSTANCE WorkerMutex WITH holder <- fileLock
ImplementsMutex == Mutex!Spec

\* Nobody waits for good while the lock is free: when a blocking caller waits,
\* some thread is inside, later or now, whatever is refused, nested or crashes.
\* (project_lock.py says nothing of order, and a given waiter may starve.)
WaiterSeesService ==
  (\E t \in Thread : Waiting(t) /\ mode[t] = "blocking")
    ~> (\E t \in Thread : at[t] = "inside") \/ (\A t \in Thread : ~Waiting(t))

=============================================================================
