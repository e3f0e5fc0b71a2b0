----------------------------- MODULE ProjectHTTP ------------------------------
(***************************************************************************)
(* The project interface of the Workbench (project_http.py): requests that *)
(* start a worker thread and wait for its acknowledgement, requests that   *)
(* poll the job, cancellation, and shutdown.  The worker's operation       *)
(* (project_service.py, project_jobs.py, project_analysis.py) is reduced   *)
(* to what these see of it: the worker lock, the job row, its checkpoints, *)
(* and whether it published.                                               *)
(***************************************************************************)
EXTENDS ProjectReads, FiniteSets

CONSTANTS
  Post,       \* the requests that start a worker, and their workers
  Poller,     \* the clients that poll a job
  None,       \* nobody, nothing
  Situations  \* what a behaviour is about

Operation == {"analyze", "freshness"}

\* What the requests may ask for; whether clients poll and cancel jobs, the
\* Workbench may shut down, readers read, and operations fail or waits run out.
ASSUME HTTPAssumption ==
  /\ None \notin Post
  /\ Situations \subseteq [posts : [Post -> SUBSET Operation], polls : BOOLEAN, closes : BOOLEAN,
                           reads : BOOLEAN, trouble : BOOLEAN]

VARIABLES
  situation,  \* the situation of this behaviour; never changes
  lock,       \* who holds the project worker lock
  row,        \* project_job, one row per worker
  operation,  \* what each request asked for
  handler,    \* where each request's handler is
  worker,     \* where each worker thread is
  ack,        \* the acknowledgement queue, which has room for one
  failed,     \* an exception is on its way out of the worker
  stop,       \* the stop events that are set
  known,      \* the workers whose record names their job (job_id, accepted)
  workers,    \* _workers: the workers that are registered
  settled,    \* the settled events that are set
  poll,       \* what each poller is about
  closer,     \* shutdown: "open", "stopping", "closed", or "broken" halfway
  closing,    \* the workers shutdown has still to stop
  current,    \* the worker it has stopped and not yet cancelled
  late        \* history: workers stopped with a checkpoint still ahead

handling == <<operation, handler, ack>>
working == <<lock, row, worker, failed, known>>
registry == <<stop, workers, settled>>
polling == <<poll>>
shutdown == <<closer, closing, current>>
vars == <<situation, readsVars, handling, working, registry, polling, shutdown, late>>

Active == {"QUEUED", "RUNNING"}
Terminal == {"COMPLETED", "FAILED", "CANCELLED"}

NoRow == [status |-> "ABSENT", cancel |-> FALSE]
NoPoll == [at |-> "idle", job |-> None, events |-> {}, inTime |-> TRUE]

\* Before its last checkpoint, an analysis still looks at its stop event.
Ahead == {"opening", "claiming", "queued", "running", "working"}

TypeOK ==
  /\ situation \in Situations
  /\ lock \in Post \cup {None}
  /\ row \in [Post -> [status : Active \cup Terminal \cup {"ABSENT"}, cancel : BOOLEAN]]
  /\ operation \in [Post -> Operation \cup {None}]
  /\ handler \in [Post -> {"idle", "waiting", "late", "accepted", "refused"}]
  /\ worker \in [Post -> Ahead \cup {"idle", "committing", "leaving", "unlocked", "returning", "popped", "done"}]
  /\ ack \in [Post -> {"empty", "job", "error"}]
  /\ {failed, stop, known, workers, settled, closing, late} \subseteq SUBSET Post
  /\ closer \in {"open", "stopping", "broken", "closed"}
  /\ current \in Post \cup {None}

Init ==
  /\ InitReads
  /\ situation \in Situations
  /\ lock = None
  /\ row = [p \in Post |-> NoRow]
  /\ operation = [p \in Post |-> None]
  /\ handler = [p \in Post |-> "idle"]
  /\ worker = [p \in Post |-> "idle"]
  /\ ack = [p \in Post |-> "empty"]
  /\ failed = {} /\ stop = {} /\ known = {} /\ workers = {} /\ settled = {}
  /\ poll = [c \in Poller |-> NoPoll]
  /\ closer = "open" /\ closing = {} /\ current = None /\ late = {}

Work(p, from, to) == worker[p] = from /\ worker' = [worker EXCEPT ![p] = to]

\* JobLease.finish: a terminal row stays, a requested cancellation wins.
Ended(r, status) ==
  IF r.status \in Terminal THEN r
  ELSE [r EXCEPT !.status = IF r.cancel THEN "CANCELLED" ELSE status]

-----------------------------------------------------------------------------
(* The handler of a request that starts a worker *)

\* _start, under the lock: the worker is registered and starts.
Start(p, o) ==
  /\ o \in situation.posts[p] /\ handler[p] = "idle"
  /\ closer = "open"
  /\ operation' = [operation EXCEPT ![p] = o]
  /\ handler' = [handler EXCEPT ![p] = "waiting"]
  /\ workers' = workers \cup {p}
  /\ Work(p, "idle", "opening")
  /\ UNCHANGED <<situation, readsVars, ack, lock, row, failed, known, stop, settled, polling, shutdown, late>>

\* ProjectBusy: the Workbench is shutting down.
Refuse(p) ==
  /\ situation.posts[p] # {} /\ handler[p] = "idle"
  /\ closer # "open"
  /\ handler' = [handler EXCEPT ![p] = "refused"]
  /\ UNCHANGED <<situation, readsVars, operation, ack, working, registry, polling, shutdown, late>>

Answer(p) ==
  /\ handler[p] = "waiting" /\ ack[p] # "empty"
  /\ handler' = [handler EXCEPT ![p] = IF ack[p] = "job" THEN "accepted" ELSE "refused"]
  /\ ack' = [ack EXCEPT ![p] = "empty"]
  /\ UNCHANGED <<situation, readsVars, operation, working, registry, polling, shutdown, late>>

\* The acknowledgement did not come within its time; the stop event comes next.
TimeOut(p) ==
  /\ situation.trouble /\ handler[p] = "waiting" /\ ack[p] = "empty"
  /\ handler' = [handler EXCEPT ![p] = "late"]
  /\ UNCHANGED <<situation, readsVars, operation, ack, working, registry, polling, shutdown, late>>

Stopped(p) ==
  /\ stop' = stop \cup {p}
  /\ late' = IF worker[p] \in Ahead THEN late \cup {p} ELSE late

GiveUp(p) ==
  /\ handler[p] = "late"
  /\ Stopped(p)
  /\ handler' = [handler EXCEPT ![p] = "refused"]
  /\ UNCHANGED <<situation, readsVars, operation, ack, working, workers, settled, polling, shutdown>>

-----------------------------------------------------------------------------
(* The worker thread *)

workerOnly == <<situation, readers, elsewhere, operation, handler, registry, polling, shutdown, late>>

\* The operation fails before it has the lock: authorization, opening, or
\* ProjectBusy because another worker has it.
FailToClaim(p) ==
  /\ situation.trouble \/ lock # None
  /\ Work(p, "opening", "unlocked")
  /\ failed' = failed \cup {p}
  /\ UNCHANGED <<workerOnly, project, ack, lock, row, known>>

Claim(p) ==
  /\ lock = None
  /\ Work(p, "opening", "claiming")
  /\ lock' = p
  /\ UNCHANGED <<workerOnly, project, ack, row, failed, known>>

\* The preconditions no longer hold.
Conflict(p) ==
  /\ situation.trouble
  /\ Work(p, "claiming", "leaving")
  /\ failed' = failed \cup {p}
  /\ UNCHANGED <<workerOnly, project, ack, lock, row, known>>

Insert(p) ==
  /\ Work(p, "claiming", "queued")
  /\ row' = [row EXCEPT ![p].status = "QUEUED"]
  /\ UNCHANGED <<workerOnly, project, ack, lock, failed, known>>

Run(p) ==
  /\ Work(p, "queued", "running")
  /\ row' = [row EXCEPT ![p].status = "RUNNING"]
  /\ UNCHANGED <<workerOnly, project, ack, lock, failed, known>>

\* started(): the record names the job and the handler hears of it.
Announce(p) ==
  /\ ack[p] = "empty"
  /\ Work(p, "running", "working")
  /\ known' = known \cup {p}
  /\ ack' = [ack EXCEPT ![p] = "job"]
  /\ UNCHANGED <<workerOnly, project, lock, row, failed>>

\* The job ends here, as it was to end or as its cancellation says.
End(p, from, status) ==
  /\ Work(p, from, "leaving")
  /\ row' = [row EXCEPT ![p] = Ended(@, status)]
  /\ UNCHANGED <<workerOnly, ack, lock, known>>

\* The row could not be marked RUNNING: claim() ends it as FAILED.
FailToRun(p) ==
  /\ situation.trouble
  /\ End(p, "queued", "FAILED")
  /\ failed' = failed \cup {p}
  /\ UNCHANGED project

\* An analysis catches most of what it raises; a freshness check nothing.
Fail(p) ==
  /\ situation.trouble
  /\ worker[p] \in {"working", "committing"}
  /\ End(p, worker[p], "FAILED")
  /\ failed' \in {failed \cup {p}} \cup (IF operation[p] = "analyze" THEN {failed} ELSE {})
  /\ UNCHANGED project

\* Slip: the checkpoint knows only of the row.
InterruptedByRow(p) == row[p].cancel

\* A checkpoint finds the stop event, which only an analysis looks at, or the
\* cancellation in the row.
Interrupted(p) == (operation[p] = "analyze" /\ p \in stop) \/ row[p].cancel

NoticeCancel(p) ==
  /\ Interrupted(p)
  /\ Work(p, "working", "leaving")
  /\ row' = [row EXCEPT ![p] = [status |-> "CANCELLED", cancel |-> TRUE]]
  /\ failed' = IF operation[p] = "freshness" THEN failed \cup {p} ELSE failed
  /\ UNCHANGED <<workerOnly, project, ack, lock, known>>

LastCheckpoint(p) ==
  /\ ~Interrupted(p)
  /\ Work(p, "working", "committing")
  /\ UNCHANGED <<workerOnly, project, ack, lock, row, failed, known>>

\* save_assessment: publication and completion in one transaction, if nobody
\* cancelled the row.
PublishAnalysis(p) ==
  /\ operation[p] = "analyze" /\ ~row[p].cancel
  /\ Publish
  /\ End(p, "committing", "COMPLETED")
  /\ UNCHANGED failed

\* The fence refuses a cancelled row.
FindCancelled(p) ==
  /\ operation[p] = "analyze" /\ row[p].cancel
  /\ End(p, "committing", "CANCELLED")
  /\ UNCHANGED <<failed, project>>

\* The check ends with its verdict; under a cancellation it counts for nothing.
EndCheck(p) ==
  /\ operation[p] = "freshness"
  /\ \E status \in {"CURRENT", "STALE"} :
       IF row[p].cancel THEN UNCHANGED project ELSE RecordCheck(status)
  /\ End(p, "committing", "COMPLETED")
  /\ UNCHANGED failed

Unlock(p) ==
  /\ Work(p, "leaving", "unlocked")
  /\ lock' = None
  /\ UNCHANGED <<workerOnly, project, ack, row, failed, known>>

\* Slip: the error is put into the queue whether or not the job was announced.
ReportAlways(p) ==
  /\ Work(p, "unlocked", "returning")
  /\ IF p \in failed THEN ack[p] = "empty" /\ ack' = [ack EXCEPT ![p] = "error"] ELSE UNCHANGED ack
  /\ UNCHANGED <<workerOnly, project, lock, row, failed, known>>

\* An error nobody was told a job for goes to the handler.
Report(p) ==
  /\ Work(p, "unlocked", "returning")
  /\ IF p \in failed \ known THEN ack[p] = "empty" /\ ack' = [ack EXCEPT ![p] = "error"] ELSE UNCHANGED ack
  /\ UNCHANGED <<workerOnly, project, lock, row, failed, known>>

Unregister(p) ==
  /\ Work(p, "returning", "popped")
  /\ workers' = workers \ {p}
  /\ UNCHANGED <<situation, readsVars, handling, lock, row, failed, known, stop, settled, polling, shutdown, late>>

Settle(p) ==
  /\ Work(p, "popped", "done")
  /\ settled' = settled \cup {p}
  /\ UNCHANGED <<situation, readsVars, handling, lock, row, failed, known, stop, workers, polling, shutdown, late>>

Thread(p) ==
  \/ FailToClaim(p) \/ Claim(p) \/ Conflict(p) \/ Insert(p) \/ Run(p) \/ FailToRun(p) \/ Announce(p)
  \/ Fail(p) \/ NoticeCancel(p) \/ LastCheckpoint(p) \/ PublishAnalysis(p) \/ FindCancelled(p) \/ EndCheck(p)
  \/ Unlock(p) \/ Report(p) \/ Unregister(p) \/ Settle(p)

-----------------------------------------------------------------------------
(* Clients that poll and cancel *)

pollOnly == <<situation, readsVars, handling, working, registry, shutdown, late>>

\* GET of a job that has ended; of one that has not, the answer says so.
FindEnded(c, p) ==
  /\ situation.polls /\ poll[c].at = "idle"
  /\ row[p].status \in Terminal
  /\ poll' = [poll EXCEPT ![c] = [NoPoll EXCEPT !.at = "ended", !.job = p]]
  /\ UNCHANGED pollOnly

\* Slip: the answer does not wait.
CollectNothing(c) ==
  /\ poll[c].at = "ended"
  /\ poll' = [poll EXCEPT ![c].at = "waiting"]
  /\ UNCHANGED pollOnly

\* _settle, under the lock: the events of the workers registered for this job.
Collect(c) ==
  /\ poll[c].at = "ended"
  /\ poll' = [poll EXCEPT ![c].at = "waiting", ![c].events = {poll[c].job} \cap workers \cap known]
  /\ UNCHANGED pollOnly

Tell(c) ==
  /\ poll[c].at = "waiting" /\ poll[c].events \subseteq settled
  /\ poll' = [poll EXCEPT ![c].at = "told"]
  /\ UNCHANGED pollOnly

\* event.wait(10) returns all the same.
TellLate(c) ==
  /\ poll[c].at = "waiting" /\ ~(poll[c].events \subseteq settled)
  /\ poll' = [poll EXCEPT ![c].at = "told", ![c].inTime = FALSE]
  /\ UNCHANGED pollOnly

Cancelled(p) == row' = [row EXCEPT ![p].cancel = @ \/ row[p].status \in Active]

Cancel(p) ==
  /\ situation.polls /\ row[p].status \in Active /\ ~row[p].cancel
  /\ Cancelled(p)
  /\ UNCHANGED <<situation, readsVars, handling, lock, worker, failed, known, registry, polling, shutdown, late>>

-----------------------------------------------------------------------------
(* Shutdown *)

Close ==
  /\ situation.closes /\ closer = "open"
  /\ closer' = "stopping" /\ closing' = workers /\ UNCHANGED current
  /\ UNCHANGED <<situation, readsVars, handling, working, registry, polling, late>>

StopNext(p) ==
  /\ closer = "stopping" /\ current = None /\ p \in closing
  /\ Stopped(p)
  /\ closing' = closing \ {p} /\ current' = p
  /\ UNCHANGED <<situation, readsVars, handling, working, workers, settled, polling, closer>>

\* Its job is cancelled if the record names one; access may be gone by now.
CancelStopped ==
  /\ current # None
  /\ \/ current \in known /\ Cancelled(current)
     \/ UNCHANGED row
  /\ current' = None
  /\ UNCHANGED <<situation, readsVars, handling, lock, worker, failed, known, registry, polling, closer, closing, late>>

\* The cancellation raises what close() does not expect, a busy database.
Break ==
  /\ current \in known
  /\ closer' = "broken" /\ current' = None
  /\ UNCHANGED <<situation, readsVars, handling, working, registry, polling, closing, late>>

Closed ==
  /\ closer = "stopping" /\ closing = {} /\ current = None
  /\ closer' = "closed"
  /\ UNCHANGED <<situation, readsVars, handling, working, registry, polling, closing, current, late>>

-----------------------------------------------------------------------------
Handler(p) == Answer(p) \/ TimeOut(p) \/ GiveUp(p)
Poll(c) == Collect(c) \/ Tell(c) \/ TellLate(c)
Shutdown == (\E p \in Post : StopNext(p)) \/ CancelStopped \/ Break \/ Closed

ReadSome ==
  /\ situation.reads
  /\ \/ \E d \in Reader : ReadDescriptor(d) \/ ReadOn(d)
     \/ Decide
     \/ lock = None /\ WriteElsewhere
  /\ UNCHANGED <<situation, handling, working, registry, polling, shutdown, late>>

Next ==
  \/ \E p \in Post :
       \/ \E o \in Operation : Start(p, o)
       \/ Refuse(p) \/ Handler(p) \/ Thread(p) \/ Cancel(p)
       \/ \E c \in Poller : FindEnded(c, p)
  \/ \E c \in Poller : Poll(c)
  \/ Close \/ Shutdown
  \/ ReadSome

Spec == Init /\ [][Next]_vars

\* Threads are scheduled, waits end with their time-outs, and shutdown goes on.
\* Nobody has to ask, cancel, poll or close.
FairSpec ==
  /\ Spec
  /\ \A p \in Post : WF_vars(Thread(p)) /\ WF_vars(Handler(p))
  /\ \A c \in Poller : WF_vars(Poll(c))
  /\ WF_vars(Shutdown)

-----------------------------------------------------------------------------
(* Properties *)

\* "Answer only once that worker has returned, so a client that sees the job
\* finish can start the next operation without meeting ProjectBusy": a client
\* told the end of an announced job, unless its wait ran out, and a client whose
\* request was refused by its worker, find that worker off the project lock.
SettledMeansFree ==
  /\ \A c \in Poller :
       poll[c].at = "told" /\ poll[c].inTime /\ poll[c].job \in known => lock # poll[c].job
  /\ \A p \in Post : handler[p] = "refused" /\ p \notin stop => lock # p

\* Whether its handler gave up waiting or the Workbench shuts down: an analysis
\* that was told to stop before its last checkpoint never publishes, however its
\* thread and the teller interleave; and no worker slips past a shutdown that
\* went through.
StoppedPublishesNothing ==
  /\ \A p \in late : operation[p] = "analyze" => row[p].status # "COMPLETED"
  /\ closer = "closed" => workers \subseteq stop

\* Nobody waits for ever on anybody: every request is answered, every worker
\* thread returns and settles its event, though its handler may have left and
\* the queue has room for one.
EverybodyReturns ==
  /\ \A p \in Post : handler[p] = "waiting" ~> handler[p] \in {"accepted", "refused"}
  /\ \A p \in Post : worker[p] # "idle" ~> p \in settled
=============================================================================
