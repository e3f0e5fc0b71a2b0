---------------------------- MODULE MCWorkerLock ----------------------------
(* Three threads in two processes: contention inside a process and across. *)
EXTENDS WorkerLock, TLC

CONSTANTS t1, t2, t3, p1, p2

MCThread == {t1, t2, t3}
MCProcess == {p1, p2}
MCProcOf == (t1 :> p1) @@ (t2 :> p1) @@ (t3 :> p2)
=============================================================================
