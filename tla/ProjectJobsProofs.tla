-------------------------- MODULE ProjectJobsProofs --------------------------
(***************************************************************************)
(* Project jobs, for any workers, processes, folders, contents and bounds: *)
(* the job of a live worker is safe, a recorded end is final, a requested  *)
(* cancellation is never turned into a completion, and what the rows, the  *)
(* pointer and the badge say of the sources is true.                       *)
(*                                                                         *)
(* The argument: types; then mutual exclusion of the guarded part          *)
(* (Guarded); then ownership of the one unfinished row by the worker that  *)
(* claimed it (OwnsItsJob); then what each transaction does to a row; then *)
(* what a worker at work knows of the one configuration that cannot change *)
(* meanwhile (Evidence).                                                   *)
(***************************************************************************)
EXTENDS ProjectJobs, TLAPS

\* A job that has looked at its sources knows a revision of them.
SeenIsRevision ==
  \A w \in Worker :
    pc[w] \in {"discovered", "staged", "persisting", "publishing"} => seen[w] \in Revision

\* An operation that will make a new configuration was admitted within the bound.
RoomToConfigure ==
  \A w \in Worker :
    pc[w] # "idle" /\ op[w] \in {"RELINK", "CONVERT"} =>
      expected[w].configuration < MaxConfiguration

\* An operation that works on a folder it remembers has one.
FolderNamed ==
  \A w \in Worker :
    /\ pc[w] = "asked" => op[w] \in Operation
    /\ pc[w] # "idle" /\ op[w] = "RELINK" => folder[w] \in Root
    /\ pc[w] = "asked" /\ op[w] = "DISCOVER" /\ "DISCOVER" \in DescriptorFirst
         => folder[w] \in Root
    /\ pc[w] \notin {"idle", "asked"} /\ op[w] = "DISCOVER" => folder[w] \in Root

Typed == TypeOK /\ SeenIsRevision /\ RoomToConfigure /\ FolderNamed

USE JobsAssumption DEF JobId, Operation, Action

\* What each transaction writes over a row is a row again.
LEMMA RowReplaced ==
  ASSUME job \in [JobId -> Row], NEW m, NEW r, m \in JobId => r \in Row
  PROVE  [job EXCEPT ![m] = r] \in [JobId -> Row]
  OBVIOUS

\* A row with another status is a row.
LEMMA StatusTyped ==
  ASSUME NEW row \in Row, NEW s \in Active \cup Terminal
  PROVE  [row EXCEPT !.status = s] \in Row
  BY DEF Row

\* Writing one row's status keeps the table a table (claim, convert_selected).
LEMMA StatusesTyped ==
  ASSUME job \in [JobId -> Row], NEW m, NEW s \in Active \cup Terminal
  PROVE  [job EXCEPT ![m].status = s] \in [JobId -> Row]
<1>1. m \in JobId => [job[m] EXCEPT !.status = s] \in Row
  BY StatusTyped
<1> QED
  BY <1>1, RowReplaced

\* So does writing down a cancellation (ProjectJobManager.cancel).
LEMMA CancelTyped ==
  ASSUME job \in [JobId -> Row], NEW m
  PROVE  [job EXCEPT ![m].cancel = TRUE] \in [JobId -> Row]
<1>1. m \in JobId => [job[m] EXCEPT !.cancel = TRUE] \in Row
  BY DEF Row
<1> QED
  BY <1>1, RowReplaced

\* A recovered row is a row (_recover_locked).
LEMMA InterruptedTyped == ASSUME NEW row \in Row PROVE Interrupted(row) \in Row
  BY DEF Row, Terminal, Interrupted

\* A published row is a row (save_assessment).
LEMMA CompletedTyped ==
  ASSUME NEW row \in Row, NEW rev \in Revision PROVE Completed(row, rev) \in Row
  BY DEF Row, Terminal, Completed

\* A row with a freshness outcome is a row (JobLease.finish).
LEMMA OutcomeTyped ==
  ASSUME TypeOK, NEW w \in Worker, NEW row \in Row
  PROVE  WithOutcome(w, row) \in Row
<1>1. ASSUME NEW rev \in Revision \cup {NoRevision}, NEW v \in Verdict \cup {"NONE"}
      PROVE  [row EXCEPT !.result = rev, !.verdict = v] \in Row
  BY DEF Row
<1> QED
  BY <1>1 DEF WithOutcome, TypeOK

\* A finished row is a row (JobLease.finish).
LEMMA FinishedTyped ==
  ASSUME NEW row \in Row, NEW s \in Terminal PROVE Finished(row, s) \in Row
<1>1. [row EXCEPT !.status = IF row.cancel THEN "CANCELLED" ELSE s] \in Row
  BY StatusTyped DEF Terminal
<1> QED
  BY <1>1 DEF Finished

\* Reading one half of a precondition leaves the other half.
LEMMA Reads ==
  ASSUME NEW e \in Precondition
  PROVE  /\ \A rev \in Revision \cup {NoRevision} : [e EXCEPT !.revision = rev] \in Precondition
         /\ \A c \in 0..MaxConfiguration :
              /\ [e EXCEPT !.configuration = c] \in Precondition
              /\ [e EXCEPT !.configuration = c].configuration = c
         /\ \A rev \in Revision \cup {NoRevision} : [e EXCEPT !.revision = rev].configuration = e.configuration
  BY DEF Precondition

\* What ReadConfiguration changes.
LEMMA ConfigurationRead ==
  ASSUME TypeOK, NEW w \in Worker, ReadConfiguration(w)
  PROVE  /\ expected' \in [Worker -> Precondition]
         /\ expected'[w].configuration = configuration
         /\ \A v \in Worker \ {w} : expected'[v] = expected[v]
<1> DEFINE e == [expected[w] EXCEPT !.configuration = configuration]
<1>1. e \in Precondition /\ e.configuration = configuration
  BY Reads DEF TypeOK
<1>2. expected' = [expected EXCEPT ![w] = e]
  BY DEF ReadConfiguration
<1> HIDE DEF e
<1> QED
  BY <1>1, <1>2 DEF TypeOK

\* What ReadDescriptor changes.
LEMMA DescriptorRead ==
  ASSUME TypeOK, NEW w \in Worker, ReadDescriptor(w)
  PROVE  /\ expected' \in [Worker -> Precondition]
         /\ expected'[w].configuration = expected[w].configuration
         /\ \A v \in Worker \ {w} : expected'[v] = expected[v]
<1> DEFINE e == [expected[w] EXCEPT !.revision = analysis]
<1>1. e \in Precondition /\ e.configuration = expected[w].configuration
  BY Reads DEF TypeOK
<1>2. expected' = [expected EXCEPT ![w] = e]
  BY DEF ReadDescriptor
<1> HIDE DEF e
<1> QED
  BY <1>1, <1>2 DEF TypeOK

\* The empty precondition is one.
LEMMA NothingReadTyped == NothingRead \in Precondition
  BY DEF NothingRead, Precondition

\* An inserted row is a row (claim).
LEMMA NewRow ==
  ASSUME TypeOK, NEW w \in Worker, op[w] \in Operation
  PROVE  Row0(w) \in Row
<1>1. expected[w] \in Precondition
  BY DEF TypeOK
<1>2. expected[w].revision \in Revision \cup {NoRevision} /\ expected[w].configuration \in 0..MaxConfiguration
  BY <1>1 DEF Precondition
<1> QED
  BY <1>2 DEF Row0, NoRow, Row, Active

\* What discovery finds under a folder is a revision, and its inputs are inputs.
LEMMA Fingerprints ==
  ASSUME TypeOK, NEW r \in Root
  PROVE  Fingerprint(r) \in Revision /\ [root |-> r, derived |-> derived] \in Inputs
  BY DEF TypeOK, Revision, Fingerprint, Inputs

\* Staging keeps a revision a revision (stage_sources).
LEMMA Staged ==
  ASSUME NEW rev \in Revision, NEW c \in Content \cup {NoContent}
  PROVE  [rev EXCEPT !.content = IF @ = NoContent THEN @ ELSE c] \in Revision
  BY DEF Revision

\* Types, with the three facts they rest on.
LEMMA TypedAlways == Spec => []Typed
<1> USE DEF Active, Terminal, Verdict, 
  Location, Body, TypeOK, SeenIsRevision, RoomToConfigure, FolderNamed, Typed, Goto
<1>1. Init => Typed
  BY SettingAssumption DEF Here, Init, NothingRead, NoRow, Row, Inputs, Precondition
<1>2. Typed /\ [Next]_vars => Typed'
  <2> SUFFICES ASSUME Typed, [Next]_vars PROVE Typed'
    OBVIOUS
  <2> USE DEF store, local, history, environment
  <2>1. ASSUME NEW w \in Worker, NEW o \in Action, Ask(w, o) PROVE Typed'
    <3>1. CASE o = "OPEN"
      BY <2>1, <3>1 DEF Ask
    <3>2. CASE o = "RELINK"
      <4>1. ReadConfiguration(w) /\ \E r \in Root : folder' = [folder EXCEPT ![w] = r]
        BY <2>1, <3>2, SettingAssumption DEF Ask, RequestRelink, Folder
      <4> QED
        BY <2>1, <3>2, <4>1, ConfigurationRead DEF Ask
    <3>3. CASE o \in DescriptorFirst
      <4>1. ReadDescriptor(w)
        BY <2>1, <3>3 DEF Ask
      <4>2. folder' = [folder EXCEPT ![w] = IF o = "DISCOVER" THEN root ELSE NoRoot]
        BY <2>1, <4>1 DEF ReadDescriptor, Ask
      <4> QED
        BY <2>1, <3>3, <4>1, <4>2, DescriptorRead DEF Ask
    <3>4. CASE o \in Operation \ DescriptorFirst
      <4>1. ReadConfiguration(w) /\ UNCHANGED folder
        BY <2>1, <3>4 DEF Ask
      <4> QED
        BY <2>1, <3>4, <4>1, ConfigurationRead DEF Ask
    <3> QED
      BY <3>1, <3>2, <3>3, <3>4
  <2>2. ASSUME NEW w \in Worker, ReadRest(w) PROVE Typed'
    <3>1. CASE op[w] \in DescriptorFirst
      <4>1. ReadConfiguration(w) /\ UNCHANGED folder
        BY <2>2, <3>1 DEF ReadRest
      <4> QED
        BY <2>2, <3>1, <4>1, ConfigurationRead DEF ReadRest
    <3>2. CASE op[w] \notin DescriptorFirst
      <4>1. ReadDescriptor(w)
        BY <2>2, <3>2 DEF ReadRest
      <4>2. folder' = [folder EXCEPT ![w] = IF op[w] = "DISCOVER" THEN root ELSE NoRoot]
        BY <2>2, <4>1 DEF ReadDescriptor, ReadRest
      <4> QED
        BY <2>2, <3>2, <4>1, <4>2, DescriptorRead DEF ReadRest
    <3> QED
      BY <3>1, <3>2
  <2>3. ASSUME NEW w \in Worker, TakeLock(w) PROVE Typed'
    BY <2>3 DEF TakeLock, Lock!Acquire
  <2>4. ASSUME NEW w \in Worker, LockBusy(w) PROVE Typed'
    BY <2>4, NothingReadTyped DEF LockBusy, Forgotten
  <2>5. ASSUME NEW w \in Worker, Recover(w) PROVE Typed'
    <3>1. job' \in [JobId -> Row]
      BY <2>5, InterruptedTyped DEF Recover
    <3> QED
      BY <2>5, <3>1 DEF Recover
  <2>6. ASSUME NEW w \in Worker, StoreBusy(w) PROVE Typed'
    BY <2>6 DEF StoreBusy
  <2>7. ASSUME NEW w \in Worker, Claim(w) PROVE Typed'
    BY <2>7, NewRow DEF Claim, NoRow
  <2>8. ASSUME NEW w \in Worker, Refuse(w) PROVE Typed'
    BY <2>8 DEF Refuse
  <2>9. ASSUME NEW w \in Worker, Start(w) PROVE Typed'
    <3>1. job' = [job EXCEPT ![mine[w]].status = "RUNNING"]
      BY <2>9 DEF Start
    <3>2. job' \in [JobId -> Row]
      BY <3>1, StatusesTyped
    <3> QED
      BY <2>9, <3>2 DEF Start
  <2>10. ASSUME NEW w \in Worker, Relink(w) PROVE Typed'
    <3> HIDE DEF Verdict, Terminal, Active
    <3>1. folder[w] \in Root /\ configuration + 1 \in 0..MaxConfiguration
      BY <2>10 DEF Relink
    <3>2. [root |-> folder[w], derived |-> derived] \in Inputs
      BY <3>1, Fingerprints
    <3>3. inputs' \in [0..MaxConfiguration -> Inputs \cup {NoInputs}]
      BY <2>10, <3>2 DEF Relink
    <3>4. root' \in Root /\ configuration' \in 0..MaxConfiguration
      BY <2>10, <3>1 DEF Relink
    <3>5. /\ pc' = [pc EXCEPT ![w] = "leaving"] /\ pc[w] = "claiming"
          /\ UNCHANGED <<lock, job, last, analysis, derived, assessments, local, basis,
                         edited, environment>>
      BY <2>10 DEF Relink
    <3>6. SeenIsRevision' /\ RoomToConfigure' /\ FolderNamed'
      BY <3>5
    <3>7. TypeOK'
      BY <3>3, <3>4, <3>5
    <3> QED
      BY <3>6, <3>7
  <2>11. ASSUME NEW w \in Worker, Discover(w) PROVE Typed'
    <3> HIDE DEF Verdict, Terminal, Active
    <3>1. Fingerprint(root) \in Revision /\ [root |-> root, derived |-> derived] \in Inputs
      BY Fingerprints
    <3>2. basis' \in [JobId -> Inputs \cup {NoInputs}]
      BY <2>11, <3>1 DEF Discover, Explores
    <3>3. /\ seen' = [seen EXCEPT ![w] = Fingerprint(root)]
          /\ pc' = [pc EXCEPT ![w] = "discovered"]
          /\ pc[w] = "running"
          /\ UNCHANGED <<lock, store, op, expected, folder, mine, ending, verdict, inputs,
                         edited, environment>>
      BY <2>11 DEF Discover, Working
    <3> QED
      BY <3>1, <3>2, <3>3
  <2>12. ASSUME NEW w \in Worker, Stage(w) PROVE Typed'
    BY <2>12, Staged DEF Stage, Working
  <2>13. ASSUME NEW w \in Worker, Analyze(w) PROVE Typed'
    BY <2>13 DEF Analyze, EndAs, Working
  <2>14. ASSUME NEW w \in Worker, DiscoverPreview(w) PROVE Typed'
    <3> HIDE DEF Verdict, Terminal, Active
    <3>1. Fingerprint(root) \in Revision /\ [root |-> folder[w], derived |-> derived] \in Inputs
      BY <2>14, Fingerprints DEF DiscoverPreview, Working
    <3>2. basis' \in [JobId -> Inputs \cup {NoInputs}]
      BY <2>14, <3>1 DEF DiscoverPreview, Explores
    <3>3. /\ ending' = [ending EXCEPT ![w] = "COMPLETED"]
          /\ pc' = [pc EXCEPT ![w] = "ending"] /\ pc[w] = "running"
          /\ UNCHANGED <<lock, store, op, expected, folder, mine, seen, verdict, inputs,
                         edited, environment>>
      BY <2>14 DEF DiscoverPreview, EndAs, Working
    <3>4. ending' \in [Worker -> Terminal]
      BY <3>3 DEF Terminal
    <3> QED
      BY <3>2, <3>3, <3>4
  <2>15. ASSUME NEW w \in Worker, CheckFreshness(w) PROVE Typed'
    <3>1. Freshness \subseteq Verdict
      BY DEF Freshness
    <3>2. verdict' \in [Worker -> Verdict \cup {"NONE"}]
      BY <2>15, <3>1 DEF CheckFreshness
    <3>3. basis' \in [JobId -> Inputs \cup {NoInputs}]
      BY <2>15, Fingerprints DEF CheckFreshness, Explores
    <3>4. /\ seen' = [seen EXCEPT ![w] = analysis]
          /\ edited' = edited \ {mine[w]}
          /\ EndAs(w, "COMPLETED")
          /\ pc[w] = "running"
          /\ UNCHANGED <<lock, store, op, expected, folder, mine, inputs, environment>>
      BY <2>15 DEF CheckFreshness, Working
    <3> QED
      BY <3>2, <3>3, <3>4 DEF EndAs
  <2>16. ASSUME NEW w \in Worker, Convert(w) PROVE Typed'
    <3>1. Fingerprint(root) \in Revision /\ [root |-> root, derived |-> derived] \in Inputs
      BY Fingerprints
    <3>2. CASE disk[root] \in Binary
      <4>1. basis' \in [JobId -> Inputs \cup {NoInputs}]
        BY <2>16, <3>1 DEF Convert, Explores
      <4>2. /\ seen' = [seen EXCEPT ![w] = Fingerprint(root)]
            /\ pc' = [pc EXCEPT ![w] = "persisting"]
            /\ pc[w] = "running"
            /\ UNCHANGED <<lock, store, op, expected, folder, mine, ending, verdict,
                           inputs, edited, environment>>
        BY <2>16, <3>2 DEF Convert, Working
      <4> QED
        BY <3>1, <4>1, <4>2
    <3>3. CASE disk[root] \notin Binary
      <4>1. basis' \in [JobId -> Inputs \cup {NoInputs}]
        BY <2>16, <3>1 DEF Convert, Explores
      <4>2. seen' = seen
        BY <2>16, <3>3 DEF Convert
      <4>3. EndAs(w, "FAILED")
        BY <2>16, <3>3 DEF Convert
      <4>4. /\ pc[w] = "running"
            /\ UNCHANGED <<lock, store, op, expected, folder, mine, verdict, inputs, edited,
                           environment>>
        BY <2>16 DEF Convert, Working
      <4> QED
        BY <4>1, <4>2, <4>3, <4>4 DEF EndAs
    <3> QED
      BY <3>2, <3>3
  <2>17. ASSUME NEW w \in Worker, Recheck(w) PROVE Typed'
    <3>1. /\ edited' = edited \ {mine[w]}
          /\ pc[w] = "persisting"
          /\ UNCHANGED <<lock, store, op, expected, folder, mine, seen, verdict, basis,
                         inputs, environment>>
      BY <2>17 DEF Recheck, Working
    <3>2. CASE Unchanged(w)
      <4>1. pc' = [pc EXCEPT ![w] = "publishing"] /\ UNCHANGED ending
        BY <2>17, <3>2 DEF Recheck
      <4> QED
        BY <3>1, <4>1
    <3>3. CASE ~Unchanged(w)
      <4>1. EndAs(w, "FAILED")
        BY <2>17, <3>3 DEF Recheck
      <4> QED
        BY <3>1, <4>1 DEF EndAs
    <3> QED
      BY <3>2, <3>3
  <2>18. ASSUME NEW w \in Worker, Publish(w) PROVE Typed'
    <3>1. seen[w] \in Revision
      BY <2>18 DEF Publish
    <3>2. job' = [job EXCEPT ![mine[w]] = Completed(@, seen[w])]
      BY <2>18 DEF Publish
    <3>3. job' \in [JobId -> Row]
      <4>1. mine[w] \in JobId => Completed(job[mine[w]], seen[w]) \in Row
        BY <3>1, CompletedTyped
      <4> QED
        BY <3>2, <4>1, RowReplaced
    <3>4. /\ analysis' = seen[w]
          /\ assessments' = assessments \cup {seen[w]}
          /\ EndAs(w, "FAILED")
          /\ UNCHANGED <<lock, last, root, configuration, derived, op, expected, folder,
                         mine, seen, verdict, history, environment>>
          /\ pc[w] = "publishing"
      BY <2>18 DEF Publish
    <3> QED
      BY <3>1, <3>3, <3>4 DEF EndAs
  <2>19. ASSUME NEW w \in Worker, Register(w) PROVE Typed'
    <3>1. /\ seen[w].content \in Content \cup {NoContent}
          /\ [root |-> root, derived |-> seen[w].content] \in Inputs
      BY <2>19 DEF Register, Working, Revision, Inputs
    <3>2. configuration + 1 \in 0..MaxConfiguration
      <4>1. configuration = expected[w].configuration /\ op[w] = "CONVERT" /\ pc[w] = "publishing"
        BY <2>19 DEF Register, Working
      <4>2. configuration < MaxConfiguration
        BY <4>1
      <4> QED
        BY <4>2
    <3>3. job' \in [JobId -> Row]
      <4>1. job' = [job EXCEPT ![mine[w]].status = "COMPLETED"]
        BY <2>19 DEF Register
      <4> QED
        BY <4>1, StatusesTyped
    <3> QED
      BY <2>19, <3>1, <3>2, <3>3 DEF Register, EndAs, Working
  <2>20. ASSUME NEW w \in Worker, NoticeCancel(w) PROVE Typed'
    BY <2>20 DEF NoticeCancel, EndAs
  <2>21. ASSUME NEW w \in Worker, StopAnalysis(w) PROVE Typed'
    <3>1. job' = [job EXCEPT ![mine[w]].cancel = TRUE]
      BY <2>21 DEF StopAnalysis
    <3>2. job' \in [JobId -> Row]
      BY <3>1, CancelTyped
    <3> QED
      BY <2>21, <3>2 DEF StopAnalysis, EndAs
  <2>22. ASSUME NEW w \in Worker, Fail(w) PROVE Typed'
    BY <2>22 DEF Fail, EndAs
  <2>23. ASSUME NEW w \in Worker, Finish(w) PROVE Typed'
    <3>1. mine[w] \in JobId => Finished(WithOutcome(w, job[mine[w]]), ending[w]) \in Row
      BY OutcomeTyped, FinishedTyped
    <3>2. job' = [job EXCEPT ![mine[w]] = Finished(WithOutcome(w, @), ending[w])]
      BY <2>23 DEF Finish
    <3>3. job' \in [JobId -> Row]
      BY <3>1, <3>2, RowReplaced
    <3> QED
      BY <2>23, <3>3 DEF Finish
  <2>24. ASSUME NEW w \in Worker, FinishBusy(w) PROVE Typed'
    BY <2>24 DEF FinishBusy
  <2>25. ASSUME NEW w \in Worker, Abandon(w) PROVE Typed'
    BY <2>25 DEF Abandon
  <2>26. ASSUME NEW w \in Worker, Leave(w) PROVE Typed'
    BY <2>26, NothingReadTyped DEF Leave, Lock!Release, Forgotten
  <2>27. ASSUME NEW j \in JobId, Cancel(j) PROVE Typed'
    <3>1. job' = [job EXCEPT ![j].cancel = TRUE]
      BY <2>27 DEF Cancel
    <3>2. job' \in [JobId -> Row]
      BY <3>1, CancelTyped
    <3> QED
      BY <2>27, <3>2 DEF Cancel
  <2>28. ASSUME NEW r \in Root, NEW c \in Content \cup {NoContent}, Edit(r, c) PROVE Typed'
    BY <2>28 DEF Edit
  <2>29. ASSUME NEW p \in Process, Crash(p) PROVE Typed'
    BY <2>29, NothingReadTyped DEF Crash, Lock!Die, Lock!HolderAfterDeath, Forgotten
  <2>30. CASE UNCHANGED vars
    BY <2>30 DEF vars
  <2> QED
    BY <2>1, <2>2, <2>3, <2>4, <2>5, <2>6, <2>7, <2>8, <2>9, <2>10, <2>11, <2>12, <2>13, <2>14, <2>15, <2>16, <2>17, <2>18, <2>19, <2>20, <2>21, <2>22, <2>23, <2>24, <2>25, <2>26, <2>27, <2>28, <2>29, <2>30 DEF Next, Proceed
<1> QED
  BY <1>1, <1>2, PTL DEF Spec

\* Every variable keeps its type.
THEOREM JobsTyping == Spec => []TypeOK
  BY TypedAlways, PTL DEF Typed

\* Only the holder of the worker lock is in the part it guards.
Guarded == \A w \in Worker : pc[w] \in Locked => lock = w

\* The worker lock excludes (project_worker_lock around claim, recover and relink).
LEMMA GuardedAlways == Spec => []Guarded
<1> USE DEF Guarded, Locked, Location
<1>1. Init => Guarded
  BY DEF Init
<1>2. Typed /\ Guarded /\ [Next]_vars => Guarded'
  <2> SUFFICES ASSUME Typed, Guarded, [Next]_vars PROVE Guarded'
    OBVIOUS
  <2>0. pc \in [Worker -> Location]
    BY DEF Typed, TypeOK
  <2> USE <2>0 DEF Goto, Body
  <2>1. ASSUME NEW w \in Worker, NEW o \in Action, Ask(w, o) PROVE Guarded'
    BY <2>1 DEF Ask
  <2>2. ASSUME NEW w \in Worker, ReadRest(w) PROVE Guarded'
    BY <2>2 DEF ReadRest
  <2>3. ASSUME NEW w \in Worker, TakeLock(w) PROVE Guarded'
    BY <2>3 DEF TakeLock, Lock!Acquire
  <2>4. ASSUME NEW w \in Worker, LockBusy(w) PROVE Guarded'
    BY <2>4 DEF LockBusy, Forgotten
  <2>5. ASSUME NEW w \in Worker, Recover(w) PROVE Guarded'
    BY <2>5 DEF Recover
  <2>6. ASSUME NEW w \in Worker, StoreBusy(w) PROVE Guarded'
    BY <2>6 DEF StoreBusy
  <2>7. ASSUME NEW w \in Worker, Claim(w) PROVE Guarded'
    BY <2>7 DEF Claim
  <2>8. ASSUME NEW w \in Worker, Refuse(w) PROVE Guarded'
    BY <2>8 DEF Refuse
  <2>9. ASSUME NEW w \in Worker, Start(w) PROVE Guarded'
    BY <2>9 DEF Start
  <2>10. ASSUME NEW w \in Worker, Relink(w) PROVE Guarded'
    BY <2>10 DEF Relink
  <2>11. ASSUME NEW w \in Worker, Discover(w) PROVE Guarded'
    BY <2>11 DEF Discover, Working
  <2>12. ASSUME NEW w \in Worker, Stage(w) PROVE Guarded'
    BY <2>12 DEF Stage, Working
  <2>13. ASSUME NEW w \in Worker, Analyze(w) PROVE Guarded'
    BY <2>13 DEF Analyze, EndAs, Working
  <2>14. ASSUME NEW w \in Worker, DiscoverPreview(w) PROVE Guarded'
    BY <2>14 DEF DiscoverPreview, EndAs, Working
  <2>15. ASSUME NEW w \in Worker, CheckFreshness(w) PROVE Guarded'
    BY <2>15 DEF CheckFreshness, EndAs, Working
  <2>16. ASSUME NEW w \in Worker, Convert(w) PROVE Guarded'
    BY <2>16 DEF Convert, EndAs, Working
  <2>17. ASSUME NEW w \in Worker, Recheck(w) PROVE Guarded'
    BY <2>17 DEF Recheck, EndAs, Working
  <2>18. ASSUME NEW w \in Worker, Publish(w) PROVE Guarded'
    BY <2>18 DEF Publish, EndAs
  <2>19. ASSUME NEW w \in Worker, Register(w) PROVE Guarded'
    BY <2>19 DEF Register, EndAs, Working
  <2>20. ASSUME NEW w \in Worker, NoticeCancel(w) PROVE Guarded'
    BY <2>20 DEF NoticeCancel, EndAs
  <2>21. ASSUME NEW w \in Worker, StopAnalysis(w) PROVE Guarded'
    BY <2>21 DEF StopAnalysis, EndAs
  <2>22. ASSUME NEW w \in Worker, Fail(w) PROVE Guarded'
    BY <2>22 DEF Fail, EndAs
  <2>23. ASSUME NEW w \in Worker, Finish(w) PROVE Guarded'
    BY <2>23 DEF Finish
  <2>24. ASSUME NEW w \in Worker, FinishBusy(w) PROVE Guarded'
    BY <2>24 DEF FinishBusy
  <2>25. ASSUME NEW w \in Worker, Abandon(w) PROVE Guarded'
    BY <2>25 DEF Abandon
  <2>26. ASSUME NEW w \in Worker, Leave(w) PROVE Guarded'
    BY <2>26 DEF Leave, Lock!Release, Forgotten
  <2>27. ASSUME NEW j \in JobId, Cancel(j) PROVE Guarded'
    BY <2>27 DEF Cancel
  <2>28. ASSUME NEW r \in Root, NEW c \in Content \cup {NoContent}, Edit(r, c) PROVE Guarded'
    BY <2>28 DEF Edit
  <2>29. ASSUME NEW p \in Process, Crash(p) PROVE Guarded'
    BY <2>29 DEF Crash, Lock!Die, Lock!HolderAfterDeath, Forgotten
  <2>30. CASE UNCHANGED vars
    BY <2>30 DEF vars
  <2> QED
    BY <2>1, <2>2, <2>3, <2>4, <2>5, <2>6, <2>7, <2>8, <2>9, <2>10, <2>11, <2>12, <2>13, <2>14, <2>15, <2>16, <2>17, <2>18, <2>19, <2>20, <2>21, <2>22, <2>23, <2>24, <2>25, <2>26, <2>27, <2>28, <2>29, <2>30 DEF Next, Proceed
<1> QED
  BY <1>1, <1>2, TypedAlways, PTL DEF Spec

\* A worker that has a job row has the only unfinished one; once it is ending
\* the row may be finished already.
OwnsItsJob ==
  \A w \in Worker :
    /\ pc[w] = "claiming" => Unfinished = {}
    /\ pc[w] \in {"queued"} \cup Body => mine[w] \in JobId /\ Unfinished = {mine[w]}
    /\ pc[w] \in {"ending", "retrying"} => mine[w] \in JobId /\ Unfinished \subseteq {mine[w]}

\* Two workers in the guarded part are one.
LEMMA Alone ==
  ASSUME Guarded, NEW v \in Worker, NEW w \in Worker, pc[v] \in Locked, pc[w] \in Locked
  PROVE  v = w
  BY DEF Guarded

\* Unfinished depends on the job table alone.
LEMMA Same == UNCHANGED job => Unfinished' = Unfinished
  BY DEF Unfinished

\* What writing a status leaves in the row.
LEMMA StatusWritten ==
  ASSUME NEW row \in Row, NEW s
  PROVE  [row EXCEPT !.status = s].status = s
  BY DEF Row

\* Writing down a cancellation does not change the status.
LEMMA CancelWritten ==
  ASSUME NEW row \in Row
  PROVE  [row EXCEPT !.cancel = TRUE].status = row.status
  BY DEF Row

\* A recovered row is finished.
LEMMA InterruptedEnds == ASSUME NEW row \in Row PROVE Interrupted(row).status \notin Active
  BY DEF Row, Interrupted, Active

\* Ownership is kept by every step (claim, _recover_locked, the unique index).
LEMMA OwnershipAlways == Spec => []OwnsItsJob
<1> USE DEF OwnsItsJob, Locked, Location, Body
<1>1. Init => OwnsItsJob
  BY DEF Init
<1>2. Typed /\ Guarded /\ OwnsItsJob /\ [Next]_vars => OwnsItsJob'
  <2> SUFFICES ASSUME Typed, Guarded, OwnsItsJob, [Next]_vars PROVE OwnsItsJob'
    OBVIOUS
  <2>0. /\ pc \in [Worker -> Location] /\ mine \in [Worker -> 0..MaxJobs]
        /\ job \in [JobId -> Row] /\ last \in 0..MaxJobs
    BY DEF Typed, TypeOK
  <2> USE <2>0 DEF Goto
  <2>1. ASSUME NEW w \in Worker, NEW o \in Action, Ask(w, o) PROVE OwnsItsJob'
    BY <2>1, Same DEF Ask, store, local
  <2>2. ASSUME NEW w \in Worker, ReadRest(w) PROVE OwnsItsJob'
    BY <2>2, Same DEF ReadRest, store, local
  <2>3. ASSUME NEW w \in Worker, TakeLock(w) PROVE OwnsItsJob'
    BY <2>3, Same DEF TakeLock, Lock!Acquire, store, local
  <2>4. ASSUME NEW w \in Worker, LockBusy(w) PROVE OwnsItsJob'
    BY <2>4, Same DEF LockBusy, Forgotten, store, local
  <2>5. ASSUME NEW w \in Worker, Recover(w) PROVE OwnsItsJob'
    <3>1. Unfinished' = {}
      BY <2>0, <2>5, InterruptedEnds DEF Recover, Unfinished
    <3> QED
      BY <2>5, <3>1, Alone DEF Recover
  <2>6. ASSUME NEW w \in Worker, StoreBusy(w) PROVE OwnsItsJob'
    BY <2>6, Same DEF StoreBusy, store, local
  <2>7. ASSUME NEW w \in Worker, Claim(w) PROVE OwnsItsJob'
    <3>1. last + 1 \in JobId /\ Unfinished = {}
      BY <2>7 DEF Claim
    <3>2. Row0(w).status = "QUEUED"
      BY DEF Row0, NoRow
    <3>3. Unfinished' = {last + 1}
      BY <2>0, <2>7, <3>1, <3>2 DEF Claim, Unfinished, Active
    <3>4. mine' = [mine EXCEPT ![w] = last + 1] /\ pc' = [pc EXCEPT ![w] = "queued"] /\ pc[w] = "claiming"
      BY <2>7 DEF Claim
    <3> QED
      BY <3>1, <3>3, <3>4, Alone
  <2>8. ASSUME NEW w \in Worker, Refuse(w) PROVE OwnsItsJob'
    BY <2>8, Same DEF Refuse, store, local
  <2>9. ASSUME NEW w \in Worker, Start(w) PROVE OwnsItsJob'
    <3>1. mine[w] \in Unfinished /\ pc[w] = "queued"
      BY <2>9 DEF Start
    <3>2. Unfinished' = Unfinished
      BY <2>0, <2>9, <3>1, StatusTyped, StatusWritten DEF Start, Unfinished, Active
    <3> QED
      BY <2>9, <3>1, <3>2, Alone DEF Start, local
  <2>10. ASSUME NEW w \in Worker, Relink(w) PROVE OwnsItsJob'
    BY <2>10, Same DEF Relink, store, local
  <2>11. ASSUME NEW w \in Worker, Discover(w) PROVE OwnsItsJob'
    BY <2>11, Same DEF Discover, Working, store, local
  <2>12. ASSUME NEW w \in Worker, Stage(w) PROVE OwnsItsJob'
    BY <2>12, Same DEF Stage, Working, store, local
  <2>13. ASSUME NEW w \in Worker, Analyze(w) PROVE OwnsItsJob'
    BY <2>13, Same DEF Analyze, EndAs, Working, store, local
  <2>14. ASSUME NEW w \in Worker, DiscoverPreview(w) PROVE OwnsItsJob'
    BY <2>14, Same DEF DiscoverPreview, EndAs, Working, store, local
  <2>15. ASSUME NEW w \in Worker, CheckFreshness(w) PROVE OwnsItsJob'
    BY <2>15, Same DEF CheckFreshness, EndAs, Working, store, local
  <2>16. ASSUME NEW w \in Worker, Convert(w) PROVE OwnsItsJob'
    BY <2>16, Same DEF Convert, EndAs, Working, store, local
  <2>17. ASSUME NEW w \in Worker, Recheck(w) PROVE OwnsItsJob'
    BY <2>17, Same DEF Recheck, EndAs, Working, store, local
  <2>18. ASSUME NEW w \in Worker, Publish(w) PROVE OwnsItsJob'
    <3>1. pc[w] = "publishing" /\ pc' = [pc EXCEPT ![w] = "ending"] /\ mine' = mine
      BY <2>18 DEF Publish, EndAs
    <3>2. Completed(job[mine[w]], seen[w]).status \notin Active
      BY <2>0, <3>1 DEF Completed, Active, Row
    <3>3. Unfinished' \subseteq {mine[w]}
      BY <2>0, <2>18, <3>1, <3>2 DEF Publish, Unfinished
    <3> QED
      BY <3>1, <3>3, Alone
  <2>19. ASSUME NEW w \in Worker, Register(w) PROVE OwnsItsJob'
    <3>1. pc[w] = "publishing" /\ pc' = [pc EXCEPT ![w] = "ending"] /\ mine' = mine
      BY <2>19 DEF Register, Working, EndAs
    <3>2. [job[mine[w]] EXCEPT !.status = "COMPLETED"].status \notin Active
      BY <2>0, <3>1, StatusWritten DEF Active
    <3>3. Unfinished' \subseteq {mine[w]}
      BY <2>0, <2>19, <3>1, <3>2 DEF Register, Unfinished
    <3> QED
      BY <3>1, <3>3, Alone
  <2>20. ASSUME NEW w \in Worker, NoticeCancel(w) PROVE OwnsItsJob'
    BY <2>20, Same DEF NoticeCancel, EndAs, store, local
  <2>21. ASSUME NEW w \in Worker, StopAnalysis(w) PROVE OwnsItsJob'
    <3>1. pc[w] \in Body /\ pc' = [pc EXCEPT ![w] = "ending"] /\ mine' = mine
      BY <2>21 DEF StopAnalysis, EndAs
    <3>2. Unfinished' = Unfinished
      BY <2>0, <2>21, <3>1, CancelWritten DEF StopAnalysis, Unfinished
    <3> QED
      BY <3>1, <3>2, Alone
  <2>22. ASSUME NEW w \in Worker, Fail(w) PROVE OwnsItsJob'
    BY <2>22, Same DEF Fail, EndAs, store, local
  <2>23. ASSUME NEW w \in Worker, Finish(w) PROVE OwnsItsJob'
    <3>1. pc[w] \in {"ending", "retrying"} /\ pc' = [pc EXCEPT ![w] = "leaving"]
      BY <2>23 DEF Finish
    <3> QED
      BY <2>23, <3>1, Alone DEF Finish
  <2>24. ASSUME NEW w \in Worker, FinishBusy(w) PROVE OwnsItsJob'
    BY <2>24, Same DEF FinishBusy, store, local
  <2>25. ASSUME NEW w \in Worker, Abandon(w) PROVE OwnsItsJob'
    BY <2>25, Same DEF Abandon, store, local
  <2>26. ASSUME NEW w \in Worker, Leave(w) PROVE OwnsItsJob'
    BY <2>26, Same DEF Leave, Lock!Release, Forgotten, store, local
  <2>27. ASSUME NEW j \in JobId, Cancel(j) PROVE OwnsItsJob'
    <3>1. Unfinished' = Unfinished
      BY <2>0, <2>27, CancelWritten DEF Cancel, Unfinished
    <3> QED
      BY <2>27, <3>1 DEF Cancel, local
  <2>28. ASSUME NEW r \in Root, NEW c \in Content \cup {NoContent}, Edit(r, c) PROVE OwnsItsJob'
    BY <2>28, Same DEF Edit, store, local
  <2>29. ASSUME NEW p \in Process, Crash(p) PROVE OwnsItsJob'
    BY <2>29, Same DEF Crash, Lock!Die, Lock!HolderAfterDeath, Forgotten, store, local
  <2>30. CASE UNCHANGED vars
    BY <2>30, Same DEF vars, store, local
  <2> QED
    BY <2>1, <2>2, <2>3, <2>4, <2>5, <2>6, <2>7, <2>8, <2>9, <2>10, <2>11, <2>12, <2>13, <2>14, <2>15, <2>16, <2>17, <2>18, <2>19, <2>20, <2>21, <2>22, <2>23, <2>24, <2>25, <2>26, <2>27, <2>28, <2>29, <2>30 DEF Next, Proceed
<1> QED
  BY <1>1, <1>2, TypedAlways, GuardedAlways, PTL DEF Spec

\* No opening, recovery, relink or other operation, in any process, touches the
\* job of a live worker (project_service.open, ProjectJobManager.recover and
\* claim, ProjectStore.replace_roots).
THEOREM LiveJobsAreSafe == Spec => []LiveWorkerKeepsItsJob
<1>1. TypeOK /\ Guarded /\ OwnsItsJob => LiveWorkerKeepsItsJob
  BY DEF TypeOK, Guarded, OwnsItsJob, LiveWorkerKeepsItsJob, Locked, Body, Location
<1> QED
  BY <1>1, JobsTyping, GuardedAlways, OwnershipAlways, PTL

\* The steps that write job rows; every other step leaves them alone.
Writes(w) ==
  \/ Recover(w) \/ Claim(w) \/ Start(w) \/ Publish(w) \/ Register(w)
  \/ StopAnalysis(w) \/ Finish(w)

\* Every step either writes a job row in one of these ways or leaves the table alone.
LEMMA JobWriters ==
  ASSUME [Next]_vars
  PROVE  \/ UNCHANGED <<job, last>>
         \/ \E w \in Worker : Writes(w)
         \/ \E j \in JobId : Cancel(j)
<1>1. ASSUME NEW w \in Worker, Proceed(w) PROVE Writes(w) \/ UNCHANGED <<job, last>>
  <2>1. ReadRest(w) \/ TakeLock(w) \/ LockBusy(w) \/ Refuse(w) \/ Relink(w) => UNCHANGED <<job, last>>
    BY DEF ReadRest, TakeLock, LockBusy, Refuse, Relink, store
  <2>2. Discover(w) \/ Stage(w) \/ Analyze(w) \/ DiscoverPreview(w) \/ CheckFreshness(w) =>
          UNCHANGED <<job, last>>
    BY DEF Discover, Stage, Analyze, DiscoverPreview, CheckFreshness, store
  <2>3. Convert(w) \/ Recheck(w) \/ NoticeCancel(w) \/ Fail(w) \/ Leave(w) => UNCHANGED <<job, last>>
    BY DEF Convert, Recheck, NoticeCancel, Fail, Leave, store
  <2> QED
    BY <1>1, <2>1, <2>2, <2>3 DEF Proceed, Writes
<1>2. ASSUME NEW w \in Worker, \/ \E o \in Action : Ask(w, o)
                               \/ StoreBusy(w) \/ FinishBusy(w) \/ Abandon(w)
      PROVE  UNCHANGED <<job, last>>
  BY <1>2 DEF Ask, StoreBusy, FinishBusy, Abandon, store
<1>3. ASSUME NEW r \in Root, NEW c \in Content \cup {NoContent}, Edit(r, c)
      PROVE  UNCHANGED <<job, last>>
  BY <1>3 DEF Edit, store
<1>4. ASSUME NEW p \in Process, Crash(p) PROVE UNCHANGED <<job, last>>
  BY <1>4 DEF Crash, store
<1>5. UNCHANGED vars => UNCHANGED <<job, last>>
  BY DEF vars, store
<1> QED
  BY <1>1, <1>2, <1>3, <1>4, <1>5 DEF Next, Writes

\* A worker's job is set by claiming and reset by coming to rest or dying.
LEMMA JobOfWorkers ==
  ASSUME [Next]_vars
  PROVE  \/ UNCHANGED mine
         \/ \E w \in Worker : Claim(w)
         \/ \E W \in SUBSET Worker : Forgotten(W) /\ UNCHANGED last
<1>1. ASSUME NEW w \in Worker, Proceed(w)
      PROVE  \/ UNCHANGED mine
             \/ Claim(w)
             \/ Forgotten({w}) /\ UNCHANGED last
  <2>1. ReadRest(w) \/ TakeLock(w) \/ Refuse(w) \/ Start(w) \/ Relink(w) \/ Finish(w) => UNCHANGED mine
    BY DEF ReadRest, TakeLock, Refuse, Start, Relink, Finish, local
  <2>2. Discover(w) \/ Stage(w) \/ Analyze(w) \/ DiscoverPreview(w) \/ CheckFreshness(w) =>
          UNCHANGED mine
    BY DEF Discover, Stage, Analyze, DiscoverPreview, CheckFreshness
  <2>3. Convert(w) \/ Recheck(w) \/ Publish(w) \/ Register(w) \/ NoticeCancel(w) \/ Fail(w) =>
          UNCHANGED mine
    BY DEF Convert, Recheck, Publish, Register, NoticeCancel, Fail
  <2>4. LockBusy(w) \/ Leave(w) => Forgotten({w}) /\ UNCHANGED last
    BY DEF LockBusy, Leave, store
  <2> QED
    BY <1>1, <2>1, <2>2, <2>3, <2>4 DEF Proceed
<1>2. ASSUME NEW w \in Worker,
             \/ \E o \in Action : Ask(w, o)
             \/ Recover(w) \/ StoreBusy(w) \/ StopAnalysis(w) \/ FinishBusy(w) \/ Abandon(w)
      PROVE  UNCHANGED mine
  BY <1>2 DEF Ask, Recover, StoreBusy, StopAnalysis, FinishBusy, Abandon, local
<1>3. ASSUME NEW j \in JobId, Cancel(j) PROVE UNCHANGED mine
  BY <1>3 DEF Cancel, local
<1>4. ASSUME NEW r \in Root, NEW c \in Content \cup {NoContent}, Edit(r, c) PROVE UNCHANGED mine
  BY <1>4 DEF Edit, local
<1>5. ASSUME NEW p \in Process, Crash(p)
      PROVE  \E W \in SUBSET Worker : Forgotten(W) /\ UNCHANGED last
  BY <1>5 DEF Crash, store
<1>6. UNCHANGED vars => UNCHANGED mine
  BY DEF vars, local
<1> QED
  BY <1>1, <1>2, <1>3, <1>4, <1>5, <1>6 DEF Next

\* Rows are numbered in the order they are claimed, and a worker's is one of them.
RowsInOrder ==
  /\ \A j \in JobId : job[j].status # "ABSENT" => j <= last
  /\ \A w \in Worker : mine[w] <= last

\* Numbering is kept by every step.
LEMMA RowsAlwaysInOrder == Spec => []RowsInOrder
<1>1. Init => RowsInOrder
  BY DEF Init, RowsInOrder, NoRow
<1>2. Typed /\ Guarded /\ OwnsItsJob /\ RowsInOrder /\ [Next]_vars => RowsInOrder'
  <2> SUFFICES ASSUME Typed, OwnsItsJob, RowsInOrder, [Next]_vars PROVE RowsInOrder'
    OBVIOUS
  <2>0. /\ job \in [JobId -> Row] /\ last \in 0..MaxJobs /\ pc \in [Worker -> Location]
        /\ mine \in [Worker -> 0..MaxJobs]
    BY DEF Typed, TypeOK
  <2>1. last' \in Nat /\ last' >= last
    <3>1. ASSUME NEW w \in Worker, Writes(w) PROVE last' = last \/ last' = last + 1
      BY <3>1 DEF Writes, Recover, Claim, Start, Publish, Register, StopAnalysis, Finish
    <3>2. ASSUME NEW j \in JobId, Cancel(j) PROVE last' = last
      BY <3>2 DEF Cancel
    <3> QED
      BY <2>0, <3>1, <3>2, JobWriters
  <2>2. \A w \in Worker : mine'[w] <= last'
    <3>1. CASE UNCHANGED mine
      BY <2>0, <2>1, <3>1 DEF RowsInOrder
    <3>2. ASSUME NEW w \in Worker, Claim(w) PROVE \A v \in Worker : mine'[v] <= last'
      BY <2>0, <2>1, <3>2 DEF RowsInOrder, Claim
    <3>3. ASSUME NEW W \in SUBSET Worker, Forgotten(W), UNCHANGED last
          PROVE  \A v \in Worker : mine'[v] <= last'
      BY <2>0, <2>1, <3>3 DEF RowsInOrder, Forgotten
    <3> QED
      BY <3>1, <3>2, <3>3, JobOfWorkers
  <2>3. \A j \in JobId : job'[j].status # "ABSENT" => j <= last'
    <3> SUFFICES ASSUME NEW j \in JobId, job'[j] # job[j] PROVE j <= last'
      BY <2>0, <2>1 DEF RowsInOrder
    <3>1. ASSUME NEW w \in Worker, Writes(w) PROVE j <= last'
      <4>1. CASE Recover(w)
        <5>1. j \in Unfinished
          BY <2>0, <4>1 DEF Recover
        <5> QED
          BY <2>0, <2>1, <5>1 DEF Unfinished, Active, RowsInOrder
      <4>2. CASE Claim(w)
        BY <2>0, <4>2 DEF Claim
      <4>3. CASE Start(w) \/ Publish(w) \/ Register(w) \/ StopAnalysis(w) \/ Finish(w)
        <5>1. j = mine[w]
          BY <2>0, <4>3 DEF Start, Publish, Register, StopAnalysis, Finish
        <5> QED
          BY <2>0, <2>1, <5>1 DEF RowsInOrder
      <4> QED
        BY <3>1, <4>1, <4>2, <4>3 DEF Writes
    <3>2. ASSUME NEW k \in JobId, Cancel(k) PROVE j <= last'
      <4>1. j = k /\ job[k].status \in Active
        BY <2>0, <3>2 DEF Cancel
      <4> QED
        BY <2>0, <2>1, <4>1 DEF Active, RowsInOrder
    <3> QED
      BY <3>1, <3>2, JobWriters
  <2> QED
    BY <2>2, <2>3 DEF RowsInOrder
<1> QED
  BY <1>1, <1>2, TypedAlways, GuardedAlways, OwnershipAlways, PTL DEF Spec

\* finish() leaves a terminal row as it is.
LEMMA FinishedRow ==
  ASSUME NEW row \in Row, NEW w \in Worker, NEW s, row.status \in Terminal
  PROVE  Finished(WithOutcome(w, row), s) = row
  BY DEF Finished, WithOutcome

\* No step writes over a terminal row.
LEMMA TerminalStays ==
  ASSUME Typed, Guarded, OwnsItsJob, RowsInOrder, [Next]_vars,
         NEW j \in JobId, job[j].status \in Terminal
  PROVE  job'[j] = job[j]
<1>0. /\ job \in [JobId -> Row] /\ last \in 0..MaxJobs /\ pc \in [Worker -> Location]
      /\ mine \in [Worker -> 0..MaxJobs] /\ job[j] \in Row
  BY DEF Typed, TypeOK
<1>1. j \notin Unfinished
  BY DEF Unfinished, Active, Terminal
<1>2. ASSUME NEW w \in Worker, Writes(w) PROVE job'[j] = job[j]
  <2>1. CASE Recover(w)
    BY <1>0, <1>1, <2>1 DEF Recover
  <2>2. CASE Claim(w)
    <3>1. j <= last
      BY DEF RowsInOrder, Terminal
    <3> QED
      BY <1>0, <2>2, <3>1 DEF Claim
  <2>3. CASE Start(w) \/ Publish(w) \/ Register(w) \/ StopAnalysis(w)
    <3>1. mine[w] \in Unfinished
      BY <2>3 DEF Start, Publish, Register, StopAnalysis, Working, OwnsItsJob, Body
    <3> QED
      BY <1>0, <1>1, <2>3, <3>1 DEF Start, Publish, Register, StopAnalysis
  <2>4. CASE Finish(w)
    BY <1>0, <2>4, FinishedRow DEF Finish
  <2> QED
    BY <1>2, <2>1, <2>2, <2>3, <2>4 DEF Writes
<1>3. ASSUME NEW k \in JobId, Cancel(k) PROVE job'[j] = job[j]
  BY <1>0, <1>1, <1>3 DEF Cancel, Unfinished
<1> QED
  BY <1>2, <1>3, JobWriters

\* The recorded end of a job is never rewritten (JobLease.finish,
\* _recover_locked, cancel, the checkpoint of analyze_project).
THEOREM EndsAreFinal == Spec => TerminalIsFinal
<1>1. Typed /\ Guarded /\ OwnsItsJob /\ RowsInOrder /\ [Next]_vars =>
        [\A j \in JobId : job[j].status \in Terminal => job'[j] = job[j]]_vars
  BY TerminalStays
<1> QED
  BY <1>1, TypedAlways, GuardedAlways, OwnershipAlways, RowsAlwaysInOrder, PTL
     DEF Spec, TerminalIsFinal

\* A requested cancellation is never turned into a completion (JobLease.finish,
\* save_assessment's fence, the checkpoint inside convert_selected's transaction).
THEOREM CancellationsWin == Spec => []CancellationWins
<1> DEFINE Obeyed(row) ==
      row.cancel /\ row.status \in Terminal =>
        \/ row.status = "CANCELLED"
        \/ row.status = "FAILED" /\ row.interrupted
<1> DEFINE AllObeyed == \A j \in JobId : Obeyed(job[j])
<1>1. Init => AllObeyed
  BY DEF Init, NoRow
<1>2. Typed /\ OwnsItsJob /\ AllObeyed /\ [Next]_vars => AllObeyed'
  <2> SUFFICES ASSUME Typed, OwnsItsJob, AllObeyed, [Next]_vars, NEW j \in JobId,
                      job'[j] # job[j]
               PROVE  Obeyed(job'[j])
    BY JobWriters
  <2>0. /\ job \in [JobId -> Row] /\ mine \in [Worker -> 0..MaxJobs] /\ job[j] \in Row
        /\ ending \in [Worker -> Terminal]
    BY DEF Typed, TypeOK
  <2>1. ASSUME NEW w \in Worker, Writes(w) PROVE Obeyed(job'[j])
    <3>1. CASE Recover(w)
      <4>1. job'[j] = Interrupted(job[j])
        BY <2>0, <3>1 DEF Recover
      <4> QED
        BY <2>0, <4>1 DEF Interrupted, Row
    <3>2. CASE Claim(w)
      <4>1. job'[j] = Row0(w)
        BY <2>0, <3>2 DEF Claim
      <4> QED
        BY <4>1 DEF Row0, NoRow
    <3>3. CASE Start(w)
      <4>1. job'[j] = [job[j] EXCEPT !.status = "RUNNING"]
        BY <2>0, <3>3 DEF Start
      <4> QED
        BY <2>0, <4>1 DEF Row, Terminal
    <3>4. CASE Publish(w)
      <4>1. job'[j] = Completed(job[j], seen[w]) /\ ~job[j].cancel
        BY <2>0, <3>4 DEF Publish, Fence
      <4> QED
        BY <2>0, <4>1 DEF Completed, Row
    <3>5. CASE Register(w)
      <4>1. job'[j] = [job[j] EXCEPT !.status = "COMPLETED"] /\ ~job[j].cancel
        BY <2>0, <3>5 DEF Register, Working, Checkpoint
      <4> QED
        BY <2>0, <4>1 DEF Row
    <3>6. CASE StopAnalysis(w)
      <4>1. mine[w] \in Unfinished
        BY <3>6 DEF StopAnalysis, OwnsItsJob
      <4>2. job'[j] = [job[j] EXCEPT !.cancel = TRUE] /\ j \in Unfinished
        BY <2>0, <3>6, <4>1 DEF StopAnalysis
      <4> QED
        BY <2>0, <4>2 DEF Row, Unfinished, Active, Terminal
    <3>7. CASE Finish(w)
      <4>1. job'[j] = Finished(WithOutcome(w, job[j]), ending[w])
        BY <2>0, <3>7 DEF Finish
      <4> DEFINE row == WithOutcome(w, job[j])
      <4>2. row \in Row /\ row.status = job[j].status /\ row.cancel = job[j].cancel
            /\ row.interrupted = job[j].interrupted
        <5>1. row \in Row
          BY <2>0, OutcomeTyped DEF Typed
        <5>2. /\ row.status = job[j].status
              /\ row.cancel = job[j].cancel
              /\ row.interrupted = job[j].interrupted
          BY <2>0 DEF WithOutcome, Row
        <5> QED
          BY <5>1, <5>2
      <4>3. CASE job[j].status \in Terminal
        BY <2>0, <4>1, <4>3, FinishedRow
      <4>4. CASE job[j].status \notin Terminal
        <5>1. job'[j] = [row EXCEPT !.status = IF row.cancel THEN "CANCELLED" ELSE ending[w]]
          BY <4>1, <4>2, <4>4 DEF Finished
        <5> HIDE DEF row
        <5> QED
          BY <4>2, <5>1 DEF Row
      <4> QED
        BY <4>3, <4>4
    <3> QED
      BY <2>1, <3>1, <3>2, <3>3, <3>4, <3>5, <3>6, <3>7 DEF Writes
  <2>2. ASSUME NEW k \in JobId, Cancel(k) PROVE Obeyed(job'[j])
    <3>1. job'[j] = [job[j] EXCEPT !.cancel = TRUE] /\ job[j].status \in Active
      BY <2>0, <2>2 DEF Cancel
    <3> QED
      BY <2>0, <3>1 DEF Row, Active, Terminal
  <2> QED
    BY <2>1, <2>2, JobWriters
<1>3. AllObeyed => CancellationWins
  BY DEF CancellationWins
<1> QED
  BY <1>1, <1>2, <1>3, TypedAlways, OwnershipAlways, PTL DEF Spec

-----------------------------------------------------------------------------
(* Evidence: what the pointer, the rows and the badge say of the sources.   *)
(* A worker's row, its preconditions and what it found are tied to the one  *)
(* configuration that cannot change while it holds the lock.                *)

\* The inputs the project has now.
Current == [root |-> root, derived |-> derived]

CompletedAnalyses == {j \in JobId : job[j].operation = "ANALYZE" /\ job[j].status = "COMPLETED"}
CompletedChecks == {j \in JobId : job[j].operation = "FRESHNESS" /\ job[j].status = "COMPLETED"}

\* One of them is the newest.
NewestOf(S) == CHOOSE j \in S : \A k \in S : k <= j
HasNewest(S) == S # {} => \E j \in S : \A k \in S : k <= j

\* A discovery whose client named the configuration it had seen (project_http,
\* project_cli), so that it is read before the descriptor.
Discovers(w) == op[w] = "DISCOVER" /\ "DISCOVER" \notin DescriptorFirst

\* Rows name configurations there have been, and what was explored is what they name.
Books ==
  /\ inputs[configuration] = Current
  /\ \A j \in JobId : job[j].configuration <= configuration
  /\ \A j \in JobId : basis[j] # NoInputs =>
       j <= last /\ ("DISCOVER" \notin DescriptorFirst => basis[j] = inputs[job[j].configuration])

\* A discovery whose configuration is still the current one has the current root.
Waits(w) ==
  /\ pc[w] \notin {"ending", "leaving"} => verdict[w] = "NONE"
  /\ pc[w] \in {"asked", "ready", "locked", "claiming"} /\ Discovers(w) =>
       expected[w].configuration <= configuration
  /\ pc[w] \in {"ready", "locked", "claiming"} /\ Discovers(w) /\ expected[w].configuration = configuration =>
       folder[w] = root

\* A worker at work does what its row says, under the current configuration, and
\* what it found or is about to record is true unless the sources were edited.
Works(w) ==
  /\ pc[w] \in {"queued", "ending", "retrying"} \cup Body =>
       mine[w] = last /\ job[mine[w]].operation = op[w] /\ op[w] \in Operation
  /\ pc[w] \in {"queued"} \cup Body => job[mine[w]].configuration = configuration
  /\ pc[w] \in {"queued"} \cup Body /\ Discovers(w) => folder[w] = root
  /\ pc[w] \in {"ending", "retrying"} /\ ending[w] = "COMPLETED" =>
       pc[w] = "ending" /\ (op[w] = "DISCOVER" \/ (op[w] = "FRESHNESS" /\ verdict[w] # "NONE"))
  /\ pc[w] = "publishing" /\ mine[w] \notin edited => seen[w] = Fingerprint(root)
  /\ pc[w] = "ending" /\ verdict[w] = "CURRENT" /\ mine[w] \notin edited => seen[w] = Fingerprint(root)

\* A check that found the project current is right about the configuration of its row.
ChecksAreTrue ==
  \A j \in CompletedChecks :
    job[j].verdict = "CURRENT" /\ j \notin edited /\ job[j].configuration = configuration =>
      job[j].result = Fingerprint(root)

Evidence ==
  /\ Books
  /\ \A w \in Worker : Waits(w) /\ Works(w)
  /\ ChecksAreTrue
  /\ HasNewest(CompletedChecks) /\ HasNewest(CompletedAnalyses)
  /\ PointerMatchesJobs

\* What the proof of Evidence takes from the proofs before it.
Base == Typed /\ Guarded /\ OwnsItsJob /\ RowsInOrder

\* A step of w, and of nobody else.
OnlyLocal(w) ==
  \A v \in Worker \ {w} :
    /\ pc'[v] = pc[v] /\ op'[v] = op[v] /\ expected'[v] = expected[v] /\ folder'[v] = folder[v]
    /\ mine'[v] = mine[v] /\ seen'[v] = seen[v] /\ ending'[v] = ending[v] /\ verdict'[v] = verdict[v]

\* The steps outside the lock: asking, reading, taking the lock or finding it busy.
Outside(w) == (\E o \in Action : Ask(w, o)) \/ ReadRest(w) \/ TakeLock(w) \/ LockBusy(w)

Inside(w) ==
  \/ Recover(w) \/ StoreBusy(w) \/ Claim(w) \/ Refuse(w) \/ Start(w) \/ Relink(w)
  \/ Discover(w) \/ Stage(w) \/ Analyze(w) \/ DiscoverPreview(w) \/ CheckFreshness(w)
  \/ Convert(w) \/ Recheck(w) \/ Publish(w) \/ Register(w)
  \/ NoticeCancel(w) \/ StopAnalysis(w) \/ Fail(w)
  \/ Finish(w) \/ FinishBusy(w) \/ Abandon(w) \/ Leave(w)

LEMMA Steps ==
  ASSUME Next
  PROVE  \/ \E w \in Worker : Outside(w) \/ Inside(w)
         \/ \E j \in JobId : Cancel(j)
         \/ \E r \in Root, c \in Content \cup {NoContent} : Edit(r, c)
         \/ \E p \in Process : Crash(p)
  BY DEF Next, Proceed, Outside, Inside

LEMMA OutsideIsLocal ==
  ASSUME Typed, NEW w \in Worker, Outside(w)
  PROVE  OnlyLocal(w) /\ pc[w] \notin Locked /\ UNCHANGED <<store, history, environment>>
<1> USE DEF OnlyLocal, Typed, TypeOK, local, Goto, Locked
<1>1. ASSUME NEW o \in Action, Ask(w, o) PROVE OnlyLocal(w)
  BY <1>1 DEF Ask, RequestRelink, ReadConfiguration, ReadDescriptor
<1>2. CASE ReadRest(w)
  BY <1>2 DEF ReadRest, ReadConfiguration, ReadDescriptor
<1>3. CASE TakeLock(w)
  BY <1>3 DEF TakeLock
<1>4. CASE LockBusy(w)
  BY <1>4 DEF LockBusy, Forgotten
<1>5. pc[w] \notin Locked /\ UNCHANGED <<store, history, environment>>
  BY DEF Outside, Ask, ReadRest, TakeLock, LockBusy
<1> QED BY <1>1, <1>2, <1>3, <1>4, <1>5 DEF Outside

LEMMA InsideIsLocal ==
  ASSUME Typed, NEW w \in Worker, Inside(w)
  PROVE  OnlyLocal(w) /\ pc[w] \in Locked
<1>0. /\ pc \in [Worker -> Location] /\ mine \in [Worker -> 0..MaxJobs]
      /\ seen \in [Worker -> Revision \cup {NoRevision}]
      /\ ending \in [Worker -> Terminal] /\ verdict \in [Worker -> Verdict \cup {"NONE"}]
  BY DEF Typed, TypeOK
<1> USE DEF OnlyLocal, local, Goto, EndAs
<1>1. ASSUME Recover(w) PROVE OnlyLocal(w)
  BY <1>0, <1>1 DEF Recover
<1>2. ASSUME StoreBusy(w) PROVE OnlyLocal(w)
  BY <1>0, <1>2 DEF StoreBusy
<1>3. ASSUME Claim(w) PROVE OnlyLocal(w)
  BY <1>0, <1>3 DEF Claim
<1>4. ASSUME Refuse(w) PROVE OnlyLocal(w)
  BY <1>0, <1>4 DEF Refuse
<1>5. ASSUME Start(w) PROVE OnlyLocal(w)
  BY <1>0, <1>5 DEF Start
<1>6. ASSUME Relink(w) PROVE OnlyLocal(w)
  BY <1>0, <1>6 DEF Relink
<1>7. ASSUME Discover(w) PROVE OnlyLocal(w)
  BY <1>0, <1>7 DEF Discover
<1>8. ASSUME Stage(w) PROVE OnlyLocal(w)
  BY <1>0, <1>8 DEF Stage
<1>9. ASSUME Analyze(w) PROVE OnlyLocal(w)
  BY <1>0, <1>9 DEF Analyze
<1>10. ASSUME DiscoverPreview(w) PROVE OnlyLocal(w)
  BY <1>0, <1>10 DEF DiscoverPreview
<1>11. ASSUME CheckFreshness(w) PROVE OnlyLocal(w)
  BY <1>0, <1>11 DEF CheckFreshness
<1>12. ASSUME Convert(w) PROVE OnlyLocal(w)
  BY <1>0, <1>12 DEF Convert
<1>13. ASSUME Recheck(w) PROVE OnlyLocal(w)
  BY <1>0, <1>13 DEF Recheck
<1>14. ASSUME Publish(w) PROVE OnlyLocal(w)
  BY <1>0, <1>14 DEF Publish
<1>15. ASSUME Register(w) PROVE OnlyLocal(w)
  BY <1>0, <1>15 DEF Register
<1>16. ASSUME NoticeCancel(w) PROVE OnlyLocal(w)
  BY <1>0, <1>16 DEF NoticeCancel
<1>17. ASSUME StopAnalysis(w) PROVE OnlyLocal(w)
  BY <1>0, <1>17 DEF StopAnalysis
<1>18. ASSUME Fail(w) PROVE OnlyLocal(w)
  BY <1>0, <1>18 DEF Fail
<1>19. ASSUME Finish(w) PROVE OnlyLocal(w)
  BY <1>0, <1>19 DEF Finish
<1>20. ASSUME FinishBusy(w) PROVE OnlyLocal(w)
  BY <1>0, <1>20 DEF FinishBusy
<1>21. ASSUME Abandon(w) PROVE OnlyLocal(w)
  BY <1>0, <1>21 DEF Abandon
<1>22. ASSUME Leave(w) PROVE OnlyLocal(w)
  BY <1>22 DEF Leave, Forgotten
<1>23. pc[w] \in Locked
  BY DEF Inside, Recover, StoreBusy, Claim, Refuse, Start, Relink, Discover, Stage, Analyze, DiscoverPreview,
         CheckFreshness, Convert, Recheck, Publish, Register, NoticeCancel, StopAnalysis, Fail, Finish, FinishBusy,
         Abandon, Leave, Working, Body, Locked, Location
<1> QED
  BY <1>1, <1>2, <1>3, <1>4, <1>5, <1>6, <1>7, <1>8, <1>9, <1>10, <1>11, <1>12, <1>13, <1>14, <1>15, <1>16, <1>17, <1>18, <1>19, <1>20, <1>21, <1>22, <1>23 DEF Inside

\* The inputs change with their configuration, under the lock.
ConfigurationStays == UNCHANGED <<root, derived, configuration, inputs>>

LEMMA ConfigurationWriters ==
  ASSUME Next
  PROVE  ConfigurationStays \/ \E w \in Worker : Relink(w) \/ Register(w)
<1> USE DEF ConfigurationStays, store, history, environment
<1>1. ASSUME NEW w \in Worker, Outside(w) PROVE ConfigurationStays
  BY <1>1 DEF Outside, Ask, ReadRest, TakeLock, LockBusy
<1>2. ASSUME NEW w \in Worker, Inside(w), ~Relink(w), ~Register(w) PROVE ConfigurationStays
  <2>1. CASE Recover(w) \/ StoreBusy(w) \/ Claim(w) \/ Refuse(w) \/ Start(w) \/ Discover(w) \/ Stage(w) \/ Analyze(w)
    BY <2>1 DEF Recover, StoreBusy, Claim, Refuse, Start, Discover, Stage, Analyze
  <2>2. CASE DiscoverPreview(w) \/ CheckFreshness(w) \/ Convert(w) \/ Recheck(w) \/ Publish(w) \/ NoticeCancel(w)
    BY <2>2 DEF DiscoverPreview, CheckFreshness, Convert, Recheck, Publish, NoticeCancel
  <2>3. CASE StopAnalysis(w) \/ Fail(w) \/ Finish(w) \/ FinishBusy(w) \/ Abandon(w) \/ Leave(w)
    BY <2>3 DEF StopAnalysis, Fail, Finish, FinishBusy, Abandon, Leave
  <2> QED BY <1>2, <2>1, <2>2, <2>3 DEF Inside
<1>3. ASSUME NEW j \in JobId, Cancel(j) PROVE ConfigurationStays
  BY <1>3 DEF Cancel
<1>4. ASSUME NEW r \in Root, NEW c \in Content \cup {NoContent}, Edit(r, c) PROVE ConfigurationStays
  BY <1>4 DEF Edit
<1>5. ASSUME NEW p \in Process, Crash(p) PROVE ConfigurationStays
  BY <1>5 DEF Crash
<1> QED BY <1>1, <1>2, <1>3, <1>4, <1>5, Steps

\* What a new configuration stands for.
LEMMA NewConfiguration ==
  ASSUME Typed, NEW w \in Worker, Relink(w) \/ Register(w)
  PROVE  /\ configuration < MaxConfiguration /\ configuration' = configuration + 1
         /\ inputs' = [inputs EXCEPT ![configuration + 1] = Current']
         /\ inputs'[configuration + 1] = Current'
         /\ \A c \in 0..configuration : inputs'[c] = inputs[c]
         /\ UNCHANGED <<last, basis, edited, disk>>
<1>1. configuration \in 0..MaxConfiguration /\ inputs \in [0..MaxConfiguration -> Inputs \cup {NoInputs}] /\ MaxConfiguration \in Nat
  BY DEF Typed, TypeOK
<1>2. configuration < MaxConfiguration
  BY DEF Relink, Register, Working, Body, Typed, RoomToConfigure
<1>3. configuration' = configuration + 1 /\ UNCHANGED <<last, basis, edited, disk>>
  BY DEF Relink, Register, environment
<1>4. inputs' = [inputs EXCEPT ![configuration + 1] = Current']
  <2>1. CASE Relink(w)
    BY <2>1 DEF Relink, Current
  <2>2. CASE Register(w)
    BY <2>2 DEF Register, Current
  <2> QED BY <2>1, <2>2
<1> QED BY <1>1, <1>2, <1>3, <1>4

\* The pointer moves with a publication.
LEMMA PointerWriters ==
  ASSUME Next
  PROVE  UNCHANGED <<analysis, assessments>> \/ \E w \in Worker : Publish(w)
<1> DEFINE Stays == UNCHANGED <<analysis, assessments>>
<1> USE DEF store, history, environment
<1>1. ASSUME NEW w \in Worker, Outside(w) PROVE Stays
  BY <1>1 DEF Outside, Ask, ReadRest, TakeLock, LockBusy
<1>2. ASSUME NEW w \in Worker, Inside(w), ~Publish(w) PROVE Stays
  <2>1. CASE Recover(w) \/ StoreBusy(w) \/ Claim(w) \/ Refuse(w) \/ Start(w) \/ Discover(w) \/ Stage(w) \/ Analyze(w)
    BY <2>1 DEF Recover, StoreBusy, Claim, Refuse, Start, Discover, Stage, Analyze
  <2>2. CASE DiscoverPreview(w) \/ CheckFreshness(w) \/ Convert(w) \/ Recheck(w) \/ Register(w) \/ NoticeCancel(w)
    BY <2>2 DEF DiscoverPreview, CheckFreshness, Convert, Recheck, Register, NoticeCancel
  <2>3. CASE StopAnalysis(w) \/ Fail(w) \/ Finish(w) \/ FinishBusy(w) \/ Abandon(w) \/ Leave(w) \/ Relink(w)
    BY <2>3 DEF StopAnalysis, Fail, Finish, FinishBusy, Abandon, Leave, Relink
  <2> QED BY <1>2, <2>1, <2>2, <2>3 DEF Inside
<1>3. ASSUME NEW j \in JobId, Cancel(j) PROVE Stays
  BY <1>3 DEF Cancel
<1>4. ASSUME NEW r \in Root, NEW c \in Content \cup {NoContent}, Edit(r, c) PROVE Stays
  BY <1>4 DEF Edit
<1>5. ASSUME NEW p \in Process, Crash(p) PROVE Stays
  BY <1>5 DEF Crash
<1> QED BY <1>1, <1>2, <1>3, <1>4, <1>5, Steps

\* The folders change by an edit; a job that hashes them again is clear of it.
LEMMA EditWriters ==
  ASSUME Next
  PROVE  \/ UNCHANGED <<disk, edited>>
         \/ \E w \in Worker : (CheckFreshness(w) \/ Recheck(w)) /\ edited' = edited \ {mine[w]} /\ UNCHANGED disk
         \/ \E r \in Root, c \in Content \cup {NoContent} : Edit(r, c)
<1> DEFINE Stays == UNCHANGED <<disk, edited>>
<1> USE DEF history, environment
<1>1. ASSUME NEW w \in Worker, Outside(w) PROVE Stays
  BY <1>1 DEF Outside, Ask, ReadRest, TakeLock, LockBusy
<1>2. ASSUME NEW w \in Worker, Inside(w), ~CheckFreshness(w), ~Recheck(w) PROVE Stays
  <2>1. CASE Recover(w) \/ StoreBusy(w) \/ Claim(w) \/ Refuse(w) \/ Start(w) \/ Discover(w) \/ Stage(w) \/ Analyze(w)
    BY <2>1 DEF Recover, StoreBusy, Claim, Refuse, Start, Discover, Stage, Analyze
  <2>2. CASE DiscoverPreview(w) \/ Convert(w) \/ Publish(w) \/ Register(w) \/ NoticeCancel(w)
    BY <2>2 DEF DiscoverPreview, Convert, Publish, Register, NoticeCancel
  <2>3. CASE StopAnalysis(w) \/ Fail(w) \/ Finish(w) \/ FinishBusy(w) \/ Abandon(w) \/ Leave(w) \/ Relink(w)
    BY <2>3 DEF StopAnalysis, Fail, Finish, FinishBusy, Abandon, Leave, Relink
  <2> QED BY <1>2, <2>1, <2>2, <2>3 DEF Inside
<1>3. ASSUME NEW w \in Worker, CheckFreshness(w) \/ Recheck(w) PROVE edited' = edited \ {mine[w]} /\ UNCHANGED disk
  BY <1>3 DEF CheckFreshness, Recheck
<1>4. ASSUME NEW j \in JobId, Cancel(j) PROVE Stays
  BY <1>4 DEF Cancel
<1>5. ASSUME NEW p \in Process, Crash(p) PROVE Stays
  BY <1>5 DEF Crash
<1> QED BY <1>1, <1>2, <1>3, <1>4, <1>5, Steps

\* What a job explored is put down once it looks at its sources.
LEMMA BasisWriters ==
  ASSUME Next
  PROVE  \/ UNCHANGED basis
         \/ \E w \in Worker : /\ pc[w] = "running"
                              /\ \/ op[w] # "DISCOVER" /\ Explores(w, root)
                                 \/ op[w] = "DISCOVER" /\ Explores(w, folder[w])
<1> DEFINE Stays == UNCHANGED basis
<1> USE DEF history, environment
<1>1. ASSUME NEW w \in Worker, Outside(w) PROVE Stays
  BY <1>1 DEF Outside, Ask, ReadRest, TakeLock, LockBusy
<1>2. ASSUME NEW w \in Worker, Inside(w), ~Discover(w), ~DiscoverPreview(w), ~CheckFreshness(w), ~Convert(w) PROVE Stays
  <2>1. CASE Recover(w) \/ StoreBusy(w) \/ Claim(w) \/ Refuse(w) \/ Start(w) \/ Stage(w) \/ Analyze(w)
    BY <2>1 DEF Recover, StoreBusy, Claim, Refuse, Start, Stage, Analyze
  <2>2. CASE Recheck(w) \/ Publish(w) \/ Register(w) \/ NoticeCancel(w)
    BY <2>2 DEF Recheck, Publish, Register, NoticeCancel
  <2>3. CASE StopAnalysis(w) \/ Fail(w) \/ Finish(w) \/ FinishBusy(w) \/ Abandon(w) \/ Leave(w) \/ Relink(w)
    BY <2>3 DEF StopAnalysis, Fail, Finish, FinishBusy, Abandon, Leave, Relink
  <2> QED BY <1>2, <2>1, <2>2, <2>3 DEF Inside
<1>3. ASSUME NEW w \in Worker, Discover(w) \/ CheckFreshness(w) \/ Convert(w)
      PROVE  pc[w] = "running" /\ op[w] # "DISCOVER" /\ Explores(w, root)
  BY <1>3 DEF Discover, CheckFreshness, Convert, Working
<1>4. ASSUME NEW w \in Worker, DiscoverPreview(w)
      PROVE  pc[w] = "running" /\ op[w] = "DISCOVER" /\ Explores(w, folder[w])
  BY <1>4 DEF DiscoverPreview, Working
<1>5. ASSUME NEW j \in JobId, Cancel(j) PROVE Stays
  BY <1>5 DEF Cancel
<1>6. ASSUME NEW r \in Root, NEW c \in Content \cup {NoContent}, Edit(r, c) PROVE Stays
  BY <1>6 DEF Edit
<1>7. ASSUME NEW p \in Process, Crash(p) PROVE Stays
  BY <1>7 DEF Crash
<1> QED BY <1>1, <1>2, <1>3, <1>4, <1>5, <1>6, <1>7, Steps
\* Which operation a row is of, and under which configuration, is settled when
\* the row is inserted.
LEMMA SubjectStays ==
  ASSUME Base, Next, NEW j \in JobId
  PROVE  \/ job'[j].operation = job[j].operation /\ job'[j].configuration = job[j].configuration
         \/ \E w \in Worker : Claim(w) /\ j = last + 1 /\ job'[j] = Row0(w)
<1> DEFINE Kept == job'[j].operation = job[j].operation /\ job'[j].configuration = job[j].configuration
<1>0. job \in [JobId -> Row] /\ job[j] \in Row
  BY DEF Base, Typed, TypeOK
<1>1. ASSUME NEW w \in Worker, Writes(w), ~Claim(w) PROVE Kept
  <2>1. CASE Recover(w)
    <3>1. job'[j] = IF j \in Unfinished THEN Interrupted(job[j]) ELSE job[j]
      BY <2>1 DEF Recover
    <3> QED
      BY <1>0, <3>1 DEF Interrupted, Row
  <2>2. CASE Start(w)
    <3>1. job'[j] = IF j = mine[w] THEN [job[j] EXCEPT !.status = "RUNNING"] ELSE job[j]
      BY <1>0, <2>2 DEF Start
    <3> QED
      BY <1>0, <3>1 DEF Row
  <2>3. CASE Publish(w)
    <3>1. job'[j] = IF j = mine[w] THEN Completed(job[j], seen[w]) ELSE job[j]
      BY <1>0, <2>3 DEF Publish
    <3> QED
      BY <1>0, <3>1 DEF Completed, Row
  <2>4. CASE Register(w)
    <3>1. job'[j] = IF j = mine[w] THEN [job[j] EXCEPT !.status = "COMPLETED"] ELSE job[j]
      BY <1>0, <2>4 DEF Register
    <3> QED
      BY <1>0, <3>1 DEF Row
  <2>5. CASE StopAnalysis(w)
    <3>1. job'[j] = IF j = mine[w] THEN [job[j] EXCEPT !.cancel = TRUE] ELSE job[j]
      BY <1>0, <2>5 DEF StopAnalysis
    <3> QED
      BY <1>0, <3>1 DEF Row
  <2>6. CASE Finish(w)
    <3>1. job'[j] = IF j = mine[w] THEN Finished(WithOutcome(w, job[j]), ending[w]) ELSE job[j]
      BY <1>0, <2>6 DEF Finish
    <3>2. /\ WithOutcome(w, job[j]) \in Row
          /\ WithOutcome(w, job[j]).operation = job[j].operation
          /\ WithOutcome(w, job[j]).configuration = job[j].configuration
      <4>1. WithOutcome(w, job[j]) \in Row
        BY <1>0, OutcomeTyped DEF Base, Typed
      <4> QED
        BY <1>0, <4>1 DEF WithOutcome, Row
    <3> QED
      BY <1>0, <3>1, <3>2 DEF Finished, Row
  <2> QED
    BY <1>1, <2>1, <2>2, <2>3, <2>4, <2>5, <2>6 DEF Writes
<1>2. ASSUME NEW w \in Worker, Claim(w)
      PROVE  Kept \/ (j = last + 1 /\ job'[j] = Row0(w))
  <2>1. job' = [job EXCEPT ![last + 1] = Row0(w)]
    BY <1>2 DEF Claim
  <2> QED
    BY <1>0, <2>1
<1>3. ASSUME NEW k \in JobId, Cancel(k) PROVE Kept
  <2>1. job'[j] = IF j = k THEN [job[j] EXCEPT !.cancel = TRUE] ELSE job[j]
    BY <1>0, <1>3 DEF Cancel
  <2> QED
    BY <1>0, <2>1 DEF Row
<1> QED
  BY <1>1, <1>2, <1>3, JobWriters

\* A row that is completed now is that of an analysis just published, of a
\* conversion just registered, or of a discovery or a check just finished.
LEMMA HowJobsComplete ==
  ASSUME Base, Next, NEW j \in JobId, job'[j].status = "COMPLETED", job[j].status # "COMPLETED"
  PROVE  \E w \in Worker :
           /\ j = mine[w]
           /\ \/ Publish(w) /\ job'[j].result = seen[w]
              \/ Register(w)
              \/ /\ Finish(w) /\ ending[w] = "COMPLETED"
                 /\ op[w] = "FRESHNESS" /\ verdict[w] # "NONE" =>
                      job'[j].result = seen[w] /\ job'[j].verdict = verdict[w]
<1>0. /\ job \in [JobId -> Row] /\ job[j] \in Row /\ ending \in [Worker -> Terminal]
      /\ seen \in [Worker -> Revision \cup {NoRevision}]
      /\ verdict \in [Worker -> Verdict \cup {"NONE"}]
  BY DEF Base, Typed, TypeOK
<1>1. job[j].status \notin Terminal
  <2>1. job'[j] # job[j]
    OBVIOUS
  <2> QED
    BY <2>1, TerminalStays DEF Base
<1>2. ASSUME NEW w \in Worker, Writes(w)
      PROVE  /\ j = mine[w]
             /\ \/ Publish(w) /\ job'[j].result = seen[w]
                \/ Register(w)
                \/ /\ Finish(w) /\ ending[w] = "COMPLETED"
                   /\ op[w] = "FRESHNESS" /\ verdict[w] # "NONE" =>
                        job'[j].result = seen[w] /\ job'[j].verdict = verdict[w]
  <2>1. ~Recover(w)
    <3> SUFFICES ASSUME Recover(w) PROVE FALSE
      OBVIOUS
    <3>1. job'[j] = IF j \in Unfinished THEN Interrupted(job[j]) ELSE job[j]
      BY DEF Recover
    <3> QED
      BY <1>0, <3>1 DEF Interrupted, Row
  <2>2. ~Claim(w)
    <3> SUFFICES ASSUME Claim(w) PROVE FALSE
      OBVIOUS
    <3>1. job'[j] = Row0(w) \/ job'[j] = job[j]
      BY <1>0 DEF Claim
    <3>2. Row0(w).status = "QUEUED"
      BY DEF Row0, NoRow
    <3> QED
      BY <3>1, <3>2
  <2>3. ~Start(w)
    <3> SUFFICES ASSUME Start(w) PROVE FALSE
      OBVIOUS
    <3>1. job'[j] = IF j = mine[w] THEN [job[j] EXCEPT !.status = "RUNNING"] ELSE job[j]
      BY <1>0 DEF Start
    <3> QED
      BY <1>0, <3>1 DEF Row
  <2>4. ~StopAnalysis(w)
    <3> SUFFICES ASSUME StopAnalysis(w) PROVE FALSE
      OBVIOUS
    <3>1. job'[j] = IF j = mine[w] THEN [job[j] EXCEPT !.cancel = TRUE] ELSE job[j]
      BY <1>0 DEF StopAnalysis
    <3> QED
      BY <1>0, <3>1 DEF Row
  <2>5. CASE Publish(w)
    <3>1. job'[j] = IF j = mine[w] THEN Completed(job[j], seen[w]) ELSE job[j]
      BY <1>0, <2>5 DEF Publish
    <3>2. Completed(job[j], seen[w]).result = seen[w]
      BY <1>0 DEF Completed, Row
    <3> QED
      BY <2>5, <3>1, <3>2
  <2>6. CASE Register(w)
    <3>1. job'[j] = IF j = mine[w] THEN [job[j] EXCEPT !.status = "COMPLETED"] ELSE job[j]
      BY <1>0, <2>6 DEF Register
    <3> QED
      BY <2>6, <3>1
  <2>7. CASE Finish(w)
    <3>1. job'[j] = IF j = mine[w] THEN Finished(WithOutcome(w, job[j]), ending[w]) ELSE job[j]
      BY <1>0, <2>7 DEF Finish
    <3> DEFINE row == WithOutcome(w, job[j])
    <3>2. row \in Row /\ row.status = job[j].status
      <4>1. row \in Row
        BY <1>0, OutcomeTyped DEF Base, Typed
      <4> QED
        BY <1>0, <4>1 DEF WithOutcome, Row
    <3>3. op[w] = "FRESHNESS" /\ verdict[w] # "NONE" => row.result = seen[w] /\ row.verdict = verdict[w]
      BY <1>0, <1>1 DEF WithOutcome, Row
    <3>4. j = mine[w]
      BY <3>1
    <3> HIDE DEF row
    <3>5. job'[j] = [row EXCEPT !.status = IF row.cancel THEN "CANCELLED" ELSE ending[w]]
      BY <1>1, <3>1, <3>2, <3>4 DEF Finished, row
    <3>6. ending[w] = "COMPLETED" /\ job'[j].result = row.result /\ job'[j].verdict = row.verdict
      BY <3>2, <3>5 DEF Row
    <3> QED
      BY <2>7, <3>3, <3>4, <3>6
  <2> QED
    BY <1>2, <2>1, <2>2, <2>3, <2>4, <2>5, <2>6, <2>7 DEF Writes
<1>3. ASSUME NEW k \in JobId, Cancel(k) PROVE FALSE
  <2>1. job'[j] = IF j = k THEN [job[j] EXCEPT !.cancel = TRUE] ELSE job[j]
    BY <1>0, <1>3 DEF Cancel
  <2> QED
    BY <1>0, <2>1 DEF Row
<1> QED
  BY <1>2, <1>3, JobWriters
\* The configuration stays, or is the next one.
LEMMA ConfigurationGrows ==
  ASSUME Base, Next
  PROVE  \/ ConfigurationStays
         \/ /\ configuration' = configuration + 1
            /\ inputs'[configuration'] = Current'
            /\ \A c \in 0..configuration : inputs'[c] = inputs[c]
            /\ UNCHANGED <<last, basis, edited, disk>>
  BY ConfigurationWriters, NewConfiguration DEF Base

\* What the books say is kept by every step.
LEMMA BooksKept ==
  ASSUME Base, Evidence, Next, RowsInOrder', Typed'
  PROVE  Books'
<1>0. /\ job \in [JobId -> Row] /\ last \in 0..MaxJobs /\ configuration \in 0..MaxConfiguration
      /\ mine \in [Worker -> 0..MaxJobs] /\ basis \in [JobId -> Inputs \cup {NoInputs}]
      /\ configuration' \in 0..MaxConfiguration /\ last' \in 0..MaxJobs /\ MaxConfiguration \in Nat
      /\ \A j \in JobId : job[j].configuration \in 0..MaxConfiguration
  BY DEF Base, Typed, TypeOK, Row
<1>1. configuration <= configuration'
  BY <1>0, ConfigurationGrows DEF ConfigurationStays
<1>2. inputs'[configuration'] = Current'
  BY ConfigurationGrows DEF ConfigurationStays, Evidence, Books, Current
<1>3. ASSUME NEW c \in 0..configuration PROVE inputs'[c] = inputs[c]
  BY <1>3, ConfigurationGrows DEF ConfigurationStays
<1>4. ASSUME NEW j \in JobId PROVE job'[j].configuration <= configuration'
  <2>1. CASE job'[j].configuration = job[j].configuration
    BY <1>0, <1>1, <2>1 DEF Evidence, Books
  <2>2. ASSUME NEW w \in Worker, Claim(w), job'[j] = Row0(w) PROVE job'[j].configuration <= configuration'
    <3>1. Row0(w).configuration = expected[w].configuration
      BY DEF Row0, NoRow
    <3>2. expected[w].configuration = configuration
      BY <2>2 DEF Claim, Admissible
    <3> QED
      BY <1>0, <1>1, <2>2, <3>1, <3>2
  <2> QED
    BY <2>1, <2>2, SubjectStays
<1>5. last <= last'
  <2>1. ASSUME NEW w \in Worker, Writes(w) PROVE last' = last \/ last' = last + 1
    BY <2>1 DEF Writes, Recover, Claim, Start, Publish, Register, StopAnalysis, Finish
  <2>2. ASSUME NEW j \in JobId, Cancel(j) PROVE last' = last
    BY <2>2 DEF Cancel
  <2> QED
    BY <1>0, <2>1, <2>2, JobWriters
<1>6. ASSUME NEW j \in JobId, j <= last PROVE job'[j].configuration = job[j].configuration
  BY <1>0, <1>6, SubjectStays
<1>7. ASSUME NEW j \in JobId, basis'[j] # NoInputs
      PROVE  j <= last' /\ ("DISCOVER" \notin DescriptorFirst => basis'[j] = inputs'[job'[j].configuration])
  <2>1. CASE basis'[j] = basis[j]
    <3>1. j <= last /\ ("DISCOVER" \notin DescriptorFirst => basis[j] = inputs[job[j].configuration])
      BY <1>7, <2>1 DEF Evidence, Books
    <3>2. job[j].configuration \in 0..configuration
      BY <1>0 DEF Evidence, Books
    <3>3. j <= last'
      BY <1>0, <1>5, <3>1
    <3>4. inputs'[job'[j].configuration] = inputs[job[j].configuration]
      BY <1>3, <1>6, <3>1, <3>2
    <3> QED
      BY <2>1, <3>1, <3>3, <3>4
  <2>2. ASSUME NEW w \in Worker, pc[w] = "running", NEW r, Explores(w, r),
               "DISCOVER" \notin DescriptorFirst => r = root, basis'[j] # basis[j]
        PROVE  j <= last' /\ ("DISCOVER" \notin DescriptorFirst => basis'[j] = inputs'[job'[j].configuration])
    <3>1. j = mine[w] /\ basis'[j] = [root |-> r, derived |-> derived]
      BY <1>0, <2>2 DEF Explores
    <3>2. mine[w] = last /\ job[mine[w]].configuration = configuration
      BY <2>2 DEF Evidence, Works, Body
    <3>3. j <= last /\ j <= last'
      BY <1>0, <1>5, <3>1, <3>2
    <3>4. job'[j].configuration = configuration
      BY <1>6, <3>1, <3>2, <3>3
    <3>5. inputs'[configuration] = [root |-> root, derived |-> derived]
      BY <1>0, <1>3 DEF Evidence, Books, Current
    <3> QED
      BY <2>2, <3>1, <3>3, <3>4, <3>5
  <2>3. ASSUME NEW w \in Worker, pc[w] = "running", op[w] = "DISCOVER", "DISCOVER" \notin DescriptorFirst
        PROVE  folder[w] = root
    BY <2>3 DEF Evidence, Works, Body, Discovers
  <2> QED
    BY <2>1, <2>2, <2>3, BasisWriters
<1> QED
  BY <1>2, <1>4, <1>7 DEF Books

\* A worker that is not at work, and does not wait for an answer, claims nothing.
Busy == {"queued", "ending", "retrying"} \cup Body

LEMMA AtRest ==
  ASSUME NEW w \in Worker, pc[w] \notin Busy
  PROVE  Works(w)
  BY DEF Works, Busy, Body

LEMMA AtRestNext ==
  ASSUME NEW w \in Worker, pc'[w] \notin Busy
  PROVE  Works(w)'
  BY DEF Works, Busy, Body

\* What is true of a worker stays true while others are at it, unless its
\* job, its inputs or its sources are touched.
LEMMA WorksStays ==
  ASSUME NEW v \in Worker, Works(v),
         pc'[v] = pc[v], op'[v] = op[v], folder'[v] = folder[v], mine'[v] = mine[v], seen'[v] = seen[v],
         ending'[v] = ending[v], verdict'[v] = verdict[v],
         UNCHANGED <<last, root, derived, configuration, disk, edited>>,
         pc[v] \in Busy => /\ job'[mine[v]].operation = job[mine[v]].operation
                           /\ job'[mine[v]].configuration = job[mine[v]].configuration
  PROVE  Works(v)'
  BY DEF Works, Busy, Discovers, Fingerprint, Body

LEMMA WaitsStays ==
  ASSUME Base, Next, NEW v \in Worker, Waits(v),
         pc'[v] = pc[v], op'[v] = op[v], folder'[v] = folder[v], expected'[v] = expected[v],
         verdict'[v] = verdict[v]
  PROVE  Waits(v)'
<1>1. configuration \in Nat /\ expected[v].configuration \in Nat
  BY DEF Base, Typed, TypeOK, Precondition
<1>2. \/ UNCHANGED <<root, configuration>>
      \/ configuration' = configuration + 1
  BY ConfigurationGrows DEF ConfigurationStays
<1> QED
  BY <1>1, <1>2 DEF Waits, Discovers
\* A worker at work has the newest row, and nobody inserts another.
LEMMA BusyRow ==
  ASSUME Base, Evidence, NEW v \in Worker, pc[v] \in Busy
  PROVE  pc[v] \in Locked /\ mine[v] \in JobId /\ mine[v] = last
  BY DEF Busy, Locked, Location, Body, Base, OwnsItsJob, Evidence, Works

\* What others do leaves a worker as it is: inside the lock there is one.
LEMMA OthersKept ==
  ASSUME Base, Evidence, Next, NEW w \in Worker, Outside(w) \/ Inside(w), NEW v \in Worker \ {w}
  PROVE  Waits(v)' /\ Works(v)'
<1>1. OnlyLocal(w) /\ (pc[w] \in Locked \/ UNCHANGED <<store, history, environment>>)
  BY OutsideIsLocal, InsideIsLocal DEF Base
<1>2. /\ pc'[v] = pc[v] /\ op'[v] = op[v] /\ expected'[v] = expected[v] /\ folder'[v] = folder[v]
      /\ mine'[v] = mine[v] /\ seen'[v] = seen[v] /\ ending'[v] = ending[v] /\ verdict'[v] = verdict[v]
  BY <1>1 DEF OnlyLocal
<1>3. Waits(v) /\ Works(v)
  BY DEF Evidence
<1>4. Waits(v)'
  BY <1>2, <1>3, WaitsStays
<1>5. CASE pc[v] \notin Busy
  BY <1>2, <1>4, <1>5, AtRestNext
<1>6. CASE pc[v] \in Busy
  <2>1. pc[v] \in Locked
    BY <1>6, BusyRow
  <2>2. pc[w] \notin Locked
    BY <2>1, Alone DEF Base
  <2>3. UNCHANGED <<store, history, environment>>
    BY <1>1, <2>2
  <2>4. UNCHANGED <<job, last, root, derived, configuration, disk, edited>>
    BY <2>3 DEF store, history, environment
  <2>5. Works(v)'
    BY <1>2, <1>3, <2>4, WorksStays
  <2> QED
    BY <1>4, <2>5
<1> QED
  BY <1>5, <1>6

\* A worker that comes to rest, or goes back to waiting, claims nothing.
LEMMA ActorOutside ==
  ASSUME Base, Evidence, NEW w \in Worker, Outside(w)
  PROVE  Waits(w)' /\ Works(w)'
<1>0. /\ pc \in [Worker -> Location] /\ op \in [Worker -> Action] /\ folder \in [Worker -> Root \cup {NoRoot}]
      /\ configuration \in 0..MaxConfiguration /\ expected[w].configuration \in 0..MaxConfiguration
      /\ MaxConfiguration \in Nat
  BY DEF Base, Typed, TypeOK, Precondition
<1>1. Waits(w)
  BY DEF Evidence
<1>2. UNCHANGED <<configuration, root>>
  BY OutsideIsLocal DEF Base, store
<1> USE DEF Goto, Busy, Body
<1>3. ASSUME NEW o \in Action, Ask(w, o) PROVE Waits(w)' /\ Works(w)'
  <2>1. pc'[w] \in {"asked", "ready"} /\ op'[w] = o /\ verdict' = verdict /\ pc[w] = "idle"
    BY <1>0, <1>3 DEF Ask
  <2>2. Works(w)'
    BY <2>1, AtRestNext
  <2>3. ASSUME o = "DISCOVER", "DISCOVER" \notin DescriptorFirst
        PROVE  pc'[w] = "asked" /\ expected'[w].configuration = configuration
    <3>1. ReadConfiguration(w) /\ pc'[w] = "asked"
      BY <1>0, <1>3, <2>3 DEF Ask
    <3> QED
      BY <3>1, ConfigurationRead DEF Base, Typed
  <2>4. Waits(w)'
    BY <1>0, <1>1, <1>2, <2>1, <2>3 DEF Waits, Discovers
  <2> QED
    BY <2>2, <2>4
<1>4. CASE ReadRest(w)
  <2>1. pc'[w] = "ready" /\ op' = op /\ verdict' = verdict /\ pc[w] = "asked"
    BY <1>0, <1>4 DEF ReadRest
  <2>2. Works(w)'
    BY <2>1, AtRestNext
  <2>3. ASSUME Discovers(w)
        PROVE  folder'[w] = root /\ expected'[w].configuration = expected[w].configuration
    <3>1. ReadDescriptor(w)
      BY <1>4, <2>3 DEF ReadRest, Discovers
    <3>2. folder' = [folder EXCEPT ![w] = root]
      BY <2>1, <2>3, <3>1 DEF ReadDescriptor, Discovers
    <3> QED
      BY <1>0, <3>1, <3>2, DescriptorRead DEF Base, Typed
  <2>4. Waits(w)'
    BY <1>1, <1>2, <2>1, <2>3 DEF Waits, Discovers
  <2> QED
    BY <2>2, <2>4
<1>5. CASE TakeLock(w)
  <2>1. pc'[w] = "locked" /\ pc[w] = "ready" /\ UNCHANGED local
    BY <1>0, <1>5 DEF TakeLock
  <2>2. Works(w)'
    BY <2>1, AtRestNext
  <2>3. Waits(w)'
    BY <1>1, <1>2, <2>1 DEF Waits, Discovers, local
  <2> QED
    BY <2>2, <2>3
<1>6. CASE LockBusy(w)
  <2>1. pc'[w] = "idle" /\ verdict'[w] = "NONE"
    BY <1>6 DEF LockBusy, Forgotten
  <2>2. Works(w)'
    BY <2>1, AtRestNext
  <2>3. Waits(w)'
    BY <2>1 DEF Waits
  <2> QED
    BY <2>2, <2>3
<1> QED
  BY <1>3, <1>4, <1>5, <1>6 DEF Outside
\* The subject of a row that is there does not change.
LEMMA OldSubject ==
  ASSUME Base, Next, NEW j \in JobId, j <= last
  PROVE  job'[j].operation = job[j].operation /\ job'[j].configuration = job[j].configuration
<1>1. last \in 0..MaxJobs
  BY DEF Base, Typed, TypeOK
<1> QED
  BY <1>1, SubjectStays

\* A worker that goes on with its work.
LEMMA GoesOn ==
  ASSUME Base, Evidence, Next, NEW w \in Worker, pc[w] \in {"queued"} \cup Body,
         \/ pc'[w] \in {"running", "discovered", "staged", "persisting"}
         \/ pc'[w] = "publishing" /\ seen'[w] = Fingerprint(root)',
         op'[w] = op[w], folder'[w] = folder[w], mine'[w] = mine[w], verdict'[w] = verdict[w],
         UNCHANGED <<last, root, configuration>>
  PROVE  Waits(w)' /\ Works(w)'
<1>1. mine[w] \in JobId /\ mine[w] = last /\ mine[w] <= last
  BY BusyRow DEF Busy, Base, RowsInOrder
<1>2. Works(w) /\ Waits(w)
  BY DEF Evidence
<1>3. job'[mine[w]].operation = job[mine[w]].operation /\ job'[mine[w]].configuration = job[mine[w]].configuration
  BY <1>1, OldSubject
<1>4. Waits(w)'
  BY <1>2 DEF Waits, Body
<1>5. Works(w)'
  BY <1>2, <1>3 DEF Works, Body, Discovers
<1> QED
  BY <1>4, <1>5

\* A worker whose work is over, without an answer to record.
LEMMA EndsWithout ==
  ASSUME Base, Evidence, Next, NEW w \in Worker, pc[w] \in {"queued"} \cup Body,
         pc'[w] = "ending", ending'[w] # "COMPLETED",
         op'[w] = op[w], mine'[w] = mine[w], verdict'[w] = verdict[w], last' = last
  PROVE  Waits(w)' /\ Works(w)'
<1>1. mine[w] \in JobId /\ mine[w] = last /\ mine[w] <= last
  BY BusyRow DEF Busy, Base, RowsInOrder
<1>2. Works(w) /\ Waits(w)
  BY DEF Evidence
<1>3. job'[mine[w]].operation = job[mine[w]].operation
  BY <1>1, OldSubject
<1>4. Waits(w)'
  BY DEF Waits
<1>5. verdict'[w] = "NONE"
  BY <1>2 DEF Waits, Body
<1>6. Works(w)'
  BY <1>2, <1>3, <1>5 DEF Works, Body
<1> QED
  BY <1>4, <1>6

\* What an inside step leaves of the worker that takes it.
LEMMA ActorInside ==
  ASSUME Base, Evidence, Next, NEW w \in Worker, Inside(w)
  PROVE  Waits(w)' /\ Works(w)'
<1>0. /\ pc \in [Worker -> Location] /\ mine \in [Worker -> 0..MaxJobs]
      /\ seen \in [Worker -> Revision \cup {NoRevision}]
      /\ ending \in [Worker -> Terminal] /\ verdict \in [Worker -> Verdict \cup {"NONE"}]
      /\ job \in [JobId -> Row] /\ last \in 0..MaxJobs
  BY DEF Base, Typed, TypeOK
<1>w. Works(w) /\ Waits(w)
  BY DEF Evidence
<1> USE DEF Goto, EndAs, Working
<1>1. ASSUME StoreBusy(w) \/ Refuse(w) \/ Relink(w) \/ Finish(w) \/ Abandon(w) \/ Leave(w)
      PROVE  Waits(w)' /\ Works(w)'
  <2>1. pc'[w] = "leaving" \/ (pc'[w] = "idle" /\ verdict'[w] = "NONE")
    <3>1. CASE Leave(w)
      BY <3>1 DEF Leave, Forgotten
    <3>2. CASE StoreBusy(w) \/ Refuse(w) \/ Relink(w) \/ Finish(w) \/ Abandon(w)
      BY <1>0, <3>2 DEF StoreBusy, Refuse, Relink, Finish, Abandon
    <3> QED
      BY <1>1, <3>1, <3>2
  <2>2. Works(w)'
    BY <2>1, AtRestNext DEF Busy, Body
  <2> QED
    BY <2>1, <2>2 DEF Waits
<1>2. CASE Recover(w)
  <2>1. pc'[w] \in {"leaving", "claiming"} /\ pc[w] = "locked" /\ UNCHANGED <<root, configuration, local>>
    BY <1>0, <1>2 DEF Recover
  <2>2. Works(w)'
    BY <2>1, AtRestNext DEF Busy, Body
  <2>3. Waits(w)'
    BY <1>w, <2>1 DEF Waits, Discovers, local
  <2> QED
    BY <2>2, <2>3
<1>3. CASE Claim(w)
  <2>1. /\ pc'[w] = "queued" /\ pc[w] = "claiming" /\ mine'[w] = last + 1 /\ last' = last + 1 /\ last + 1 \in JobId
        /\ UNCHANGED <<op, folder, root, configuration, verdict>> /\ op[w] \in Operation
        /\ expected[w].configuration = configuration
    BY <1>0, <1>3 DEF Claim, Admissible
  <2>2. job'[last + 1] = Row0(w)
    BY <1>0, <1>3, <2>1 DEF Claim
  <2>3. Row0(w).operation = op[w] /\ Row0(w).configuration = expected[w].configuration
    BY DEF Row0, NoRow
  <2>4. Discovers(w) => folder[w] = root
    BY <1>w, <2>1 DEF Waits
  <2>5. Waits(w)'
    BY <1>w, <2>1 DEF Waits
  <2>6. Works(w)'
    BY <2>1, <2>2, <2>3, <2>4 DEF Works, Discovers, Body
  <2> QED
    BY <2>5, <2>6
<1>4. CASE Start(w)
  <2>1. pc[w] = "queued" /\ pc'[w] = "running" /\ UNCHANGED <<local, last, root, configuration>>
    BY <1>0, <1>4 DEF Start
  <2> QED
    BY <2>1, GoesOn DEF local
<1>5. CASE Discover(w) \/ Stage(w)
  <2>1. /\ pc[w] \in Body /\ pc'[w] \in {"discovered", "staged"}
        /\ UNCHANGED <<op, folder, mine, verdict, last, root, configuration>>
    BY <1>0, <1>5 DEF Discover, Stage, store, Body
  <2> QED
    BY <2>1, GoesOn
<1>6. CASE Analyze(w)
  <2>1. /\ pc[w] \in Body /\ UNCHANGED <<op, folder, mine, verdict, last, root, configuration>>
        /\ pc'[w] = "persisting" \/ (pc'[w] = "ending" /\ ending'[w] = "FAILED")
    BY <1>0, <1>6 DEF Analyze, store, Body
  <2> QED
    BY <2>1, GoesOn, EndsWithout
<1>7. CASE DiscoverPreview(w)
  <2>1. /\ pc[w] = "running" /\ op[w] = "DISCOVER" /\ pc'[w] = "ending" /\ UNCHANGED <<job, op, mine, verdict, last>>
    BY <1>0, <1>7 DEF DiscoverPreview, store
  <2>2. verdict'[w] = "NONE"
    BY <1>w, <2>1 DEF Waits
  <2>3. Waits(w)'
    BY <2>1 DEF Waits
  <2>4. Works(w)'
    BY <1>w, <2>1, <2>2 DEF Works, Body
  <2> QED
    BY <2>3, <2>4
<1>8. CASE CheckFreshness(w)
  <2>1. /\ pc[w] = "running" /\ op[w] = "FRESHNESS" /\ pc'[w] = "ending"
        /\ UNCHANGED <<job, op, mine, last, root, derived, disk>> /\ seen'[w] = analysis
    BY <1>0, <1>8 DEF CheckFreshness, store, environment
  <2>2. PICK v \in Freshness : verdict' = [verdict EXCEPT ![w] = v]
    BY <1>8 DEF CheckFreshness
  <2>3. verdict'[w] = v
    BY <1>0, <2>2
  <2>4. v # "NONE" /\ (v = "CURRENT" => Fingerprint(root) = analysis)
    BY <2>2 DEF Freshness
  <2>5. Waits(w)'
    BY <2>1 DEF Waits
  <2>6. Works(w)'
    BY <1>w, <2>1, <2>3, <2>4 DEF Works, Body, Fingerprint
  <2> QED
    BY <2>5, <2>6
<1>9. CASE Convert(w)
  <2>1. /\ pc[w] \in Body /\ UNCHANGED <<op, folder, mine, verdict, last, root, configuration>>
        /\ pc'[w] = "persisting" \/ (pc'[w] = "ending" /\ ending'[w] = "FAILED")
    BY <1>0, <1>9 DEF Convert, store, Body
  <2> QED
    BY <2>1, GoesOn, EndsWithout
<1>10. CASE Recheck(w)
  <2>1. /\ pc[w] \in Body /\ UNCHANGED <<op, folder, mine, verdict, last, root, configuration>>
        /\ \/ pc'[w] = "publishing" /\ seen[w] = Fingerprint(root)
           \/ pc'[w] = "ending" /\ ending'[w] = "FAILED"
    BY <1>0, <1>10 DEF Recheck, Unchanged, store, Body
  <2>2. Fingerprint(root)' = Fingerprint(root) /\ seen' = seen
    BY <1>10 DEF Recheck, Fingerprint, store, environment
  <2> QED
    BY <2>1, <2>2, GoesOn, EndsWithout
<1>11. ASSUME Publish(w) \/ Register(w) \/ NoticeCancel(w) \/ StopAnalysis(w) \/ Fail(w)
       PROVE  Waits(w)' /\ Works(w)'
  <2>1. /\ pc[w] \in {"queued"} \cup Body /\ pc'[w] = "ending" /\ ending'[w] \in {"FAILED", "CANCELLED"}
        /\ UNCHANGED <<op, mine, verdict, last>>
    BY <1>0, <1>11 DEF Publish, Register, NoticeCancel, StopAnalysis, Fail, store, Body
  <2> QED
    BY <2>1, EndsWithout
<1>12. CASE FinishBusy(w)
  <2>1. /\ pc[w] = "ending" /\ pc'[w] = "retrying" /\ ending'[w] = "FAILED" /\ verdict'[w] = "NONE"
        /\ UNCHANGED <<op, mine, job, last>>
    BY <1>0, <1>12 DEF FinishBusy, store
  <2>2. Waits(w)'
    BY <2>1 DEF Waits
  <2>3. Works(w)'
    BY <1>w, <2>1 DEF Works, Body
  <2> QED
    BY <2>2, <2>3
<1> QED
  BY <1>1, <1>2, <1>3, <1>4, <1>5, <1>6, <1>7, <1>8, <1>9, <1>10, <1>11, <1>12 DEF Inside
\* Every worker keeps its bargain through every step.
LEMMA WorkersKept ==
  ASSUME Base, Evidence, Next, NEW v \in Worker
  PROVE  Waits(v)' /\ Works(v)'
<1>v. Works(v) /\ Waits(v)
  BY DEF Evidence
<1>1. ASSUME NEW w \in Worker, Outside(w) \/ Inside(w) PROVE Waits(v)' /\ Works(v)'
  <2>1. CASE v = w
    BY <1>1, <2>1, ActorOutside, ActorInside
  <2>2. CASE v # w
    BY <1>1, <2>2, OthersKept
  <2> QED
    BY <2>1, <2>2
<1>2. ASSUME NEW j \in JobId, Cancel(j) PROVE Waits(v)' /\ Works(v)'
  <2>1. UNCHANGED <<last, root, configuration, derived, pc, local, history, environment>>
    BY <1>2 DEF Cancel
  <2>2. pc[v] \in Busy => /\ job'[mine[v]].operation = job[mine[v]].operation
                          /\ job'[mine[v]].configuration = job[mine[v]].configuration
    BY BusyRow, OldSubject DEF Base, RowsInOrder
  <2>3. Works(v)'
    BY <1>v, <2>1, <2>2, WorksStays DEF local, history, environment
  <2>4. Waits(v)'
    BY <1>v, <2>1, WaitsStays DEF local
  <2> QED
    BY <2>3, <2>4
<1>3. ASSUME NEW r \in Root, NEW c \in Content \cup {NoContent}, Edit(r, c) PROVE Waits(v)' /\ Works(v)'
  <2>1. UNCHANGED <<job, last, root, configuration, pc, local>> /\ edited' = 1..last
    BY <1>3 DEF Edit, store
  <2>2. Waits(v)'
    BY <1>v, <2>1, WaitsStays DEF local
  <2>3. pc[v] \in Busy => mine'[v] \in edited'
    <3>1. last \in Nat
      BY DEF Base, Typed, TypeOK
    <3> QED
      BY <2>1, <3>1, BusyRow DEF local
  <2>4. Works(v)'
    BY <1>v, <2>1, <2>3 DEF Works, Busy, Body, Discovers, local
  <2> QED
    BY <2>2, <2>4
<1>4. ASSUME NEW p \in Process, Crash(p) PROVE Waits(v)' /\ Works(v)'
  <2> DEFINE gone == {w \in Worker : ProcOf[w] = p}
  <2>1. Forgotten(gone) /\ UNCHANGED <<job, last, root, derived, configuration, disk, edited>>
    BY <1>4 DEF Crash, store, history
  <2>2. CASE v \in gone
    <3>1. pc'[v] = "idle" /\ verdict'[v] = "NONE"
      BY <2>1, <2>2 DEF Forgotten
    <3>2. Works(v)'
      BY <3>1, AtRestNext DEF Busy, Body
    <3>3. Waits(v)'
      BY <3>1 DEF Waits
    <3> QED
      BY <3>2, <3>3
  <2>3. CASE v \notin gone
    <3>1. /\ pc'[v] = pc[v] /\ op'[v] = op[v] /\ expected'[v] = expected[v] /\ folder'[v] = folder[v]
          /\ mine'[v] = mine[v] /\ seen'[v] = seen[v] /\ ending'[v] = ending[v] /\ verdict'[v] = verdict[v]
      BY <2>1, <2>3 DEF Forgotten
    <3> QED
      BY <1>v, <2>1, <3>1, WorksStays, WaitsStays
  <2> QED
    BY <2>2, <2>3
<1> QED
  BY <1>1, <1>2, <1>3, <1>4, Steps

\* A job that is completed now and was not is the newest one; it is an analysis
\* just published, a conversion, a discovery, or a check with an answer that is true.
LEMMA NewCompletion ==
  ASSUME Base, Evidence, Next, Base', NEW j \in JobId,
         job'[j].status = "COMPLETED", job[j].status # "COMPLETED"
  PROVE  /\ j = last'
         /\ job'[j].operation = "ANALYZE" =>
              \E w \in Worker : Publish(w) /\ j = mine[w] /\ job'[j].result = seen[w]
         /\ job'[j].operation = "FRESHNESS" =>
              /\ UNCHANGED <<root, derived, configuration, disk, edited>>
              /\ job'[j].verdict = "CURRENT" /\ j \notin edited => job'[j].result = Fingerprint(root)
<1>1. PICK w \in Worker :
           /\ j = mine[w]
           /\ \/ Publish(w) /\ job'[j].result = seen[w]
              \/ Register(w)
              \/ /\ Finish(w) /\ ending[w] = "COMPLETED"
                 /\ op[w] = "FRESHNESS" /\ verdict[w] # "NONE" =>
                      job'[j].result = seen[w] /\ job'[j].verdict = verdict[w]
  BY HowJobsComplete
<1>2. pc[w] \in Busy /\ last' = last
  BY <1>1 DEF Publish, Register, Working, Finish, Busy, Body
<1>3. j = last /\ j <= last
  BY <1>1, <1>2, BusyRow DEF Base, RowsInOrder
<1>4. job'[j].operation = op[w]
  BY <1>1, <1>2, <1>3, OldSubject DEF Evidence, Works, Busy
<1>5. CASE Publish(w) /\ job'[j].result = seen[w]
  <2>1. op[w] = "ANALYZE"
    BY <1>5 DEF Publish
  <2> QED
    BY <1>1, <1>2, <1>3, <1>4, <1>5, <2>1
<1>6. CASE Register(w)
  <2>1. op[w] = "CONVERT"
    BY <1>6 DEF Register, Working
  <2> QED
    BY <1>1, <1>2, <1>3, <1>4, <2>1
<1>7. CASE /\ Finish(w) /\ ending[w] = "COMPLETED"
           /\ op[w] = "FRESHNESS" /\ verdict[w] # "NONE" =>
                job'[j].result = seen[w] /\ job'[j].verdict = verdict[w]
  <2>1. pc[w] = "ending" /\ (op[w] = "DISCOVER" \/ (op[w] = "FRESHNESS" /\ verdict[w] # "NONE"))
    BY <1>7 DEF Evidence, Works, Finish
  <2>2. UNCHANGED <<root, derived, configuration, disk, edited>>
    BY <1>7 DEF Finish, history, environment
  <2>3. verdict[w] = "CURRENT" /\ mine[w] \notin edited => seen[w] = Fingerprint(root)
    BY <2>1 DEF Evidence, Works
  <2> QED
    BY <1>1, <1>2, <1>3, <1>4, <1>7, <2>1, <2>2, <2>3
<1> QED
  BY <1>1, <1>5, <1>6, <1>7

\* What recorded checks say stays true, or stops being said of this configuration.
LEMMA ChecksKept ==
  ASSUME Base, Evidence, Next, Base'
  PROVE  ChecksAreTrue'
<1> SUFFICES ASSUME NEW j \in CompletedChecks',
                    job'[j].verdict = "CURRENT", j \notin edited', job'[j].configuration = configuration'
             PROVE  job'[j].result = Fingerprint(root)'
  BY DEF ChecksAreTrue
<1>0. j \in JobId /\ job'[j].status = "COMPLETED" /\ job'[j].operation = "FRESHNESS"
  BY DEF CompletedChecks
<1>1. CASE job[j].status # "COMPLETED"
  BY <1>0, <1>1, NewCompletion DEF Fingerprint
<1>2. CASE job[j].status = "COMPLETED"
  <2>0. /\ configuration \in 0..MaxConfiguration /\ job[j].configuration \in 0..MaxConfiguration
        /\ MaxConfiguration \in Nat /\ last \in 0..MaxJobs
    BY <1>0 DEF Base, Typed, TypeOK, Row
  <2>1. job'[j] = job[j]
    BY <1>0, <1>2, TerminalStays DEF Base, Terminal
  <2>2. j \in CompletedChecks /\ job[j].configuration <= configuration
    BY <1>0, <1>2, <2>1 DEF CompletedChecks, Evidence, Books
  <2>3. UNCHANGED <<root, derived, configuration>>
    BY <2>0, <2>1, <2>2, ConfigurationGrows DEF ConfigurationStays
  <2>4. j \notin edited /\ UNCHANGED disk
    <3>1. ASSUME NEW w \in Worker, CheckFreshness(w) \/ Recheck(w) PROVE j # mine[w]
      <4>1. pc[w] \in Body
        BY <3>1 DEF CheckFreshness, Recheck, Working, Body
      <4> QED
        BY <1>2, <4>1 DEF Base, OwnsItsJob, Unfinished, Active
    <3>2. ASSUME NEW r \in Root, NEW c \in Content \cup {NoContent}, Edit(r, c) PROVE FALSE
      <4>1. edited' = 1..last
        BY <3>2 DEF Edit
      <4>2. j <= last
        BY <1>0, <1>2 DEF Base, RowsInOrder
      <4> QED
        BY <1>0, <2>0, <4>1, <4>2
    <3> QED
      BY <3>1, <3>2, EditWriters
  <2> QED
    BY <2>1, <2>2, <2>3, <2>4 DEF Evidence, ChecksAreTrue, Fingerprint
<1> QED
  BY <1>1, <1>2

\* The newest of a set of rows is one row.
LEMMA Newest ==
  ASSUME NEW S \in SUBSET JobId, NEW m \in S, \A k \in S : k <= m
  PROVE  (CHOOSE j \in S : \A k \in S : k <= j) = m
<1> DEFINE newest == CHOOSE j \in S : \A k \in S : k <= j
<1>1. \E j \in S : \A k \in S : k <= j
  OBVIOUS
<1>2. newest \in S /\ \A k \in S : k <= newest
  BY <1>1, Zenon
<1> HIDE DEF newest
<1>3. newest <= m /\ m <= newest /\ newest \in Nat /\ m \in Nat
  BY <1>2
<1>4. newest = m
  BY <1>3
<1> QED
  BY <1>4 DEF newest

\* The newest completed job of a kind is the one just completed, or the same as before.
LEMMA NewestKept ==
  ASSUME Base, Evidence, Next, Base', NEW o,
         HasNewest({j \in JobId : job[j].operation = o /\ job[j].status = "COMPLETED"})
  PROVE  /\ HasNewest({j \in JobId : job'[j].operation = o /\ job'[j].status = "COMPLETED"})
         /\ {j \in JobId : job[j].operation = o /\ job[j].status = "COMPLETED"} \subseteq
            {j \in JobId : job'[j].operation = o /\ job'[j].status = "COMPLETED"}
<1> DEFINE S == {j \in JobId : job[j].operation = o /\ job[j].status = "COMPLETED"}
           T == {j \in JobId : job'[j].operation = o /\ job'[j].status = "COMPLETED"}
<1>1. ASSUME NEW j \in S PROVE job'[j] = job[j] /\ j \in T
  BY TerminalStays DEF Base, Terminal
<1>2. ASSUME NEW j \in T, j \notin S PROVE j = last' /\ \A k \in T : k <= j
  <2>1. job[j].status # "COMPLETED"
    <3>1. job[j].status = "COMPLETED" => job'[j] = job[j]
      BY TerminalStays DEF Base, Terminal
    <3> QED
      BY <1>2, <3>1
  <2>2. j = last'
    BY <1>2, <2>1, NewCompletion
  <2>3. \A k \in T : k <= last'
    BY DEF Base, RowsInOrder
  <2> QED
    BY <2>2, <2>3
<1>3. CASE T \subseteq S
  <2>1. T = S
    BY <1>1, <1>3
  <2> QED
    BY <2>1
<1>4. CASE ~(T \subseteq S)
  <2>1. PICK j \in T : j \notin S
    BY <1>4
  <2> QED
    BY <1>1, <1>2, <2>1 DEF HasNewest
<1> QED
  BY <1>3, <1>4
\* What save_assessment leaves in the row.
LEMMA CompletedRow ==
  ASSUME NEW row \in Row, NEW rev
  PROVE  /\ Completed(row, rev).status = "COMPLETED" /\ Completed(row, rev).result = rev
         /\ Completed(row, rev).operation = row.operation
  BY DEF Completed, Row

\* The pointer is the result of the newest completed analysis (save_assessment).
LEMMA PointerKept ==
  ASSUME Base, Evidence, Next, Base'
  PROVE  PointerMatchesJobs' /\ HasNewest(CompletedAnalyses)'
<1>0. last \in 0..MaxJobs /\ job \in [JobId -> Row]
  BY DEF Base, Typed, TypeOK
<1>1. HasNewest(CompletedAnalyses)' /\ CompletedAnalyses \subseteq CompletedAnalyses'
  BY NewestKept DEF Evidence, CompletedAnalyses
<1>2. ASSUME NEW j \in CompletedAnalyses PROVE job'[j] = job[j]
  BY TerminalStays DEF Base, Terminal, CompletedAnalyses
<1>3. CASE \E w \in Worker : Publish(w)
  <2>1. PICK w \in Worker : Publish(w)
    BY <1>3
  <2>2. /\ analysis' = seen[w] /\ assessments' = assessments \cup {seen[w]}
        /\ job' = [job EXCEPT ![mine[w]] = Completed(job[mine[w]], seen[w])] /\ last' = last
        /\ job[mine[w]].status = "RUNNING" /\ job[mine[w]].operation = "ANALYZE"
    BY <2>1 DEF Publish, Fence
  <2>3. mine[w] \in JobId /\ mine[w] = last
    BY <2>1, BusyRow DEF Publish, Busy, Body
  <2>4. job'[mine[w]] = Completed(job[mine[w]], seen[w]) /\ job[mine[w]] \in Row
    BY <1>0, <2>2, <2>3
  <2>5. /\ job'[mine[w]].status = "COMPLETED" /\ job'[mine[w]].operation = "ANALYZE"
        /\ job'[mine[w]].result = seen[w]
    BY <2>2, <2>4, CompletedRow
  <2>6. mine[w] \in CompletedAnalyses'
    BY <2>3, <2>5 DEF CompletedAnalyses
  <2>7. ASSUME NEW k \in CompletedAnalyses' PROVE k <= mine[w]
    BY <2>2, <2>3 DEF CompletedAnalyses, Base, RowsInOrder
  <2>8. (CHOOSE j \in CompletedAnalyses' : \A k \in CompletedAnalyses' : k <= j) = mine[w]
    <3>1. CompletedAnalyses' \in SUBSET JobId
      BY DEF CompletedAnalyses
    <3> QED
      BY <2>6, <2>7, <3>1, Newest
  <2>9. ASSUME NEW j \in CompletedAnalyses' PROVE job'[j].result \in assessments'
    <3>1. CASE j = mine[w]
      BY <2>2, <2>5, <3>1
    <3>2. CASE j # mine[w]
      <4>1. job'[j] = job[j]
        BY <1>0, <2>2, <3>2 DEF CompletedAnalyses
      <4>2. j \in CompletedAnalyses
        BY <4>1 DEF CompletedAnalyses
      <4>3. job[j].result \in assessments
        BY <4>2 DEF Evidence, PointerMatchesJobs, CompletedAnalyses
      <4> QED
        BY <2>2, <4>1, <4>3
    <3> QED
      BY <3>1, <3>2
  <2>10. PointerMatchesJobs'
    BY <2>2, <2>5, <2>6, <2>8, <2>9 DEF PointerMatchesJobs, CompletedAnalyses
  <2> QED
    BY <1>1, <2>10
<1>4. CASE ~\E w \in Worker : Publish(w)
  <2>1. UNCHANGED <<analysis, assessments>>
    BY <1>4, PointerWriters
  <2>2. CompletedAnalyses' = CompletedAnalyses
    <3>1. ASSUME NEW j \in CompletedAnalyses' PROVE j \in CompletedAnalyses
      <4>1. j \in JobId /\ job'[j].status = "COMPLETED" /\ job'[j].operation = "ANALYZE"
        BY DEF CompletedAnalyses
      <4>2. job[j].status = "COMPLETED"
        BY <1>4, <4>1, NewCompletion
      <4>3. job'[j] = job[j]
        BY <4>1, <4>2, TerminalStays DEF Base, Terminal
      <4> QED
        BY <4>1, <4>3 DEF CompletedAnalyses
    <3> QED
      BY <1>1, <3>1
  <2>3. /\ \A j \in CompletedAnalyses : job[j].result \in assessments
        /\ analysis = IF CompletedAnalyses = {} THEN NoRevision
                      ELSE job[CHOOSE j \in CompletedAnalyses : \A k \in CompletedAnalyses : k <= j].result
    BY DEF Evidence, PointerMatchesJobs, CompletedAnalyses
  <2> DEFINE newest == NewestOf(CompletedAnalyses)
  <2>4. CompletedAnalyses # {} => newest \in CompletedAnalyses
    BY Zenon DEF Evidence, HasNewest, NewestOf
  <2>5. CompletedAnalyses # {} => job'[newest] = job[newest]
    BY <1>2, <2>4
  <2>6. /\ \A j \in CompletedAnalyses' : job'[j].result \in assessments'
        /\ analysis' = IF CompletedAnalyses' = {} THEN NoRevision ELSE job'[newest].result
    <3>1. analysis = IF CompletedAnalyses = {} THEN NoRevision ELSE job[newest].result
      BY <2>3, Zenon DEF NewestOf
    <3> HIDE DEF newest
    <3> QED
      BY <1>2, <2>1, <2>2, <2>3, <2>5, <3>1
  <2>7. PointerMatchesJobs'
    <3>1. analysis' = IF CompletedAnalyses' = {} THEN NoRevision ELSE job'[NewestOf(CompletedAnalyses')].result
      BY <2>2, <2>6
    <3> QED
      BY <2>6, <3>1, Zenon DEF PointerMatchesJobs, CompletedAnalyses, NewestOf
  <2> QED
    BY <1>1, <2>7
<1> QED
  BY <1>3, <1>4

\* Evidence is inductive, on top of types, exclusion, ownership and numbering.
LEMMA EvidenceAlways == Spec => []Evidence
<1>1. Init => Evidence
  <2> SUFFICES ASSUME Init PROVE Evidence
    OBVIOUS
  <2>1. \A j \in JobId : job[j] = NoRow /\ basis[j] = NoInputs
    BY DEF Init
  <2>2. inputs[configuration] = Current /\ configuration = 0
    BY DEF Init, Current
  <2>3. Books
    BY <2>1, <2>2 DEF Books, NoRow
  <2>4. CompletedAnalyses = {} /\ CompletedChecks = {}
    BY <2>1 DEF CompletedAnalyses, CompletedChecks, NoRow
  <2>5. ASSUME NEW w \in Worker PROVE Waits(w) /\ Works(w)
    BY DEF Init, Waits, Works, Body
  <2>6. ChecksAreTrue /\ HasNewest(CompletedChecks) /\ HasNewest(CompletedAnalyses)
    BY <2>4 DEF ChecksAreTrue, HasNewest
  <2>7. PointerMatchesJobs
    BY <2>4 DEF PointerMatchesJobs, CompletedAnalyses, Init
  <2> QED
    BY <2>3, <2>5, <2>6, <2>7 DEF Evidence
<1>2. Base /\ Base' /\ Evidence /\ [Next]_vars => Evidence'
  <2> SUFFICES ASSUME Base, Base', Evidence, [Next]_vars PROVE Evidence'
    OBVIOUS
  <2>1. CASE Next
    <3>1. HasNewest(CompletedChecks)'
      BY <2>1, NewestKept DEF Evidence, CompletedChecks
    <3> QED
      BY <2>1, <3>1, BooksKept, WorkersKept, ChecksKept, PointerKept DEF Evidence, Base
  <2>2. CASE UNCHANGED vars
    BY <2>2 DEF vars, store, local, history, environment, Evidence, Books, Current, Waits, Works, Discovers,
                ChecksAreTrue, CompletedChecks, CompletedAnalyses, HasNewest, Fingerprint, PointerMatchesJobs
  <2> QED
    BY <2>1, <2>2
<1> QED
  BY <1>1, <1>2, TypedAlways, GuardedAlways, OwnershipAlways, RowsAlwaysInOrder, PTL DEF Spec, Base

\* The assessment pointer and the job table tell one story (save_assessment).
THEOREM PointerAndJobsAgree == Spec => []PointerMatchesJobs
<1>1. Evidence => PointerMatchesJobs
  BY DEF Evidence
<1> QED
  BY <1>1, EvidenceAlways, PTL

\* A project shown CURRENT is current, unless a source was edited since
\* (project_http._freshness, check_freshness, JobLease.finish).
THEOREM TheBadgeIsTrue == Spec => []CurrentBadgeIsTrue
<1>1. Evidence => CurrentBadgeIsTrue
  <2> SUFFICES ASSUME Evidence, Badge.status = "CURRENT", Badge.job \notin edited
               PROVE  Fingerprint(root) = analysis
    BY DEF CurrentBadgeIsTrue
  <2>1. /\ NewestCheck # 0 /\ job[NewestCheck].configuration = configuration
        /\ job[NewestCheck].result = analysis /\ job[NewestCheck].verdict = "CURRENT"
        /\ NewestCheck \notin edited
    <3>1. CASE NewestCheck # 0 /\ job[NewestCheck].configuration = configuration
                               /\ job[NewestCheck].result = analysis
      <4>1. Badge = [job |-> NewestCheck, status |-> job[NewestCheck].verdict]
        BY <3>1 DEF Badge
      <4> QED
        BY <3>1, <4>1
    <3>2. CASE ~(NewestCheck # 0 /\ job[NewestCheck].configuration = configuration
                                 /\ job[NewestCheck].result = analysis)
      <4>1. Badge = [job |-> 0, status |-> "UNVERIFIED"]
        BY <3>2 DEF Badge
      <4> QED
        BY <4>1
    <3> QED
      BY <3>1, <3>2
  <2>2. NewestCheck = IF CompletedChecks = {} THEN 0
                      ELSE CHOOSE j \in CompletedChecks : \A k \in CompletedChecks : k <= j
    BY Zenon DEF NewestCheck, CompletedChecks
  <2>3. CompletedChecks # {} /\ HasNewest(CompletedChecks)
    BY <2>1, <2>2 DEF Evidence
  <2>4. (CHOOSE j \in CompletedChecks : \A k \in CompletedChecks : k <= j) \in CompletedChecks
    BY <2>3, Zenon DEF HasNewest
  <2>5. NewestCheck \in CompletedChecks
    BY <2>2, <2>3, <2>4
  <2> QED
    BY <2>1, <2>5 DEF Evidence, ChecksAreTrue
<1> QED
  BY <1>1, EvidenceAlways, PTL

\* What is about to be published is what the sources hold, for any clients.
THEOREM PublicationsAreTheSources == Spec => []PublishedIsTheSources
<1>1. Evidence => PublishedIsTheSources
  BY DEF Evidence, Works, PublishedIsTheSources
<1> QED
  BY <1>1, EvidenceAlways, PTL

\* A job explores the inputs of its configuration and publishes what it hashed,
\* where a discovery names the configuration its client has seen before the
\* descriptor is read, as the HTTP interface and the command line do.
THEOREM EvidenceHolds ==
  ASSUME "DISCOVER" \notin DescriptorFirst
  PROVE  Spec => []EvidenceIsTrue
<1>1. Evidence => EvidenceIsTrue
  <2>1. Evidence => PublishedIsTheSources
    BY DEF Evidence, Works, PublishedIsTheSources
  <2>2. Evidence => JobReadsItsConfiguration
    BY DEF Evidence, Books, JobReadsItsConfiguration
  <2> QED
    BY <2>1, <2>2 DEF EvidenceIsTrue
<1> QED
  BY <1>1, EvidenceAlways, PTL
=============================================================================
