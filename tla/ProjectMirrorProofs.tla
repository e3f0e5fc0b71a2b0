------------------------- MODULE ProjectMirrorProofs -------------------------
(***************************************************************************)
(* The descriptor and its mirror, for any openers, publishers and values:  *)
(* types, the consistency of the two outside disturbances, what an open    *)
(* leaves behind, how publications compose, and that the store implements  *)
(* DescriptorPair.  The argument is the lock: an opener inside its         *)
(* comparison excludes a publication past its rename, and the connection   *)
(* that replaces the file is alone with the database until it ends.        *)
(***************************************************************************)
EXTENDS ProjectMirror, TLAPS

AtCommit(p) == pc[p] = "commit"
Window == \E p \in Publisher : AtCommit(p)

\* Who is where, and which lock that means.
Locks ==
  /\ \A o \in Opener : pc[o] \in OpenerAt /\ (o \in shared <=> pc[o] = "compare")
  /\ \A p \in Publisher : pc[p] \in PublisherAt
  /\ \A a \in Actor : writer = a <=> pc[a] \in {"sync", "publish", "commit"}
  /\ Window => shared = {}

\* A request is there while its call runs; one made over the present
\* configuration saw the present roots, and one at its commit was accepted.
Requests ==
  \A p \in Publisher :
    /\ pc[p] # "idle" => request[p] \in Request
    /\ (pc[p] # "idle" /\ request[p].kind = "relink") =>
         /\ request[p].configuration <= configuration
         /\ request[p].configuration = configuration =>
              request[p].base.roots = database.roots
    /\ AtCommit(p) => /\ Accepted(p)
                      /\ request[p].kind = "relink" => configuration < MaxConfiguration

\* Numbers only look back.
Counts ==
  /\ restored <= disturbances
  /\ shown.restored <= disturbances
  /\ \A o \in Opener : noted[o] <= disturbances

\* What openers see is the file, except inside a publication's window; and what
\* the window will show is the new descriptor, or a file already disturbed
\* after every opener was done with it.
Views ==
  /\ ~Window => shown.mirror = mirror /\ shown.restored = restored
  /\ disturbances = shown.restored => shown.mirror = database
  /\ \A p \in Publisher : AtCommit(p) =>
       \/ mirror = Updated(p) /\ restored = disturbances
       \/ /\ shown.mirror = mirror
          /\ restored < disturbances /\ shown.restored < disturbances
          /\ \A o \in Opener : noted[o] < disturbances

IInv == TypeOK /\ Locks /\ Requests /\ Counts /\ Views /\ OpenLeavesTheTruth

\* A request changes a descriptor in its own part only (replace_roots, save_assessment).
LEMMA Applied ==
  ASSUME NEW r \in Request, NEW d \in Descriptor
  PROVE  /\ Apply(r, d) \in Descriptor
         /\ r.kind = "relink" => Apply(r, d).revision = d.revision
         /\ r.kind # "relink" => Apply(r, d).roots = d.roots
<1>1. CASE r.kind = "relink"
  BY <1>1 DEF Request, Apply, Descriptor
<1>2. CASE r.kind # "relink"
  BY <1>2 DEF Request, Apply, Descriptor
<1> QED
  BY <1>1, <1>2

\* The initial state satisfies the invariant.
LEMMA Initially == Init => IInv
<1> SUFFICES ASSUME Init PROVE IInv
  OBVIOUS
<1> USE MirrorAssumption DEF Init, Actor
<1>1. TypeOK
  BY DEF TypeOK, Content, OpenerAt, PublisherAt
<1>2. Locks /\ Requests
  BY DEF Locks, Requests, AtCommit, Window, OpenerAt, PublisherAt
<1>3. Counts /\ Views /\ OpenLeavesTheTruth
  BY DEF Counts, Views, OpenLeavesTheTruth, AtCommit, Window
<1> QED
  BY <1>1, <1>2, <1>3 DEF IInv

\* Every step keeps every variable in its type.
LEMMA TypesKept == IInv /\ [Next]_vars => TypeOK'
<1> SUFFICES ASSUME IInv, [Next]_vars PROVE TypeOK'
  OBVIOUS
<1>1. TypeOK'
  <2> USE MirrorAssumption DEF IInv, TypeOK, Goto, Stage, Note, Show, storeVars, fileVars,
        OpenerAt, PublisherAt, Actor, Content
  <2>1. ASSUME NEW o \in Opener, BeginCheck(o) PROVE TypeOK'
    BY <2>1 DEF BeginCheck
  <2>2. ASSUME NEW o \in Opener, FindCurrent(o) PROVE TypeOK'
    BY <2>2 DEF FindCurrent
  <2>3. ASSUME NEW o \in Opener, FindStale(o) PROVE TypeOK'
    BY <2>3 DEF FindStale
  <2>4. ASSUME NEW o \in Opener, Reject(o) PROVE TypeOK'
    BY <2>4 DEF Reject
  <2>5. ASSUME NEW o \in Opener, StageRepair(o) PROVE TypeOK'
    BY <2>5 DEF StageRepair
  <2>6. ASSUME NEW o \in Opener, TakeLock(o, "sync") PROVE TypeOK'
    BY <2>6 DEF TakeLock
  <2>7. ASSUME NEW o \in Opener, Sync(o) PROVE TypeOK'
    BY <2>7 DEF Sync
  <2>8. ASSUME NEW o \in Opener, Close(o) PROVE TypeOK'
    BY <2>8 DEF Close
  <2>9. ASSUME NEW o \in Opener, GiveUpOpen(o) PROVE TypeOK'
    BY <2>9 DEF GiveUpOpen
  <2>10. ASSUME NEW p \in Publisher, Ask(p) PROVE TypeOK'
    <3>1. ASSUME NEW r \in Roots
          PROVE  [kind |-> "relink", roots |-> r, base |-> database,
                  configuration |-> configuration] \in Request
      BY DEF Request
    <3>2. ASSUME NEW v \in Revision
          PROVE  [kind |-> "save", revision |-> v, base |-> database] \in Request
      BY DEF Request
    <3> QED
      BY <2>10, <3>1, <3>2 DEF Ask
  <2>11. ASSUME NEW p \in Publisher, StageCopy(p) PROVE TypeOK'
    <3>1. Apply(request[p], database) \in Descriptor
      BY <2>11, Applied DEF StageCopy, Requests
    <3> QED
      BY <2>11, <3>1 DEF StageCopy
  <2>12. ASSUME NEW p \in Publisher, TakeLock(p, "publish") PROVE TypeOK'
    BY <2>12 DEF TakeLock
  <2>13. ASSUME NEW p \in Publisher, Refuse(p) PROVE TypeOK'
    BY <2>13 DEF Refuse
  <2>14. ASSUME NEW p \in Publisher, Publish(p) PROVE TypeOK'
    <3>1. Updated(p) \in Descriptor
      BY <2>14, Applied DEF Publish, Requests, Updated
    <3> QED
      BY <2>14, <3>1 DEF Publish
  <2>15. ASSUME NEW p \in Publisher, PublishFails(p) PROVE TypeOK'
    BY <2>15 DEF PublishFails
  <2>16. ASSUME NEW p \in Publisher, Commit(p) PROVE TypeOK'
    <3>1. Updated(p) \in Descriptor
      BY <2>16, Applied DEF Commit, Requests, Updated
    <3>2. request[p].kind = "relink" => configuration < MaxConfiguration
      BY <2>16 DEF Commit, Requests, AtCommit
    <3> QED
      BY <2>16, <3>1, <3>2 DEF Commit
  <2>17. ASSUME NEW p \in Publisher, LoseCommit(p) PROVE TypeOK'
    BY <2>17 DEF LoseCommit
  <2>18. ASSUME NEW p \in Publisher, GiveUpPublication(p) PROVE TypeOK'
    BY <2>18 DEF GiveUpPublication
  <2>19. ASSUME NEW content \in Content, Tamper(content) PROVE TypeOK'
    BY <2>19 DEF Tamper
  <2>20. CASE UNCHANGED vars
    BY <2>20 DEF vars, storeVars, fileVars
  <2> QED
    BY <2>1, <2>2, <2>3, <2>4, <2>5, <2>6, <2>7, <2>8, <2>9, <2>10, <2>11, <2>12, <2>13, <2>14, <2>15, <2>16, <2>17, <2>18, <2>19, <2>20
       DEF Next, OpenStep, PublishStep
<1> QED
  BY <1>1

\* The locks and the places of the calls stay in step.
LEMMA LocksKept == IInv /\ [Next]_vars => Locks'
<1> SUFFICES ASSUME IInv, [Next]_vars PROVE Locks'
  OBVIOUS
<1>1. Locks'
  <2> USE MirrorAssumption DEF IInv, TypeOK, Locks, Window, AtCommit, Goto, storeVars, fileVars,
        OpenerAt, PublisherAt, Actor
  <2>1. ASSUME NEW o \in Opener, BeginCheck(o) PROVE Locks'
    BY <2>1 DEF BeginCheck
  <2>2. ASSUME NEW o \in Opener, FindCurrent(o) PROVE Locks'
    BY <2>2 DEF FindCurrent
  <2>3. ASSUME NEW o \in Opener, FindStale(o) PROVE Locks'
    BY <2>3 DEF FindStale
  <2>4. ASSUME NEW o \in Opener, Reject(o) PROVE Locks'
    BY <2>4 DEF Reject
  <2>5. ASSUME NEW o \in Opener, StageRepair(o) PROVE Locks'
    BY <2>5 DEF StageRepair
  <2>6. ASSUME NEW o \in Opener, TakeLock(o, "sync") PROVE Locks'
    BY <2>6 DEF TakeLock
  <2>7. ASSUME NEW o \in Opener, Sync(o) PROVE Locks'
    BY <2>7 DEF Sync
  <2>8. ASSUME NEW o \in Opener, Close(o) PROVE Locks'
    BY <2>8 DEF Close
  <2>9. ASSUME NEW o \in Opener, GiveUpOpen(o) PROVE Locks'
    BY <2>9 DEF GiveUpOpen
  <2>10. ASSUME NEW p \in Publisher, Ask(p) PROVE Locks'
    BY <2>10 DEF Ask
  <2>11. ASSUME NEW p \in Publisher, StageCopy(p) PROVE Locks'
    BY <2>11 DEF StageCopy
  <2>12. ASSUME NEW p \in Publisher, TakeLock(p, "publish") PROVE Locks'
    BY <2>12 DEF TakeLock
  <2>13. ASSUME NEW p \in Publisher, Refuse(p) PROVE Locks'
    BY <2>13 DEF Refuse
  <2>14. ASSUME NEW p \in Publisher, Publish(p) PROVE Locks'
    BY <2>14 DEF Publish
  <2>15. ASSUME NEW p \in Publisher, PublishFails(p) PROVE Locks'
    BY <2>15 DEF PublishFails
  <2>16. ASSUME NEW p \in Publisher, Commit(p) PROVE Locks'
    BY <2>16 DEF Commit
  <2>17. ASSUME NEW p \in Publisher, LoseCommit(p) PROVE Locks'
    BY <2>17 DEF LoseCommit
  <2>18. ASSUME NEW p \in Publisher, GiveUpPublication(p) PROVE Locks'
    BY <2>18 DEF GiveUpPublication
  <2>19. ASSUME NEW content \in Content, Tamper(content) PROVE Locks'
    BY <2>19 DEF Tamper
  <2>20. CASE UNCHANGED vars
    BY <2>20 DEF vars, storeVars, fileVars
  <2> QED
    BY <2>1, <2>2, <2>3, <2>4, <2>5, <2>6, <2>7, <2>8, <2>9, <2>10, <2>11, <2>12, <2>13, <2>14, <2>15, <2>16, <2>17, <2>18, <2>19, <2>20
       DEF Next, OpenStep, PublishStep
<1> QED
  BY <1>1

\* Requests stay what they were until their call ends, and a commit over the roots
\* a request saw is the only one that leaves its configuration number.
LEMMA RequestsKept == IInv /\ [Next]_vars => Requests'
<1> SUFFICES ASSUME IInv, [Next]_vars PROVE Requests'
  OBVIOUS
<1>1. Requests'
  <2> USE MirrorAssumption DEF IInv, TypeOK, Goto, storeVars, fileVars, Actor, AtCommit, Requests, Accepted
  <2>1. ASSUME NEW o \in Opener, BeginCheck(o) PROVE Requests'
    BY <2>1 DEF BeginCheck
  <2>2. ASSUME NEW o \in Opener, FindCurrent(o) PROVE Requests'
    BY <2>2 DEF FindCurrent
  <2>3. ASSUME NEW o \in Opener, FindStale(o) PROVE Requests'
    BY <2>3 DEF FindStale
  <2>4. ASSUME NEW o \in Opener, Reject(o) PROVE Requests'
    BY <2>4 DEF Reject
  <2>5. ASSUME NEW o \in Opener, StageRepair(o) PROVE Requests'
    BY <2>5 DEF StageRepair
  <2>6. ASSUME NEW o \in Opener, TakeLock(o, "sync") PROVE Requests'
    BY <2>6 DEF TakeLock
  <2>7. ASSUME NEW o \in Opener, Sync(o) PROVE Requests'
    BY <2>7 DEF Sync
  <2>8. ASSUME NEW o \in Opener, Close(o) PROVE Requests'
    BY <2>8 DEF Close
  <2>9. ASSUME NEW o \in Opener, GiveUpOpen(o) PROVE Requests'
    BY <2>9 DEF GiveUpOpen
  <2>10. ASSUME NEW p \in Publisher, Ask(p) PROVE Requests'
    <3>1. \A q \in Publisher \ {p} : pc'[q] = pc[q] /\ request'[q] = request[q]
      BY <2>10 DEF Ask
    <3>2. request'[p] \in Request
      <4>1. ASSUME NEW r \in Roots
            PROVE  [kind |-> "relink", roots |-> r, base |-> database,
                    configuration |-> configuration] \in Request
        BY DEF Request
      <4>2. ASSUME NEW v \in Revision
            PROVE  [kind |-> "save", revision |-> v, base |-> database] \in Request
        BY DEF Request
      <4> QED
        BY <2>10, <4>1, <4>2 DEF Ask
    <3>3. /\ pc'[p] = "stage"
          /\ request'[p].kind = "relink" =>
               request'[p].configuration = configuration /\ request'[p].base = database
      BY <2>10 DEF Ask
    <3>4. database' = database /\ configuration' = configuration
      BY <2>10 DEF Ask
    <3> QED
      BY <3>1, <3>2, <3>3, <3>4
  <2>11. ASSUME NEW p \in Publisher, StageCopy(p) PROVE Requests'
    BY <2>11 DEF StageCopy
  <2>12. ASSUME NEW p \in Publisher, TakeLock(p, "publish") PROVE Requests'
    BY <2>12 DEF TakeLock
  <2>13. ASSUME NEW p \in Publisher, Refuse(p) PROVE Requests'
    BY <2>13 DEF Refuse
  <2>14. ASSUME NEW p \in Publisher, Publish(p) PROVE Requests'
    BY <2>14 DEF Publish
  <2>15. ASSUME NEW p \in Publisher, PublishFails(p) PROVE Requests'
    BY <2>15 DEF PublishFails
  <2>16. ASSUME NEW p \in Publisher, Commit(p) PROVE Requests'
    <3>1. /\ Updated(p) \in Descriptor
          /\ request[p].kind # "relink" => Updated(p).roots = database.roots
      BY <2>16, Applied DEF Commit, Updated
    <3>2. \A q \in Publisher \ {p} : pc[q] # "commit"
      BY <2>16 DEF Commit, Locks
    <3>3. \A q \in Publisher : pc'[q] # "idle" => q # p /\ pc'[q] = pc[q] /\ request'[q] = request[q]
      BY <2>16 DEF Commit
    <3>4. ASSUME NEW q \in Publisher, pc'[q] # "idle", request[q].kind = "relink"
          PROVE  request[q].configuration \in Nat /\ request[q].configuration <= configuration
      BY <3>4, <3>3 DEF Request
    <3>5. CASE request[p].kind = "relink"
      BY <2>16, <3>1, <3>2, <3>3, <3>4, <3>5 DEF Commit
    <3>6. CASE request[p].kind # "relink"
      <4>1. database'.roots = database.roots /\ configuration' = configuration
        BY <2>16, <3>1, <3>6 DEF Commit
      <4> QED
        BY <4>1, <3>2, <3>3
    <3> QED
      BY <3>5, <3>6
  <2>17. ASSUME NEW p \in Publisher, LoseCommit(p) PROVE Requests'
    BY <2>17 DEF LoseCommit
  <2>18. ASSUME NEW p \in Publisher, GiveUpPublication(p) PROVE Requests'
    BY <2>18 DEF GiveUpPublication
  <2>19. ASSUME NEW content \in Content, Tamper(content) PROVE Requests'
    BY <2>19 DEF Tamper
  <2>20. CASE UNCHANGED vars
    BY <2>20 DEF vars, storeVars, fileVars
  <2> QED
    BY <2>1, <2>2, <2>3, <2>4, <2>5, <2>6, <2>7, <2>8, <2>9, <2>10, <2>11, <2>12, <2>13, <2>14, <2>15, <2>16, <2>17, <2>18, <2>19, <2>20
       DEF Next, OpenStep, PublishStep
<1> QED
  BY <1>1

\* The numbers openers and the window remember never run ahead.
LEMMA CountsKept == IInv /\ [Next]_vars => Counts'
<1> SUFFICES ASSUME IInv, [Next]_vars PROVE Counts'
  OBVIOUS
<1>1. Counts'
  <2> USE MirrorAssumption DEF IInv, TypeOK, Goto, storeVars, fileVars, Actor, AtCommit, Counts, Note, Show
  <2>1. ASSUME NEW o \in Opener, BeginCheck(o) PROVE Counts'
    BY <2>1 DEF BeginCheck
  <2>2. ASSUME NEW o \in Opener, FindCurrent(o) PROVE Counts'
    BY <2>2 DEF FindCurrent
  <2>3. ASSUME NEW o \in Opener, FindStale(o) PROVE Counts'
    BY <2>3 DEF FindStale
  <2>4. ASSUME NEW o \in Opener, Reject(o) PROVE Counts'
    BY <2>4 DEF Reject
  <2>5. ASSUME NEW o \in Opener, StageRepair(o) PROVE Counts'
    BY <2>5 DEF StageRepair
  <2>6. ASSUME NEW o \in Opener, TakeLock(o, "sync") PROVE Counts'
    BY <2>6 DEF TakeLock
  <2>7. ASSUME NEW o \in Opener, Sync(o) PROVE Counts'
    BY <2>7 DEF Sync
  <2>8. ASSUME NEW o \in Opener, Close(o) PROVE Counts'
    BY <2>8 DEF Close
  <2>9. ASSUME NEW o \in Opener, GiveUpOpen(o) PROVE Counts'
    BY <2>9 DEF GiveUpOpen
  <2>10. ASSUME NEW p \in Publisher, Ask(p) PROVE Counts'
    BY <2>10 DEF Ask
  <2>11. ASSUME NEW p \in Publisher, StageCopy(p) PROVE Counts'
    BY <2>11 DEF StageCopy
  <2>12. ASSUME NEW p \in Publisher, TakeLock(p, "publish") PROVE Counts'
    BY <2>12 DEF TakeLock
  <2>13. ASSUME NEW p \in Publisher, Refuse(p) PROVE Counts'
    BY <2>13 DEF Refuse
  <2>14. ASSUME NEW p \in Publisher, Publish(p) PROVE Counts'
    BY <2>14 DEF Publish
  <2>15. ASSUME NEW p \in Publisher, PublishFails(p) PROVE Counts'
    BY <2>15 DEF PublishFails
  <2>16. ASSUME NEW p \in Publisher, Commit(p) PROVE Counts'
    BY <2>16 DEF Commit
  <2>17. ASSUME NEW p \in Publisher, LoseCommit(p) PROVE Counts'
    BY <2>17 DEF LoseCommit
  <2>18. ASSUME NEW p \in Publisher, GiveUpPublication(p) PROVE Counts'
    BY <2>18 DEF GiveUpPublication
  <2>19. ASSUME NEW content \in Content, Tamper(content) PROVE Counts'
    BY <2>19 DEF Tamper
  <2>20. CASE UNCHANGED vars
    BY <2>20 DEF vars, storeVars, fileVars
  <2> QED
    BY <2>1, <2>2, <2>3, <2>4, <2>5, <2>6, <2>7, <2>8, <2>9, <2>10, <2>11, <2>12, <2>13, <2>14, <2>15, <2>16, <2>17, <2>18, <2>19, <2>20
       DEF Next, OpenStep, PublishStep
<1> QED
  BY <1>1

\* What openers see changes with the file, or with the commit that explains it.
LEMMA ViewsKept == IInv /\ [Next]_vars => Views'
<1> SUFFICES ASSUME IInv, [Next]_vars PROVE Views'
  OBVIOUS
<1>1. Views'
  <2> USE MirrorAssumption DEF IInv, TypeOK, Goto, storeVars, fileVars, Actor, AtCommit, Views, Window, Locks, Counts, Note, Show, Updated
  <2>1. ASSUME NEW o \in Opener, BeginCheck(o) PROVE Views'
    BY <2>1 DEF BeginCheck
  <2>2. ASSUME NEW o \in Opener, FindCurrent(o) PROVE Views'
    <3>1. ~Window
      BY <2>2 DEF FindCurrent
    <3>2. shown.mirror = database /\ mirror = database
      BY <2>2, <3>1 DEF FindCurrent, IsCurrent
    <3>3. /\ shown'.mirror = database /\ shown'.restored = disturbances
          /\ restored' = disturbances
          /\ mirror' = mirror /\ database' = database /\ disturbances' = disturbances
          /\ ~Window'
      BY <2>2, <3>1, <3>2 DEF FindCurrent
    <3> QED
      BY <2>2, <3>1, <3>2, <3>3
  <2>3. ASSUME NEW o \in Opener, FindStale(o) PROVE Views'
    BY <2>3 DEF FindStale
  <2>4. ASSUME NEW o \in Opener, Reject(o) PROVE Views'
    BY <2>4 DEF Reject
  <2>5. ASSUME NEW o \in Opener, StageRepair(o) PROVE Views'
    BY <2>5 DEF StageRepair
  <2>6. ASSUME NEW o \in Opener, TakeLock(o, "sync") PROVE Views'
    BY <2>6 DEF TakeLock
  <2>7. ASSUME NEW o \in Opener, Sync(o) PROVE Views'
    BY <2>7 DEF Sync
  <2>8. ASSUME NEW o \in Opener, Close(o) PROVE Views'
    BY <2>8 DEF Close
  <2>9. ASSUME NEW o \in Opener, GiveUpOpen(o) PROVE Views'
    BY <2>9 DEF GiveUpOpen
  <2>10. ASSUME NEW p \in Publisher, Ask(p) PROVE Views'
    BY <2>10 DEF Ask
  <2>11. ASSUME NEW p \in Publisher, StageCopy(p) PROVE Views'
    BY <2>11 DEF StageCopy
  <2>12. ASSUME NEW p \in Publisher, TakeLock(p, "publish") PROVE Views'
    BY <2>12 DEF TakeLock
  <2>13. ASSUME NEW p \in Publisher, Refuse(p) PROVE Views'
    BY <2>13 DEF Refuse
  <2>14. ASSUME NEW p \in Publisher, Publish(p) PROVE Views'
    BY <2>14 DEF Publish
  <2>15. ASSUME NEW p \in Publisher, PublishFails(p) PROVE Views'
    BY <2>15 DEF PublishFails
  <2>16. ASSUME NEW p \in Publisher, Commit(p) PROVE Views'
    BY <2>16 DEF Commit
  <2>17. ASSUME NEW p \in Publisher, LoseCommit(p) PROVE Views'
    BY <2>17 DEF LoseCommit
  <2>18. ASSUME NEW p \in Publisher, GiveUpPublication(p) PROVE Views'
    BY <2>18 DEF GiveUpPublication
  <2>19. ASSUME NEW content \in Content, Tamper(content) PROVE Views'
    BY <2>19 DEF Tamper
  <2>20. CASE UNCHANGED vars
    BY <2>20 DEF vars, storeVars, fileVars
  <2> QED
    BY <2>1, <2>2, <2>3, <2>4, <2>5, <2>6, <2>7, <2>8, <2>9, <2>10, <2>11, <2>12, <2>13, <2>14, <2>15, <2>16, <2>17, <2>18, <2>19, <2>20
       DEF Next, OpenStep, PublishStep
<1> QED
  BY <1>1

\* An open that returned stays true until the mirror is disturbed.
LEMMA TruthKept == IInv /\ [Next]_vars => OpenLeavesTheTruth'
<1> SUFFICES ASSUME IInv, [Next]_vars PROVE OpenLeavesTheTruth'
  OBVIOUS
<1>1. OpenLeavesTheTruth'
  <2> USE MirrorAssumption DEF IInv, TypeOK, Goto, storeVars, fileVars, Actor, AtCommit, OpenLeavesTheTruth, Views, Window, Locks, Counts, Note, Show
  <2>1. ASSUME NEW o \in Opener, BeginCheck(o) PROVE OpenLeavesTheTruth'
    BY <2>1 DEF BeginCheck
  <2>2. ASSUME NEW o \in Opener, FindCurrent(o) PROVE OpenLeavesTheTruth'
    <3>1. ~Window
      BY <2>2 DEF FindCurrent
    <3>2. shown.mirror = database /\ mirror = database
      BY <2>2, <3>1 DEF FindCurrent, IsCurrent
    <3>3. /\ shown'.mirror = database /\ shown'.restored = disturbances
          /\ restored' = disturbances
          /\ mirror' = mirror /\ database' = database /\ disturbances' = disturbances
          /\ ~Window'
      BY <2>2, <3>1, <3>2 DEF FindCurrent
    <3> QED
      BY <2>2, <3>1, <3>2, <3>3 DEF FindCurrent
  <2>3. ASSUME NEW o \in Opener, FindStale(o) PROVE OpenLeavesTheTruth'
    BY <2>3 DEF FindStale
  <2>4. ASSUME NEW o \in Opener, Reject(o) PROVE OpenLeavesTheTruth'
    BY <2>4 DEF Reject
  <2>5. ASSUME NEW o \in Opener, StageRepair(o) PROVE OpenLeavesTheTruth'
    BY <2>5 DEF StageRepair
  <2>6. ASSUME NEW o \in Opener, TakeLock(o, "sync") PROVE OpenLeavesTheTruth'
    BY <2>6 DEF TakeLock
  <2>7. ASSUME NEW o \in Opener, Sync(o) PROVE OpenLeavesTheTruth'
    BY <2>7 DEF Sync
  <2>8. ASSUME NEW o \in Opener, Close(o) PROVE OpenLeavesTheTruth'
    BY <2>8 DEF Close
  <2>9. ASSUME NEW o \in Opener, GiveUpOpen(o) PROVE OpenLeavesTheTruth'
    BY <2>9 DEF GiveUpOpen
  <2>10. ASSUME NEW p \in Publisher, Ask(p) PROVE OpenLeavesTheTruth'
    BY <2>10 DEF Ask
  <2>11. ASSUME NEW p \in Publisher, StageCopy(p) PROVE OpenLeavesTheTruth'
    BY <2>11 DEF StageCopy
  <2>12. ASSUME NEW p \in Publisher, TakeLock(p, "publish") PROVE OpenLeavesTheTruth'
    BY <2>12 DEF TakeLock
  <2>13. ASSUME NEW p \in Publisher, Refuse(p) PROVE OpenLeavesTheTruth'
    BY <2>13 DEF Refuse
  <2>14. ASSUME NEW p \in Publisher, Publish(p) PROVE OpenLeavesTheTruth'
    BY <2>14 DEF Publish
  <2>15. ASSUME NEW p \in Publisher, PublishFails(p) PROVE OpenLeavesTheTruth'
    BY <2>15 DEF PublishFails
  <2>16. ASSUME NEW p \in Publisher, Commit(p) PROVE OpenLeavesTheTruth'
    BY <2>16 DEF Commit
  <2>17. ASSUME NEW p \in Publisher, LoseCommit(p) PROVE OpenLeavesTheTruth'
    BY <2>17 DEF LoseCommit
  <2>18. ASSUME NEW p \in Publisher, GiveUpPublication(p) PROVE OpenLeavesTheTruth'
    BY <2>18 DEF GiveUpPublication
  <2>19. ASSUME NEW content \in Content, Tamper(content) PROVE OpenLeavesTheTruth'
    BY <2>19 DEF Tamper
  <2>20. CASE UNCHANGED vars
    BY <2>20 DEF vars, storeVars, fileVars
  <2> QED
    BY <2>1, <2>2, <2>3, <2>4, <2>5, <2>6, <2>7, <2>8, <2>9, <2>10, <2>11, <2>12, <2>13, <2>14, <2>15, <2>16, <2>17, <2>18, <2>19, <2>20
       DEF Next, OpenStep, PublishStep
<1> QED
  BY <1>1

\* The invariant holds in every reachable state.
LEMMA Always == Spec => []IInv
<1>1. IInv /\ [Next]_vars => IInv'
  BY TypesKept, LocksKept, RequestsKept, CountsKept, ViewsKept, TruthKept DEF IInv
<1> QED
  BY Initially, <1>1, PTL DEF Spec

\* Every variable keeps its type.
THEOREM MirrorTyping == Spec => []TypeOK
  BY Always, PTL DEF IInv

\* Outside disturbances and a publication's own window the mirror says what the
\* database says, for any number of openers and publishers
\* (_mirror_publication, sync_descriptor).
THEOREM MirrorFollows == Spec => []MirrorFollowsDatabase
<1>1. IInv => MirrorFollowsDatabase
  BY DEF IInv, Views, Counts, TypeOK, Window, AtCommit, MirrorFollowsDatabase, Disturbed
<1> QED
  BY <1>1, Always, PTL

\* An open that returned left a mirror that was right (ProjectStore.open).
THEOREM OpensLeaveTheTruth == Spec => []OpenLeavesTheTruth
  BY Always, PTL DEF IInv

\* No open repairs a mirror that a live publication only has not caught up with:
\* the comparison excludes the window, and outside it only a disturbance makes
\* the two differ (the check transaction of ProjectStore.open).
THEOREM RepairsAreNeeded == Spec => NoNeedlessRepair
<1>1. IInv /\ [Next]_vars =>
        [\A o \in Opener : (pc[o] = "compare" /\ pc'[o] = "stage") => Disturbed]_vars
  <2> SUFFICES ASSUME IInv, [Next]_vars,
                      NEW o \in Opener, pc[o] = "compare", pc'[o] = "stage"
               PROVE  Disturbed
    OBVIOUS
  <2>1. FindStale(o)
    <3> USE MirrorAssumption DEF IInv, TypeOK, Actor, Goto
    <3>1. ASSUME NEW q \in Opener, OpenStep(q) \/ GiveUpOpen(q) PROVE FindStale(o)
      BY <3>1 DEF OpenStep, BeginCheck, FindCurrent, FindStale, Reject, StageRepair,
         TakeLock, Sync, Close, GiveUpOpen
    <3>2. ASSUME NEW p \in Publisher, PublishStep(p) \/ Ask(p) \/ GiveUpPublication(p)
          PROVE  pc'[o] = pc[o]
      BY <3>2 DEF PublishStep, Ask, StageCopy, TakeLock, Refuse, Publish, PublishFails,
         Commit, LoseCommit, GiveUpPublication
    <3>3. ASSUME NEW content \in Content, Tamper(content) PROVE pc'[o] = pc[o]
      BY <3>3 DEF Tamper
    <3> QED
      BY <3>1, <3>2, <3>3 DEF Next, vars
  <2>2. ~Window
    BY <2>1 DEF FindStale, IInv, Locks
  <2> QED
    BY <2>1, <2>2 DEF FindStale, IsCurrent, IInv, Views, Counts, TypeOK, Disturbed
<1> QED
  BY <1>1, Always, PTL DEF Spec, NoNeedlessRepair

\* A commit changes its own part of the descriptor, over the value its caller
\* saw (replace_roots, save_assessment).
THEOREM PublicationsAreSerial == Spec => PublicationsCompose
<1>1. ASSUME IInv, [Next]_vars, NEW p \in Publisher,
             pc[p] = "commit", database' # database, pc'[p] = "idle"
      PROVE  IF request[p].kind = "relink"
             THEN /\ database'.revision = database.revision
                  /\ database.roots = request[p].base.roots
             ELSE /\ database'.roots = database.roots
                  /\ database.revision = request[p].base.revision
  <2>1. PICK q \in Publisher : Commit(q)
    BY <1>1 DEF Next, OpenStep, PublishStep, vars, storeVars,
       BeginCheck, FindCurrent, FindStale, Reject, StageRepair, TakeLock, Sync, Close,
       GiveUpOpen, Ask, StageCopy, Refuse, Publish, PublishFails, LoseCommit,
       GiveUpPublication, Tamper
  <2>2. q = p
    BY <1>1, <2>1 DEF Commit, IInv, Locks, Actor
  <2>3. /\ request[p] \in Request
        /\ Accepted(p)
        /\ database \in Descriptor
        /\ request[p].kind = "relink" /\ request[p].configuration = configuration =>
             request[p].base.roots = database.roots
    BY <1>1 DEF IInv, Requests, AtCommit, TypeOK
  <2>4. database' = Apply(request[p], database)
    BY <2>1, <2>2 DEF Commit, Updated
  <2> QED
    BY <2>3, <2>4, Applied DEF Accepted
<1>2. IInv /\ [Next]_vars =>
        [\A p \in Publisher : (pc[p] = "commit" /\ database' # database /\ pc'[p] = "idle") =>
           IF request[p].kind = "relink"
             THEN /\ database'.revision = database.revision
                  /\ database.roots = request[p].base.roots
             ELSE /\ database'.roots = database.roots
                  /\ database.revision = request[p].base.revision]_vars
  BY <1>1
<1> QED
  BY <1>2, Always, PTL DEF Spec, PublicationsCompose

\* The store as openers see it is DescriptorPair: a commit publishes both or,
\* where the copy was disturbed in its window, the row alone; a repair makes the
\* copy right; a lost commit or an edit is a disturbance; nothing else shows.
THEOREM MirrorImplementsPair == Spec => ImplementsDescriptorPair
<1> USE DEF Pair!Descriptor, Descriptor
<1>1. Init => Pair!Init
  BY DEF Init, Pair!Init
<1>2. IInv /\ [Next]_vars => [Pair!Next]_(Pair!vars)
  <2> SUFFICES ASSUME IInv, [Next]_vars
               PROVE  Pair!Next \/ UNCHANGED Pair!vars
    OBVIOUS
  <2> USE DEF Pair!vars, storeVars, fileVars
  <2>1. ASSUME NEW o \in Opener, FindCurrent(o) PROVE Pair!Next
    <3>1. ~Window
      BY <2>1 DEF FindCurrent, IInv, Locks
    <3>2. shown.mirror = database /\ shown \in [mirror : Content, restored : 0..MaxDisturbances]
      BY <2>1, <3>1 DEF FindCurrent, IsCurrent, IInv, Views, TypeOK
    <3>3. Pair!Repair
      BY <2>1, <3>2, MirrorAssumption DEF FindCurrent, Pair!Repair, IInv, TypeOK
    <3> QED
      BY <3>3 DEF Pair!Next
  <2>2. ASSUME NEW o \in Opener, Sync(o) PROVE Pair!Next
    <3>1. Pair!Repair
      BY <2>2, MirrorAssumption DEF Sync, Show, Pair!Repair, IInv, TypeOK
    <3> QED
      BY <3>1 DEF Pair!Next
  <2>3. ASSUME NEW p \in Publisher, Commit(p) PROVE Pair!Next
    <3> DEFINE d == Updated(p)
    <3>1. request[p] \in Request /\ database \in Descriptor
      BY <2>3 DEF Commit, IInv, Requests, TypeOK
    <3>2. d \in Descriptor /\ (d.roots = database.roots \/ d.revision = database.revision)
      BY <3>1, Applied DEF Updated
    <3>3. database' = d /\ shown'.mirror = mirror /\ shown'.restored = restored
                        /\ disturbances' = disturbances
      BY <2>3 DEF Commit
    <3>4. Pair!Change(d)
      BY <3>2, <3>3 DEF Pair!Change
    <3>5. CASE mirror = d /\ restored = disturbances
      <4>1. Pair!Publish
        BY <3>2, <3>3, <3>4, <3>5, MirrorAssumption DEF Pair!Publish, IInv, TypeOK
      <4> QED
        BY <4>1 DEF Pair!Next
    <3>6. CASE shown.mirror = mirror /\ restored < disturbances
      <4>1. Pair!PublishAlone
        BY <3>2, <3>3, <3>4, <3>6, MirrorAssumption DEF Pair!PublishAlone, IInv, TypeOK
      <4> QED
        BY <4>1 DEF Pair!Next
    <3> QED
      BY <2>3, <3>5, <3>6 DEF Commit, IInv, Views, AtCommit
  <2>4. ASSUME NEW p \in Publisher, LoseCommit(p) PROVE Pair!Next
    <3>1. Pair!Disturb
      BY <2>4, MirrorAssumption
         DEF LoseCommit, Pair!Disturb, IInv, TypeOK, Counts, Content, Unusable
    <3> QED
      BY <3>1 DEF Pair!Next
  <2>5. ASSUME NEW p \in Publisher, PublishFails(p) PROVE Pair!Next
    <3>1. Pair!Disturb
      BY <2>5, MirrorAssumption
         DEF PublishFails, Pair!Disturb, IInv, TypeOK, Counts, Content, Unusable
    <3> QED
      BY <3>1 DEF Pair!Next
  <2>6. ASSUME NEW content \in Content, Tamper(content) PROVE Pair!Next
    <3>1. Pair!Disturb
      BY <2>6, MirrorAssumption
         DEF Tamper, Pair!Disturb, IInv, TypeOK, Counts, Content, Unusable
    <3> QED
      BY <3>1 DEF Pair!Next
  <2>7. CASE UNCHANGED <<database, shown, disturbances>>
    BY <2>7
  <2> QED
    BY <2>1, <2>2, <2>3, <2>4, <2>5, <2>6, <2>7
       DEF Next, OpenStep, PublishStep, vars, BeginCheck, FindStale, Reject, StageRepair,
       TakeLock, Close, GiveUpOpen, Ask, StageCopy, Refuse, Publish, GiveUpPublication
<1> QED
  BY <1>1, <1>2, Always, PTL DEF Spec, ImplementsDescriptorPair, Pair!Spec

\* Left undisturbed, the row and the copy an opener sees never differ.
THEOREM OpenersSeeOneDescriptor == Spec => []Pair!Consistent
<1>1. IInv => Pair!Consistent
  BY DEF IInv, Views, Counts, TypeOK, Pair!Consistent
<1> QED
  BY <1>1, Always, PTL
=============================================================================
