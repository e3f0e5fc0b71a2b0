--------------------------- MODULE ProjectHTTPProofs ---------------------------
(***************************************************************************)
(* The project interface and its reads, for any requests, pollers, readers *)
(* and bounds: a client told in time that a job is over, or refused by its *)
(* worker, meets no lock of that worker; an analysis that was told to stop *)
(* publishes nothing; and what is shown as current was found current.      *)
(*                                                                         *)
(* The argument: where each worker thread is settles what may be true of   *)
(* its lock, its row, its registration and its acknowledgement (Threads);  *)
(* what pollers and shutdown have seen of it (Pollers, Closing) follows    *)
(* its way.  The reads rest on the cache: an entry is about what its key   *)
(* names (CacheIsTrue).                                                    *)
(***************************************************************************)
EXTENDS ProjectHTTP, SequenceTheorems, TLAPS

Freshnesses == {"UNVERIFIED", "CURRENT", "STALE"}
Snapshot == [analysis : Nat, review : Nat, stale : BOOLEAN]
ReadRecord == [at : {"idle", "descriptor", "freshness", "snapshot", "built", "answered"},
               revision : Nat, freshness : Freshnesses, checked : Nat, taken : Snapshot, shown : Snapshot]
CacheKey == [analysis : Nat, review : Nat, freshness : Freshnesses]
Entry == [key : CacheKey, shown : Snapshot]

ReadsTyped ==
  /\ analysis \in Nat /\ review \in Nat
  /\ check \in [revision : Nat, status : Freshnesses]
  /\ cache \in Seq(Entry)
  /\ read \in [Reader -> ReadRecord]

PollTyped ==
  poll \in [Poller -> [at : {"idle", "ended", "waiting", "told"}, job : Post \cup {None},
                       events : SUBSET Post, inTime : BOOLEAN]]

Typed == TypeOK /\ PollTyped

\* Where a worker thread is when it holds the lock, when its job is over, and
\* when it is registered no more.
Held == {"claiming", "queued", "running", "working", "committing", "leaving"}
Over == {"leaving", "unlocked", "returning", "popped", "done"}
Gone == {"popped", "done"}

\* The thread and its lock, registration, record, row and acknowledgement.
ThreadIsTrue(p) ==
  /\ lock = p <=> worker[p] \in Held
  /\ p \in workers <=> worker[p] \notin {"idle"} \cup Gone
  /\ p \in settled => worker[p] = "done"
  /\ p \in known => worker[p] \in {"working", "committing"} \cup Over
  /\ row[p].status \in Terminal => worker[p] \in Over
  /\ handler[p] = "idle" => worker[p] = "idle"
  /\ ack[p] = "error" => worker[p] \in {"returning"} \cup Gone
  /\ handler[p] = "refused" /\ p \notin stop => worker[p] \in {"idle", "returning"} \cup Gone

\* A worker stopped in time has a checkpoint ahead, or did not publish.
StopHolds(p) ==
  p \in late =>
    /\ p \in stop /\ worker[p] # "idle"
    /\ operation[p] = "analyze" => worker[p] # "committing" /\ row[p].status # "COMPLETED"

\* What a poller knows of the job it asked about.
PollIsTrue(c) ==
  /\ poll[c].at # "idle" => poll[c].job \in Post /\ worker[poll[c].job] \in Over
  /\ poll[c].at = "waiting" /\ poll[c].job \in known =>
       poll[c].job \in poll[c].events \/ worker[poll[c].job] \in Gone
  /\ poll[c].at = "told" /\ poll[c].inTime /\ poll[c].job \in known => worker[poll[c].job] \in Gone

\* Shutdown has stopped, or will stop, every worker that is registered.
Closing ==
  /\ closer = "stopping" => workers \subseteq closing \cup stop
  /\ closer = "closed" => workers \subseteq stop

\* A snapshot without the stale mark is of an assessment that was vouched for.
Founded(s) == ~s.stale => s.analysis \in vouched

\* What a read has gathered.
ReadIsTrue(d) ==
  /\ read[d].at = "freshness" /\ read[d].freshness = "CURRENT" => read[d].checked \in vouched
  /\ read[d].at \in {"snapshot", "built", "answered"} => Founded(read[d].taken)
  /\ read[d].at = "answered" =>
       /\ read[d].shown.analysis = read[d].taken.analysis /\ read[d].shown.review = read[d].taken.review
       /\ Founded(read[d].shown)

\* What the cache holds.
EntryIsTrue(e) ==
  e.shown.analysis = e.key.analysis /\ e.shown.review = e.key.review /\ Founded(e.shown)

CacheIsTrue ==
  /\ Len(cache) <= Kept
  /\ \A i \in 1..Len(cache) : EntryIsTrue(cache[i])
  /\ \A i, j \in 1..Len(cache) : cache[i].key = cache[j].key => i = j

ReadsInv ==
  /\ ReadsTyped
  /\ check.status = "CURRENT" => check.revision \in vouched
  /\ \A d \in Reader : ReadIsTrue(d)
  /\ CacheIsTrue

IInv ==
  /\ Typed
  /\ \A p \in Post : ThreadIsTrue(p) /\ StopHolds(p)
  /\ \A c \in Poller : PollIsTrue(c)
  /\ Closing
-----------------------------------------------------------------------------
(* Reads *)

\* The ways the assessment, its checks and its reviews change.
WriteStep ==
  /\ UNCHANGED readers
  /\ \/ Publish
     \/ \E status \in {"CURRENT", "STALE"} : RecordCheck(status)
     \/ review' = review + 1 /\ UNCHANGED <<analysis, check, vouched>>

ReadStep(d) == ReadDescriptor(d) \/ ReadOn(d)

\* A worker thread leaves what is read alone, but for its publication and its check.
LEMMA ThreadsAndReads ==
  ASSUME NEW p \in Post, Thread(p)
  PROVE  UNCHANGED readsVars \/ WriteStep
<1> USE DEF readsVars, workerOnly, Work, End
<1>1. CASE FailToClaim(p) \/ Claim(p) \/ Conflict(p) \/ Insert(p) \/ Run(p) \/ FailToRun(p) \/ Announce(p) \/ Fail(p)
  BY <1>1 DEF FailToClaim, Claim, Conflict, Insert, Run, FailToRun, Announce, Fail
<1>2. CASE NoticeCancel(p) \/ LastCheckpoint(p) \/ FindCancelled(p)
  BY <1>2 DEF NoticeCancel, LastCheckpoint, FindCancelled
<1>3. CASE PublishAnalysis(p)
  BY <1>3 DEF PublishAnalysis, WriteStep
<1>4. CASE EndCheck(p)
  BY <1>4 DEF EndCheck, WriteStep
<1>5. CASE Unlock(p) \/ Report(p) \/ Unregister(p) \/ Settle(p)
  BY <1>5 DEF Unlock, Report, Unregister, Settle
<1> QED
  BY <1>1, <1>2, <1>3, <1>4, <1>5 DEF Thread

\* Every step reads, writes, or leaves what is read alone.
LEMMA ReadsAndWrites ==
  ASSUME [Next]_vars
  PROVE  UNCHANGED readsVars \/ WriteStep \/ \E d \in Reader : ReadStep(d)
<1>1. ASSUME NEW p \in Post,
             \/ \E o \in Operation : Start(p, o)
             \/ Refuse(p) \/ Handler(p) \/ Cancel(p)
             \/ \E c \in Poller : FindEnded(c, p)
      PROVE  UNCHANGED readsVars
  BY <1>1 DEF Start, Refuse, Handler, Answer, TimeOut, GiveUp, Cancel, FindEnded, pollOnly
<1>2. ASSUME NEW c \in Poller, Poll(c) PROVE UNCHANGED readsVars
  BY <1>2 DEF Poll, Collect, Tell, TellLate, pollOnly
<1>3. Close \/ Shutdown => UNCHANGED readsVars
  BY DEF Close, Shutdown, StopNext, CancelStopped, Break, Closed
<1>4. ReadSome => WriteStep \/ \E d \in Reader : ReadStep(d)
  BY DEF ReadSome, Decide, WriteElsewhere, WriteStep, ReadStep, readers
<1>5. UNCHANGED vars => UNCHANGED readsVars
  BY DEF vars
<1> QED
  BY <1>1, <1>2, <1>3, <1>4, <1>5, ThreadsAndReads DEF Next

\* Nothing is vouched for less by a write.
LEMMA WritesVouch ==
  ASSUME ReadsInv, WriteStep
  PROVE  /\ analysis' \in Nat /\ review' \in Nat /\ check' \in [revision : Nat, status : Freshnesses]
         /\ check'.status = "CURRENT" => check'.revision \in vouched'
         /\ vouched \subseteq vouched' /\ UNCHANGED <<read, cache>>
<1> USE DEF ReadsInv, ReadsTyped, Freshnesses
<1>0. UNCHANGED <<read, cache>>
  BY DEF WriteStep, readers
<1>1. CASE Publish
  BY <1>0, <1>1 DEF Publish
<1>2. ASSUME NEW status \in {"CURRENT", "STALE"}, RecordCheck(status)
      PROVE  /\ analysis' \in Nat /\ review' \in Nat /\ check' \in [revision : Nat, status : Freshnesses]
             /\ check'.status = "CURRENT" => check'.revision \in vouched'
             /\ vouched \subseteq vouched'
  BY <1>2 DEF RecordCheck
<1>3. CASE review' = review + 1 /\ UNCHANGED <<analysis, check, vouched>>
  BY <1>0, <1>3
<1> QED
  BY <1>0, <1>1, <1>2, <1>3 DEF WriteStep

\* What was read stays true when more is vouched for.
LEMMA WritesKeep ==
  ASSUME ReadsInv, WriteStep
  PROVE  ReadsInv'
<1>1. /\ analysis' \in Nat /\ review' \in Nat /\ check' \in [revision : Nat, status : Freshnesses]
      /\ check'.status = "CURRENT" => check'.revision \in vouched'
      /\ vouched \subseteq vouched' /\ UNCHANGED <<read, cache>>
  BY WritesVouch
<1>2. ReadsTyped'
  BY <1>1 DEF ReadsInv, ReadsTyped
<1>3. \A s : Founded(s) => Founded(s)'
  BY <1>1 DEF Founded
<1>4. ASSUME NEW d \in Reader PROVE ReadIsTrue(d)'
  BY <1>1 DEF ReadsInv, ReadIsTrue, Founded
<1>5. CacheIsTrue'
  BY <1>1 DEF ReadsInv, CacheIsTrue, EntryIsTrue, Founded
<1> QED
  BY <1>1, <1>2, <1>4, <1>5 DEF ReadsInv

\* A used entry moves to the end.
MovedToEnd(q, i) == Append(RemoveAt(q, i), q[i])
Before(q, i, j) == IF j < i THEN j ELSE IF j < Len(q) THEN j + 1 ELSE i

LEMMA TouchedCache ==
  ASSUME NEW S, NEW q \in Seq(S), NEW i \in 1..Len(q)
  PROVE  /\ MovedToEnd(q, i) \in Seq(S) /\ Len(MovedToEnd(q, i)) = Len(q)
         /\ \A j \in 1..Len(q) : MovedToEnd(q, i)[j] = q[Before(q, i, j)]
<1> DEFINE t == MovedToEnd(q, i)
<1> DEFINE a == SubSeq(q, 1, i - 1)
           b == SubSeq(q, i + 1, Len(q))
<1>0. Len(q) \in Nat
  BY LenProperties
<1>1. a \in Seq(S) /\ Len(a) = i - 1 /\ \A j \in 1..(i - 1) : a[j] = q[j]
  BY <1>0, SubSeqProperties
<1>2. b \in Seq(S) /\ Len(b) = Len(q) - i /\ \A j \in 1..(Len(q) - i) : b[j] = q[i + j]
  BY <1>0, SubSeqProperties
<1> HIDE DEF a, b
<1>3. /\ a \o b \in Seq(S) /\ Len(a \o b) = Len(q) - 1
      /\ \A j \in 1..(Len(q) - 1) : (a \o b)[j] = IF j < i THEN q[j] ELSE q[j + 1]
  <2>1. a \o b \in Seq(S) /\ Len(a \o b) = Len(q) - 1
    <3>1. a \o b \in Seq(S) /\ Len(a \o b) = Len(a) + Len(b)
      BY <1>1, <1>2, ConcatProperties
    <3> QED
      BY <1>0, <1>1, <1>2, <3>1
  <2>2. ASSUME NEW j \in 1..(Len(q) - 1) PROVE (a \o b)[j] = IF j < i THEN q[j] ELSE q[j + 1]
    <3>1. (a \o b)[j] = IF j <= Len(a) THEN a[j] ELSE b[j - Len(a)]
      <4>1. Len(a) + Len(b) = Len(q) - 1 /\ j \in 1..(Len(a) + Len(b))
        BY <1>0, <1>1, <1>2
      <4>2. \A k \in 1..(Len(a) + Len(b)) : (a \o b)[k] = IF k <= Len(a) THEN a[k] ELSE b[k - Len(a)]
        BY <1>1, <1>2, ConcatProperties
      <4> QED
        BY <4>1, <4>2
    <3>2. CASE j < i
      BY <1>0, <1>1, <3>1, <3>2
    <3>3. CASE j >= i
      <4>1. j - (i - 1) \in 1..(Len(q) - i)
        BY <1>0, <3>3
      <4>2. b[j - (i - 1)] = q[i + (j - (i - 1))]
        BY <1>2, <4>1
      <4>3. i + (j - (i - 1)) = j + 1
        BY <1>0
      <4> QED
        BY <1>0, <1>1, <3>1, <3>3, <4>2, <4>3
    <3>4. j < i \/ j >= i
      BY <1>0
    <3> QED
      BY <3>2, <3>3, <3>4
  <2> QED
    BY <2>1, <2>2
<1>4. t = Append(a \o b, q[i])
  BY DEF RemoveAt, MovedToEnd, a, b
<1>5. q[i] \in S
  BY ElementOfSeq
<1> HIDE DEF t
<1>6. /\ t \in Seq(S) /\ Len(t) = Len(q)
      /\ \A j \in 1..(Len(q) - 1) : t[j] = (a \o b)[j]
      /\ t[Len(q)] = q[i]
  BY <1>0, <1>3, <1>4, <1>5, AppendProperties
<1>7. ASSUME NEW j \in 1..Len(q)
      PROVE  t[j] = q[Before(q, i, j)]
  <2> USE DEF Before
  <2>1. CASE j = Len(q)
    <3>1. ~(j < i) /\ ~(j < Len(q))
      BY <1>0, <2>1
    <3> QED
      BY <1>6, <2>1, <3>1
  <2>2. CASE j # Len(q)
    <3>1. j \in 1..(Len(q) - 1) /\ j < Len(q)
      BY <1>0, <2>2
    <3>2. t[j] = (a \o b)[j]
      BY <1>6, <3>1
    <3>3. (a \o b)[j] = IF j < i THEN q[j] ELSE q[j + 1]
      BY <1>3, <3>1
    <3> QED
      BY <3>1, <3>2, <3>3
  <2> QED
    BY <2>1, <2>2
<1> QED
  BY <1>6, <1>7 DEF t
\* A new entry goes to the end; the oldest go out.
LEMMA AddedCache ==
  ASSUME NEW S, cache \in Seq(S), NEW e \in S, Kept \in Nat \ {0}, Len(cache) <= Kept
  PROVE  /\ Added(e) \in Seq(S) /\ Len(Added(e)) <= Kept
         /\ \E n \in {0, 1} :
              /\ Len(Added(e)) = Len(cache) + 1 - n
              /\ \A j \in 1..Len(Added(e)) :
                   /\ j + n \in 1..(Len(cache) + 1)
                   /\ Added(e)[j] = IF j + n = Len(cache) + 1 THEN e ELSE cache[j + n]
<1> DEFINE q == Append(cache, e)
<1>0. Len(cache) \in Nat
  BY LenProperties
<1>1. /\ q \in Seq(S) /\ Len(q) = Len(cache) + 1
      /\ \A j \in 1..Len(q) : q[j] \in S /\ q[j] = IF j = Len(cache) + 1 THEN e ELSE cache[j]
  <2>1. /\ q \in Seq(S) /\ Len(q) = Len(cache) + 1
        /\ \A j \in 1..Len(cache) : q[j] = cache[j]
        /\ q[Len(cache) + 1] = e
    BY AppendProperties
  <2>2. \A j \in 1..Len(q) : q[j] \in S
    BY <2>1, ElementOfSeq
  <2> HIDE DEF q
  <2>3. ASSUME NEW j \in 1..Len(q) PROVE q[j] = IF j = Len(cache) + 1 THEN e ELSE cache[j]
    <3>1. j = Len(cache) + 1 \/ (j # Len(cache) + 1 /\ j \in 1..Len(cache))
      BY <1>0, <2>1
    <3> QED
      BY <2>1, <3>1
  <2> QED
    BY <2>1, <2>2, <2>3
<1>2. CASE Len(q) > Kept
  <2>1. Len(q) = Kept + 1
    BY <1>0, <1>1, <1>2
  <2>2. Len(q) - Kept + 1 = 2
    BY <2>1
  <2>3. Added(e) = SubSeq(q, 2, Len(q))
    BY <1>2, <2>2 DEF Added
  <2> HIDE DEF q
  <2>4. /\ SubSeq(q, 2, Len(q)) \in Seq(S)
        /\ Len(SubSeq(q, 2, Len(q))) = IF 2 <= Len(q) THEN Len(q) - 2 + 1 ELSE 0
        /\ \A j \in 1..(Len(q) - 2 + 1) : SubSeq(q, 2, Len(q))[j] = q[2 + j - 1]
    <3>1. 2 \in Int /\ Len(q) \in Int /\ \A j \in 2..Len(q) : q[j] \in S
      BY <1>0, <1>1
    <3> QED
      BY <3>1, SubSeqProperties
  <2>5. Len(Added(e)) = Len(cache) /\ Len(cache) = Kept
    BY <1>0, <1>1, <2>1, <2>3, <2>4
  <2>6. ASSUME NEW j \in 1..Len(Added(e))
        PROVE  j + 1 \in 1..(Len(cache) + 1)
               /\ Added(e)[j] = IF j + 1 = Len(cache) + 1 THEN e ELSE cache[j + 1]
    <3>1. j + 1 \in 1..Len(q) /\ j \in 1..(Len(q) - 2 + 1) /\ 2 + j - 1 = j + 1
      BY <1>0, <1>1, <2>5
    <3>2. Added(e)[j] = q[j + 1]
      BY <2>3, <2>4, <3>1
    <3> QED
      BY <1>1, <3>1, <3>2
  <2>7. Len(Added(e)) = Len(cache) + 1 - 1
    BY <1>0, <2>5
  <2> QED
    BY <2>3, <2>4, <2>5, <2>6, <2>7
<1>3. CASE ~(Len(q) > Kept)
  <2>1. Added(e) = q /\ Len(q) <= Kept
    BY <1>0, <1>1, <1>3 DEF Added
  <2> HIDE DEF q
  <2>2. Len(Added(e)) = Len(cache) + 1 - 0
    BY <1>0, <1>1, <2>1
  <2>3. ASSUME NEW j \in 1..Len(Added(e))
        PROVE  j + 0 \in 1..(Len(cache) + 1)
               /\ Added(e)[j] = IF j + 0 = Len(cache) + 1 THEN e ELSE cache[j + 0]
    <3>1. j + 0 = j /\ j \in 1..Len(q)
      BY <1>0, <1>1, <2>1
    <3> QED
      BY <1>1, <2>1, <3>1
  <2> QED
    BY <1>1, <2>1, <2>2, <2>3
<1> QED
  BY <1>2, <1>3
\* A step of one read that leaves the cache alone: what has to be shown of it.
LEMMA OneReads ==
  ASSUME ReadsInv, NEW d \in Reader, NEW r \in ReadRecord, read' = [read EXCEPT ![d] = r],
         UNCHANGED project, cache' \in Seq(Entry), CacheIsTrue',
         r.at = "freshness" /\ r.freshness = "CURRENT" => r.checked \in vouched,
         r.at \in {"snapshot", "built", "answered"} => Founded(r.taken),
         r.at = "answered" =>
           r.shown.analysis = r.taken.analysis /\ r.shown.review = r.taken.review /\ Founded(r.shown)
  PROVE  ReadsInv'
<1>0. read \in [Reader -> ReadRecord] /\ UNCHANGED <<analysis, review, check, vouched>>
  BY DEF ReadsInv, ReadsTyped, project
<1>1. read' \in [Reader -> ReadRecord] /\ read'[d] = r /\ \A e \in Reader \ {d} : read'[e] = read[e]
  BY <1>0
<1>2. ReadsTyped'
  BY <1>0, <1>1 DEF ReadsInv, ReadsTyped
<1>3. ASSUME NEW e \in Reader PROVE ReadIsTrue(e)'
  <2>1. CASE e = d
    BY <1>0, <1>1, <2>1 DEF ReadIsTrue, Founded
  <2>2. CASE e # d
    <3>1. read'[e] = read[e] /\ ReadIsTrue(e)
      BY <1>1, <2>2 DEF ReadsInv
    <3> QED
      BY <1>0, <3>1 DEF ReadIsTrue, Founded
  <2> QED
    BY <2>1, <2>2
<1> QED
  BY <1>0, <1>2, <1>3 DEF ReadsInv

\* A cache nobody touched stays true.
LEMMA CacheStays ==
  ASSUME ReadsInv, UNCHANGED <<project, cache>>
  PROVE  cache' \in Seq(Entry) /\ CacheIsTrue'
  BY DEF ReadsInv, ReadsTyped, CacheIsTrue, EntryIsTrue, Founded, project

\* An entry that is used again, or put in, leaves the cache true.
LEMMA CacheTouched ==
  ASSUME ReadsInv, UNCHANGED project, NEW i \in 1..Len(cache), cache' = Touched(i)
  PROVE  cache' \in Seq(Entry) /\ CacheIsTrue'
<1>0. cache \in Seq(Entry) /\ Len(cache) \in Nat
  BY LenProperties DEF ReadsInv, ReadsTyped
<1> DEFINE from(j) == Before(cache, i, j)
<1>1. /\ cache' \in Seq(Entry) /\ Len(cache') = Len(cache)
      /\ \A j \in 1..Len(cache) : cache'[j] = cache[from(j)]
  <2>1. cache' = MovedToEnd(cache, i)
    BY DEF Touched, MovedToEnd
  <2> QED
    BY <1>0, <2>1, TouchedCache
<1> USE DEF Before
<1>2. \A j \in 1..Len(cache) : from(j) \in 1..Len(cache)
  BY <1>0
<1>3. \A j, k \in 1..Len(cache) : from(j) = from(k) => j = k
  BY <1>0
<1> HIDE DEF from, Before
<1>4. /\ Len(cache) <= Kept
      /\ \A j \in 1..Len(cache) : EntryIsTrue(cache[j])
      /\ \A j, k \in 1..Len(cache) : cache[j].key = cache[k].key => j = k
  BY DEF ReadsInv, CacheIsTrue
<1>5. \A j \in 1..Len(cache') : EntryIsTrue(cache'[j])
  BY <1>1, <1>2, <1>4
<1>6. \A j \in 1..Len(cache') : EntryIsTrue(cache[j])'
  BY <1>5 DEF EntryIsTrue, Founded, project
<1>7. \A j, k \in 1..Len(cache') : cache'[j].key = cache'[k].key => j = k
  BY <1>1, <1>2, <1>3, <1>4
<1> QED
  BY <1>1, <1>4, <1>6, <1>7 DEF CacheIsTrue

LEMMA CacheAdded ==
  ASSUME ReadsInv, UNCHANGED project, NEW e \in Entry, EntryIsTrue(e), Holding(e.key) = {}, cache' = Added(e)
  PROVE  cache' \in Seq(Entry) /\ CacheIsTrue'
<1>0. cache \in Seq(Entry) /\ Len(cache) \in Nat
  BY LenProperties DEF ReadsInv, ReadsTyped
<1>1. /\ Len(cache) <= Kept
      /\ \A j \in 1..Len(cache) : EntryIsTrue(cache[j])
      /\ \A j, k \in 1..Len(cache) : cache[j].key = cache[k].key => j = k
  BY DEF ReadsInv, CacheIsTrue
<1>2. /\ cache' \in Seq(Entry) /\ Len(cache') <= Kept
      /\ \E n \in {0, 1} :
           /\ Len(cache') = Len(cache) + 1 - n
           /\ \A j \in 1..Len(cache') :
                /\ j + n \in 1..(Len(cache) + 1)
                /\ cache'[j] = IF j + n = Len(cache) + 1 THEN e ELSE cache[j + n]
  BY <1>0, <1>1, AddedCache, ReadsAssumption
<1>3. PICK n \in {0, 1} :
           \A j \in 1..Len(cache') :
             /\ j + n \in 1..(Len(cache) + 1)
             /\ cache'[j] = IF j + n = Len(cache) + 1 THEN e ELSE cache[j + n]
  BY <1>2
<1>4. ASSUME NEW j \in 1..Len(cache)
      PROVE  cache[j].key # e.key
  <2>1. DOMAIN cache = 1..Len(cache)
    BY <1>0
  <2> QED
    BY <2>1 DEF Holding
<1>5. \A j \in 1..Len(cache') : EntryIsTrue(cache'[j])
  <2> TAKE j \in 1..Len(cache')
  <2>1. j + n = Len(cache) + 1 \/ j + n \in 1..Len(cache)
    BY <1>0, <1>3
  <2> QED
    BY <1>1, <1>3, <2>1
<1>6. \A j \in 1..Len(cache') : EntryIsTrue(cache[j])'
  BY <1>5 DEF EntryIsTrue, Founded, project
<1>7. \A j, k \in 1..Len(cache') : cache'[j].key = cache'[k].key => j = k
  <2> SUFFICES ASSUME NEW j \in 1..Len(cache'), NEW k \in 1..Len(cache'), cache'[j].key = cache'[k].key
               PROVE  j = k
    OBVIOUS
  <2>0. j \in Int /\ k \in Int /\ n \in Int
    OBVIOUS
  <2>1. j + n = Len(cache) + 1 \/ (j + n # Len(cache) + 1 /\ j + n \in 1..Len(cache))
    BY <1>0, <1>3
  <2>2. k + n = Len(cache) + 1 \/ (k + n # Len(cache) + 1 /\ k + n \in 1..Len(cache))
    BY <1>0, <1>3
  <2>3. cache'[j] = IF j + n = Len(cache) + 1 THEN e ELSE cache[j + n]
    BY <1>3
  <2>4. cache'[k] = IF k + n = Len(cache) + 1 THEN e ELSE cache[k + n]
    BY <1>3
  <2>5. j + n = k + n
    BY <1>1, <1>4, <2>1, <2>2, <2>3, <2>4
  <2> QED
    BY <2>0, <2>5
<1> QED
  BY <1>2, <1>6, <1>7 DEF CacheIsTrue

LEMMA ReadsKeep ==
  ASSUME ReadsInv, NEW d \in Reader, ReadStep(d)
  PROVE  ReadsInv'
<1>0. /\ read \in [Reader -> ReadRecord] /\ read[d] \in ReadRecord /\ ReadIsTrue(d)
      /\ analysis \in Nat /\ review \in Nat /\ check \in [revision : Nat, status : Freshnesses]
      /\ check.status = "CURRENT" => check.revision \in vouched
  BY DEF ReadsInv, ReadsTyped
<1>n. NoRead \in ReadRecord /\ NoRead.at = "idle"
  BY DEF NoRead, ReadRecord, Freshnesses, Snapshot
<1>1. CASE ReadDescriptor(d)
  <2> DEFINE r == [NoRead EXCEPT !.at = "descriptor", !.revision = analysis]
  <2>1. r \in ReadRecord /\ r.at = "descriptor"
    BY <1>0, <1>n DEF NoRead, ReadRecord
  <2>2. read' = [read EXCEPT ![d] = r] /\ UNCHANGED <<project, cache>>
    BY <1>1 DEF ReadDescriptor
  <2> HIDE DEF r
  <2> QED
    BY <2>1, <2>2, OneReads, CacheStays
<1>2. CASE ReadCheck(d)
  <2> DEFINE f == IF check.revision = read[d].revision THEN check.status ELSE "UNVERIFIED"
             r == [read[d] EXCEPT !.at = "freshness", !.checked = read[d].revision, !.freshness = f]
  <2>0. f \in Freshnesses /\ read[d].revision \in Nat /\ (f = "CURRENT" => read[d].revision \in vouched)
    BY <1>0 DEF Freshnesses, ReadRecord
  <2>2. read' = [read EXCEPT ![d] = r] /\ UNCHANGED <<project, cache>>
    BY <1>0, <1>2 DEF ReadCheck
  <2> HIDE DEF f
  <2>1. r \in ReadRecord /\ r.at = "freshness" /\ r.checked = read[d].revision /\ r.freshness = f
    BY <1>0, <2>0 DEF ReadRecord
  <2> HIDE DEF r
  <2> QED
    BY <2>0, <2>1, <2>2, OneReads, CacheStays
<1>3. CASE TakeSnapshot(d)
  <2> DEFINE s == [analysis |-> analysis, review |-> review, stale |-> ~Vouches(d)]
             r == [read[d] EXCEPT !.at = "snapshot", !.taken = s]
  <2>0. s \in Snapshot /\ s.analysis = analysis /\ (~s.stale => Vouches(d))
    BY <1>0 DEF Snapshot, Vouches
  <2>2. read' = [read EXCEPT ![d] = r] /\ UNCHANGED <<project, cache>> /\ read[d].at = "freshness"
    BY <1>0, <1>3 DEF TakeSnapshot
  <2>3. Founded(s)
    BY <1>0, <2>0, <2>2 DEF Founded, Vouches, ReadIsTrue
  <2> HIDE DEF s
  <2>1. r \in ReadRecord /\ r.at = "snapshot" /\ r.taken = s
    BY <1>0, <2>0 DEF ReadRecord
  <2> HIDE DEF r
  <2> QED
    BY <2>1, <2>2, <2>3, OneReads, CacheStays
<1>4. CASE Hit(d)
  <2>1. PICK i \in Holding(Key(d)) :
             /\ cache' = Touched(i)
             /\ read' = [read EXCEPT ![d].at = "answered", ![d].shown = cache[i].shown]
    BY <1>4 DEF Hit
  <2>2. cache \in Seq(Entry) /\ i \in 1..Len(cache) /\ cache[i].key = Key(d)
    BY <2>1 DEF Holding, ReadsInv, ReadsTyped
  <2>3. cache[i] \in Entry /\ EntryIsTrue(cache[i])
    BY <2>2, ElementOfSeq DEF ReadsInv, CacheIsTrue
  <2> DEFINE e == cache[i].shown
             r == [read[d] EXCEPT !.at = "answered", !.shown = e]
  <2>4. e \in Snapshot /\ e.analysis = read[d].taken.analysis /\ e.review = read[d].taken.review /\ Founded(e)
    BY <2>2, <2>3 DEF EntryIsTrue, Key, Entry
  <2>5. read' = [read EXCEPT ![d] = r] /\ UNCHANGED project
    BY <1>0, <1>4, <2>1 DEF Hit
  <2>6. Founded(read[d].taken)
    BY <1>0, <1>4 DEF Hit, ReadIsTrue
  <2>7. cache' \in Seq(Entry) /\ CacheIsTrue'
    BY <2>1, <2>2, <2>5, CacheTouched
  <2> HIDE DEF e
  <2>8. r \in ReadRecord /\ r.at = "answered" /\ r.shown = e /\ r.taken = read[d].taken
    BY <1>0, <2>4 DEF ReadRecord
  <2> HIDE DEF r
  <2> QED
    BY <2>4, <2>5, <2>6, <2>7, <2>8, OneReads
<1>5. CASE Build(d)
  <2> DEFINE r == [read[d] EXCEPT !.at = "built"]
  <2>1. r \in ReadRecord /\ r.at = "built" /\ r.taken = read[d].taken
    BY <1>0 DEF ReadRecord
  <2>2. read' = [read EXCEPT ![d] = r] /\ UNCHANGED <<project, cache>> /\ read[d].at = "snapshot"
    BY <1>0, <1>5 DEF Build, Reading
  <2>3. Founded(read[d].taken)
    BY <1>0, <2>2 DEF ReadIsTrue
  <2> HIDE DEF r
  <2> QED
    BY <2>1, <2>2, <2>3, OneReads, CacheStays
<1>6. CASE Store(d)
  <2> DEFINE e == [key |-> Key(d), shown |-> read[d].taken]
             s == read[d].taken
             r == [read[d] EXCEPT !.at = "answered", !.shown = s]
  <2>1. e \in Entry /\ s \in Snapshot
    BY <1>0 DEF ReadRecord, Entry, CacheKey, Key, Snapshot
  <2>2. read' = [read EXCEPT ![d] = r] /\ UNCHANGED project /\ cache' = Added(e) /\ Holding(Key(d)) = {}
        /\ read[d].at = "built"
    BY <1>0, <1>6 DEF Store
  <2>3. Founded(s)
    BY <1>0, <2>2 DEF ReadIsTrue
  <2>4. EntryIsTrue(e) /\ e.key = Key(d)
    BY <2>3 DEF EntryIsTrue, Key
  <2>5. cache' \in Seq(Entry) /\ CacheIsTrue'
    <3> HIDE DEF e
    <3> QED
      BY <2>1, <2>2, <2>4, CacheAdded
  <2>6. r \in ReadRecord /\ r.at = "answered" /\ r.shown = s /\ r.taken = s
    BY <1>0, <2>1 DEF ReadRecord
  <2> HIDE DEF r, s
  <2> QED
    BY <2>2, <2>3, <2>5, <2>6, OneReads
<1>7. CASE Forget(d)
  <2>1. read' = [read EXCEPT ![d] = NoRead] /\ UNCHANGED <<project, cache>>
    BY <1>7 DEF Forget
  <2> QED
    BY <1>n, <2>1, OneReads, CacheStays
<1> QED
  BY <1>1, <1>2, <1>3, <1>4, <1>5, <1>6, <1>7 DEF ReadStep, ReadOn
\* Reads are inductive by themselves, whatever the workers do.
LEMMA ReadsAlways == Spec => []ReadsInv
<1>1. Init => ReadsInv
  <2> SUFFICES ASSUME Init PROVE ReadsInv
    OBVIOUS
  <2>1. /\ analysis = 1 /\ review = 0 /\ cache = <<>> /\ read = [r \in Reader |-> NoRead]
        /\ check \in {[revision |-> 0, status |-> "UNVERIFIED"], [revision |-> 1, status |-> "CURRENT"]}
        /\ vouched = {check.revision} \ {0}
    BY DEF Init, InitReads
  <2>2. NoRead \in ReadRecord /\ NoRead.at = "idle"
    BY DEF NoRead, ReadRecord, Freshnesses, Snapshot
  <2>3. check \in [revision : Nat, status : Freshnesses] /\ (check.status = "CURRENT" => check.revision \in vouched)
    BY <2>1 DEF Freshnesses
  <2>4. cache \in Seq(Entry) /\ Len(cache) = 0
    BY <2>1, EmptySeq
  <2>5. CacheIsTrue
    BY <2>4, ReadsAssumption DEF CacheIsTrue
  <2>6. \A d \in Reader : ReadIsTrue(d)
    BY <2>1, <2>2 DEF ReadIsTrue
  <2> QED
    BY <2>1, <2>2, <2>3, <2>4, <2>5, <2>6 DEF ReadsInv, ReadsTyped
<1>2. ReadsInv /\ [Next]_vars => ReadsInv'
  <2> SUFFICES ASSUME ReadsInv, [Next]_vars PROVE ReadsInv'
    OBVIOUS
  <2>1. CASE UNCHANGED readsVars
    BY <2>1 DEF readsVars, project, readers, ReadsInv, ReadsTyped, ReadIsTrue, CacheIsTrue, EntryIsTrue, Founded
  <2> QED
    BY <2>1, ReadsAndWrites, WritesKeep, ReadsKeep
<1> QED
  BY <1>1, <1>2, PTL DEF Spec

\* An answer is about its request's own snapshot, and without the stale mark
\* only if a completed check found that very assessment current
\* (_freshness, current_assessment, ProjectionCache).
THEOREM CurrentMeansChecked == Spec => []ShownCurrentWasChecked
<1>1. ReadsInv => ShownCurrentWasChecked
  <2> SUFFICES ASSUME ReadsInv PROVE ShownCurrentWasChecked
    OBVIOUS
  <2>1. cache \in Seq(Entry) /\ DOMAIN cache = 1..Len(cache)
    BY DEF ReadsInv, ReadsTyped
  <2>2. ASSUME NEW a \in Answers
        PROVE  /\ a.shown.analysis = a.taken.analysis /\ a.shown.review = a.taken.review
               /\ ~a.shown.stale => a.shown.analysis \in vouched
    <3>1. PICK d \in Reader : a = read[d] /\ read[d].at = "answered"
      BY DEF Answers
    <3> QED
      BY <3>1 DEF ReadsInv, ReadIsTrue, Founded
  <2> QED
    BY <2>1, <2>2 DEF ShownCurrentWasChecked, ReadsInv, CacheIsTrue
<1> QED
  BY <1>1, ReadsAlways, PTL
-----------------------------------------------------------------------------
(* Workers, handlers, pollers and shutdown *)

Rows == [status : Active \cup Terminal \cup {"ABSENT"}, cancel : BOOLEAN]

\* A row ends as a row, and with an end.
LEMMA EndedRow ==
  ASSUME NEW r \in Rows, NEW s \in Terminal
  PROVE  Ended(r, s) \in Rows /\ Ended(r, s).status \in Terminal
BY DEF Ended, Rows, Terminal

\* Ending a job: the row is a row, and the others are as they were.
LEMMA Ending ==
  ASSUME Typed, NEW p \in Post, NEW s \in Terminal, row' = [row EXCEPT ![p] = Ended(@, s)]
  PROVE  /\ row' \in [Post -> Rows]
         /\ row'[p] = Ended(row[p], s) /\ row'[p].status \in Terminal
         /\ \A q \in Post \ {p} : row'[q] = row[q]
<1>1. row \in [Post -> Rows] /\ row[p] \in Rows
  BY DEF Typed, TypeOK, Rows
<1>2. Ended(row[p], s) \in Rows /\ Ended(row[p], s).status \in Terminal
  BY <1>1, EndedRow
<1>3. row' = [row EXCEPT ![p] = Ended(row[p], s)]
  OBVIOUS
<1> QED
  BY <1>1, <1>2, <1>3

\* What a step of p's thread does: its place, its row, its marks; nothing of others.
Places == Ahead \cup {"idle", "committing", "leaving", "unlocked", "returning", "popped", "done"}

ThreadOnly(p) ==
  /\ worker' \in [Post -> Places]
  /\ row' \in [Post -> Rows] /\ ack' \in [Post -> {"empty", "job", "error"}]
  /\ lock' \in Post \cup {None}
  /\ failed' \in SUBSET Post /\ known' \in SUBSET Post /\ workers' \in SUBSET Post /\ settled' \in SUBSET Post
  /\ \A q \in Post \ {p} :
       /\ worker'[q] = worker[q] /\ row'[q] = row[q] /\ ack'[q] = ack[q]
       /\ q \in known' <=> q \in known
       /\ q \in workers' <=> q \in workers
       /\ q \in settled' <=> q \in settled
  /\ known \subseteq known' /\ workers' \subseteq workers
  /\ UNCHANGED <<situation, operation, handler, stop, polling, shutdown, late>>

LEMMA ThreadsAreTyped ==
  ASSUME Typed, NEW p \in Post, Thread(p)
  PROVE  ThreadOnly(p)
<1>0. /\ worker \in [Post -> Ahead \cup {"idle", "committing", "leaving", "unlocked", "returning", "popped", "done"}]
      /\ row \in [Post -> Rows] /\ ack \in [Post -> {"empty", "job", "error"}]
      /\ lock \in Post \cup {None}
      /\ failed \in SUBSET Post /\ known \in SUBSET Post /\ workers \in SUBSET Post /\ settled \in SUBSET Post
  BY DEF Typed, TypeOK, Rows
<1> USE DEF ThreadOnly, Places, workerOnly, Work, End, handling, registry, Ahead
<1>1. CASE FailToClaim(p)
  BY <1>0, <1>1 DEF FailToClaim
<1>2. CASE Claim(p)
  BY <1>0, <1>2 DEF Claim
<1>3. CASE Conflict(p)
  BY <1>0, <1>3 DEF Conflict
<1>4. CASE Insert(p)
  BY <1>0, <1>4 DEF Insert, Rows, Active
<1>5. CASE Run(p)
  BY <1>0, <1>5 DEF Run, Rows, Active
<1>6. CASE FailToRun(p)
  <2>1. \E s \in Terminal : row' = [row EXCEPT ![p] = Ended(@, s)]
    BY <1>6 DEF FailToRun, Terminal
  <2>2. row' \in [Post -> Rows] /\ \A q \in Post \ {p} : row'[q] = row[q]
    BY <2>1, Ending
  <2> QED
    BY <1>0, <1>6, <2>2 DEF FailToRun
<1>7. CASE Announce(p)
  BY <1>0, <1>7 DEF Announce
<1>8. CASE Fail(p)
  <2>1. \E s \in Terminal : row' = [row EXCEPT ![p] = Ended(@, s)]
    BY <1>8 DEF Fail, Terminal
  <2>2. row' \in [Post -> Rows] /\ \A q \in Post \ {p} : row'[q] = row[q]
    BY <2>1, Ending
  <2> QED
    BY <1>0, <1>8, <2>2 DEF Fail
<1>9. CASE NoticeCancel(p)
  BY <1>0, <1>9 DEF NoticeCancel, Rows, Terminal
<1>10. CASE LastCheckpoint(p)
  BY <1>0, <1>10 DEF LastCheckpoint
<1>11. CASE PublishAnalysis(p)
  <2>1. \E s \in Terminal : row' = [row EXCEPT ![p] = Ended(@, s)]
    BY <1>11 DEF PublishAnalysis, Terminal
  <2>2. row' \in [Post -> Rows] /\ \A q \in Post \ {p} : row'[q] = row[q]
    BY <2>1, Ending
  <2> QED
    BY <1>0, <1>11, <2>2 DEF PublishAnalysis
<1>12. CASE FindCancelled(p)
  <2>1. \E s \in Terminal : row' = [row EXCEPT ![p] = Ended(@, s)]
    BY <1>12 DEF FindCancelled, Terminal
  <2>2. row' \in [Post -> Rows] /\ \A q \in Post \ {p} : row'[q] = row[q]
    BY <2>1, Ending
  <2> QED
    BY <1>0, <1>12, <2>2 DEF FindCancelled
<1>13. CASE EndCheck(p)
  <2>1. \E s \in Terminal : row' = [row EXCEPT ![p] = Ended(@, s)]
    BY <1>13 DEF EndCheck, Terminal
  <2>2. row' \in [Post -> Rows] /\ \A q \in Post \ {p} : row'[q] = row[q]
    BY <2>1, Ending
  <2> QED
    BY <1>0, <1>13, <2>2 DEF EndCheck
<1>14. CASE Unlock(p)
  BY <1>0, <1>14 DEF Unlock
<1>15. CASE Report(p)
  BY <1>0, <1>15 DEF Report
<1>16. CASE Unregister(p)
  BY <1>0, <1>16 DEF Unregister
<1>17. CASE Settle(p)
  BY <1>0, <1>17 DEF Settle
<1> QED
  BY <1>1, <1>2, <1>3, <1>4, <1>5, <1>6, <1>7, <1>8, <1>9, <1>10, <1>11, <1>12, <1>13, <1>14, <1>15, <1>16, <1>17 DEF Thread
\* The lock changes hands to and from the one whose step it is.
LEMMA LockOfOthers ==
  ASSUME IInv, NEW p \in Post, Thread(p), NEW q \in Post \ {p}
  PROVE  lock' = q <=> lock = q
<1> USE DEF workerOnly, Work, End, handling
<1>1. CASE Claim(p)
  BY <1>1, HTTPAssumption DEF Claim
<1>2. CASE Unlock(p)
  <2>1. worker[p] = "leaving"
    BY <1>2 DEF Unlock
  <2>2. lock = p
    BY <2>1 DEF IInv, ThreadIsTrue, Held
  <2> QED
    BY <1>2, <2>2, HTTPAssumption DEF Unlock
<1>3. ~Claim(p) /\ ~Unlock(p) => lock' = lock
  BY DEF Thread, FailToClaim, Conflict, Insert, Run, FailToRun, Announce, Fail, NoticeCancel, LastCheckpoint,
         PublishAnalysis, FindCancelled, EndCheck, Report, Unregister, Settle
<1> QED
  BY <1>1, <1>2, <1>3

\* What was true of the others stays true.
LEMMA OtherThreads ==
  ASSUME IInv, NEW p \in Post, Thread(p), NEW q \in Post \ {p}
  PROVE  ThreadIsTrue(q)' /\ StopHolds(q)'
<1>1. ThreadOnly(p) /\ (lock' = q <=> lock = q)
  BY LockOfOthers, ThreadsAreTyped DEF IInv
<1>2. ThreadIsTrue(q) /\ StopHolds(q)
  BY DEF IInv
<1> QED
  BY <1>1, <1>2 DEF ThreadOnly, ThreadIsTrue, StopHolds

\* What is true of a worker stays true through its own steps.
LEMMA OwnThread ==
  ASSUME IInv, NEW p \in Post, Thread(p)
  PROVE  ThreadIsTrue(p)' /\ StopHolds(p)'
<1>0. /\ worker \in [Post -> Places] /\ row \in [Post -> Rows] /\ row[p] \in Rows /\ ack \in [Post -> {"empty", "job", "error"}]
      /\ lock \in Post \cup {None} /\ None \notin Post
      /\ ThreadIsTrue(p) /\ StopHolds(p)
  BY HTTPAssumption DEF IInv, Typed, TypeOK, Rows, Places
<1> USE DEF workerOnly, Work, End, handling, registry, ThreadIsTrue, StopHolds, Held, Over, Gone, Rows
<1>1. CASE FailToClaim(p)
  BY <1>0, <1>1 DEF FailToClaim, Terminal, Active
<1>2. CASE Claim(p)
  BY <1>0, <1>2 DEF Claim, Terminal, Active
<1>3. CASE Conflict(p)
  BY <1>0, <1>3 DEF Conflict, Terminal, Active
<1>4. CASE Insert(p)
  BY <1>0, <1>4 DEF Insert, Terminal, Active
<1>5. CASE Run(p)
  BY <1>0, <1>5 DEF Run, Terminal, Active
<1>6. CASE FailToRun(p)
  <2>1. row' = [row EXCEPT ![p] = Ended(@, "FAILED")] /\ worker'[p] = "leaving" /\ worker[p] \in {"queued", "working", "committing"}
    BY <1>0, <1>6 DEF FailToRun
  <2>2. row'[p] = Ended(row[p], "FAILED") /\ row'[p].status \in Terminal
    BY <2>1, Ending DEF IInv, Terminal
  <2>3. row[p].status # "COMPLETED" => row'[p].status # "COMPLETED"
    BY <1>0, <2>2 DEF Ended
  <2>4. UNCHANGED <<lock, known, workers, settled, handler, ack, stop, late, operation>>
    BY <1>6 DEF FailToRun
  <2> QED
    BY <1>0, <2>1, <2>2, <2>3, <2>4
<1>7. CASE Announce(p)
  BY <1>0, <1>7 DEF Announce, Terminal, Active
<1>8. CASE Fail(p)
  <2>1. row' = [row EXCEPT ![p] = Ended(@, "FAILED")] /\ worker'[p] = "leaving" /\ worker[p] \in {"queued", "working", "committing"}
    BY <1>0, <1>8 DEF Fail
  <2>2. row'[p] = Ended(row[p], "FAILED") /\ row'[p].status \in Terminal
    BY <2>1, Ending DEF IInv, Terminal
  <2>3. row[p].status # "COMPLETED" => row'[p].status # "COMPLETED"
    BY <1>0, <2>2 DEF Ended
  <2>4. UNCHANGED <<lock, known, workers, settled, handler, ack, stop, late, operation>>
    BY <1>8 DEF Fail
  <2> QED
    BY <1>0, <2>1, <2>2, <2>3, <2>4
<1>9. CASE NoticeCancel(p)
  <2>1. row'[p].status = "CANCELLED" /\ worker'[p] = "leaving" /\ worker[p] = "working"
    BY <1>0, <1>9 DEF NoticeCancel
  <2>2. UNCHANGED <<lock, known, workers, settled, handler, ack, stop, late, operation>>
    BY <1>9 DEF NoticeCancel
  <2> QED
    BY <1>0, <2>1, <2>2
<1>10. CASE LastCheckpoint(p)
  BY <1>0, <1>10 DEF LastCheckpoint, Interrupted
<1>11. CASE PublishAnalysis(p)
  <2>1. PICK s \in Terminal : row' = [row EXCEPT ![p] = Ended(@, s)] /\ (s = "COMPLETED" => PublishAnalysis(p) /\ worker[p] = "committing")
    BY <1>11 DEF PublishAnalysis, Terminal
  <2>2. row'[p] = Ended(row[p], s) /\ row'[p].status \in Terminal
    BY <2>1, Ending DEF IInv
  <2> QED
    BY <1>0, <1>11, <2>1, <2>2 DEF PublishAnalysis
<1>12. CASE FindCancelled(p)
  <2>1. PICK s \in Terminal : row' = [row EXCEPT ![p] = Ended(@, s)] /\ (s = "COMPLETED" => FindCancelled(p) /\ worker[p] = "committing")
    BY <1>12 DEF FindCancelled, Terminal
  <2>2. row'[p] = Ended(row[p], s) /\ row'[p].status \in Terminal
    BY <2>1, Ending DEF IInv
  <2> QED
    BY <1>0, <1>12, <2>1, <2>2 DEF FindCancelled
<1>13. CASE EndCheck(p)
  <2>1. PICK s \in Terminal : row' = [row EXCEPT ![p] = Ended(@, s)] /\ (s = "COMPLETED" => EndCheck(p) /\ worker[p] = "committing")
    BY <1>13 DEF EndCheck, Terminal
  <2>2. row'[p] = Ended(row[p], s) /\ row'[p].status \in Terminal
    BY <2>1, Ending DEF IInv
  <2> QED
    BY <1>0, <1>13, <2>1, <2>2 DEF EndCheck
<1>14. CASE Unlock(p)
  BY <1>0, <1>14 DEF Unlock, Terminal, Active
<1>15. CASE Report(p)
  BY <1>0, <1>15 DEF Report, Terminal, Active
<1>16. CASE Unregister(p)
  BY <1>0, <1>16 DEF Unregister, Terminal, Active
<1>17. CASE Settle(p)
  BY <1>0, <1>17 DEF Settle, Terminal, Active
<1> QED
  BY <1>1, <1>2, <1>3, <1>4, <1>5, <1>6, <1>7, <1>8, <1>9, <1>10, <1>11, <1>12, <1>13, <1>14, <1>15, <1>16, <1>17 DEF Thread
\* A worker that is done stays done, and is announced no more.
LEMMA OverStaysOver ==
  ASSUME IInv, NEW p \in Post, Thread(p), NEW q \in Post, worker[q] \in Over
  PROVE  /\ worker'[q] \in Over /\ (q \in known' <=> q \in known)
         /\ worker[q] \in Gone => worker'[q] \in Gone
<1>1. ThreadOnly(p)
  BY ThreadsAreTyped DEF IInv
<1>2. CASE q # p
  BY <1>1, <1>2 DEF ThreadOnly
<1>3. CASE q = p
  <2>1. Unlock(p) \/ Report(p) \/ Unregister(p) \/ Settle(p)
    BY <1>3 DEF Thread, FailToClaim, Claim, Conflict, Insert, Run, FailToRun, Announce, Fail, NoticeCancel,
                LastCheckpoint, PublishAnalysis, FindCancelled, EndCheck, End, Work, Over
  <2>2. worker \in [Post -> Places]
    BY DEF IInv, Typed, TypeOK, Places
  <2> QED
    BY <1>3, <2>1, <2>2 DEF Unlock, Report, Unregister, Settle, Work, Over, Gone
<1> QED
  BY <1>2, <1>3

\* Pollers and shutdown find what they have seen still true.
LEMMA ThreadsKeep ==
  ASSUME IInv, NEW p \in Post, Thread(p)
  PROVE  IInv'
<1>1. ThreadOnly(p)
  BY ThreadsAreTyped DEF IInv
<1>2. ASSUME NEW q \in Post PROVE ThreadIsTrue(q)' /\ StopHolds(q)'
  BY OwnThread, OtherThreads
<1>3. ASSUME NEW c \in Poller PROVE PollIsTrue(c)'
  <2>1. poll' = poll /\ PollIsTrue(c)
    BY <1>1 DEF ThreadOnly, polling, IInv
  <2>2. CASE poll[c].at = "idle"
    BY <2>1, <2>2 DEF PollIsTrue
  <2>3. CASE poll[c].at # "idle"
    <3>1. poll[c].job \in Post /\ worker[poll[c].job] \in Over
      BY <2>1, <2>3 DEF PollIsTrue
    <3>2. /\ worker'[poll[c].job] \in Over /\ (poll[c].job \in known' <=> poll[c].job \in known)
          /\ worker[poll[c].job] \in Gone => worker'[poll[c].job] \in Gone
      BY <3>1, OverStaysOver
    <3> QED
      BY <2>1, <3>1, <3>2 DEF PollIsTrue
  <2> QED
    BY <2>2, <2>3
<1>4. Closing'
  BY <1>1 DEF IInv, Closing, ThreadOnly, shutdown
<1>5. TypeOK'
  BY <1>1 DEF ThreadOnly, shutdown, IInv, Typed, TypeOK, Rows, Places
<1>6. PollTyped'
  BY <1>1 DEF ThreadOnly, polling, IInv, Typed, PollTyped
<1> QED
  BY <1>2, <1>3, <1>4, <1>5, <1>6 DEF IInv, Typed

\* A request is taken: the handler waits, and its worker starts.
LEMMA StartKeeps ==
  ASSUME IInv, NEW p \in Post, NEW o \in Operation, Start(p, o)
  PROVE  IInv'
<1>0. worker \in [Post -> Places] /\ handler \in [Post -> {"idle", "waiting", "late", "accepted", "refused"}]
      /\ operation \in [Post -> Operation \cup {None}]
  BY DEF IInv, Typed, TypeOK, Places
<1>1. /\ worker' = [worker EXCEPT ![p] = "opening"] /\ handler' = [handler EXCEPT ![p] = "waiting"]
      /\ operation' = [operation EXCEPT ![p] = o] /\ workers' = workers \cup {p}
      /\ worker[p] = "idle" /\ closer = "open"
      /\ UNCHANGED <<situation, ack, lock, row, failed, known, stop, settled, poll, closer, closing, current, late>>
  BY DEF Start, Work, polling, shutdown
<1>2. ASSUME NEW q \in Post PROVE ThreadIsTrue(q)' /\ StopHolds(q)'
  <2>1. ThreadIsTrue(q) /\ StopHolds(q) /\ ThreadIsTrue(p)
    BY DEF IInv
  <2>2. CASE q = p
    BY <1>0, <1>1, <2>1, <2>2 DEF ThreadIsTrue, StopHolds, Held, Over, Gone
  <2>3. CASE q # p
    BY <1>0, <1>1, <2>1, <2>3 DEF ThreadIsTrue, StopHolds
  <2> QED
    BY <2>2, <2>3
<1>3. ASSUME NEW c \in Poller PROVE PollIsTrue(c)'
  <2>1. PollIsTrue(c)
    BY DEF IInv
  <2>2. worker[p] \notin Over
    BY <1>1 DEF Over
  <2> QED
    BY <1>0, <1>1, <2>1, <2>2 DEF PollIsTrue
<1>4. Closing'
  BY <1>1 DEF Closing
<1>5. TypeOK'
  BY <1>0, <1>1 DEF IInv, Typed, TypeOK, Places, Ahead
<1>6. PollTyped'
  BY <1>1 DEF IInv, Typed, PollTyped
<1> QED
  BY <1>2, <1>3, <1>4, <1>5, <1>6 DEF IInv, Typed

\* The handler refuses, answers, gives up or is late.
LEMMA HandlersKeep ==
  ASSUME IInv, NEW p \in Post, Refuse(p) \/ Handler(p)
  PROVE  IInv'
<1>0. /\ handler \in [Post -> {"idle", "waiting", "late", "accepted", "refused"}]
      /\ ack \in [Post -> {"empty", "job", "error"}]
  BY DEF IInv, Typed, TypeOK
<1>1. /\ UNCHANGED <<situation, operation, worker, lock, row, failed, known, workers, settled, poll, closer, closing, current>>
      /\ \E h \in {"late", "accepted", "refused"} : handler' = [handler EXCEPT ![p] = h]
      /\ ack' = ack \/ ack' = [ack EXCEPT ![p] = "empty"]
      /\ \/ UNCHANGED <<stop, late>>
         \/ handler[p] # "idle" /\ Stopped(p)
  BY DEF Refuse, Handler, Answer, TimeOut, GiveUp, working, registry, polling, shutdown
<1>2. handler[p] # "waiting" /\ handler[p] # "late" => handler[p] = "idle"
  BY DEF Refuse, Handler, Answer, TimeOut, GiveUp
<1>3. handler'[p] = "refused" => \/ handler[p] = "idle" \/ p \in stop' \/ ack[p] = "error"
  BY <1>0 DEF Refuse, Handler, Answer, TimeOut, GiveUp, Stopped
<1>4. stop \subseteq stop' /\ late \subseteq late' /\ stop' \subseteq stop \cup {p} /\ late' \subseteq late \cup {p}
      /\ (p \in late' \ late => p \in stop' /\ worker[p] \in Ahead)
  BY <1>1 DEF Stopped
<1>5. ASSUME NEW q \in Post PROVE ThreadIsTrue(q)' /\ StopHolds(q)'
  <2>1. ThreadIsTrue(q) /\ StopHolds(q)
    BY DEF IInv
  <2>2. CASE q = p
    <3>1. ThreadIsTrue(q)'
      BY <1>0, <1>1, <1>2, <1>3, <1>4, <2>1, <2>2 DEF ThreadIsTrue
    <3>2. row[p].status \in Terminal => worker[p] \notin Ahead
      BY <2>1, <2>2 DEF ThreadIsTrue, Over, Ahead
    <3>3. StopHolds(q)'
      BY <1>1, <1>4, <2>1, <2>2, <3>2 DEF StopHolds, Ahead, Terminal
    <3> QED
      BY <3>1, <3>3
  <2>3. CASE q # p
    BY <1>0, <1>1, <1>4, <2>1, <2>3 DEF ThreadIsTrue, StopHolds
  <2> QED
    BY <2>2, <2>3
<1>6. ASSUME NEW c \in Poller PROVE PollIsTrue(c)'
  BY <1>1 DEF IInv, PollIsTrue
<1>7. Closing'
  BY <1>1, <1>4 DEF IInv, Closing
<1>8. TypeOK'
  BY <1>0, <1>1, <1>4 DEF IInv, Typed, TypeOK
<1>9. PollTyped'
  BY <1>1 DEF IInv, Typed, PollTyped
<1> QED
  BY <1>5, <1>6, <1>7, <1>8, <1>9 DEF IInv, Typed

\* A cancellation is written into a row that is not over.
LEMMA CancelledRow ==
  ASSUME Typed, NEW p \in Post, Cancelled(p)
  PROVE  row' \in [Post -> Rows] /\ \A q \in Post : row'[q].status = row[q].status
<1>1. row \in [Post -> Rows] /\ row[p] \in Rows
  BY DEF Typed, TypeOK, Rows
<1> DEFINE b == row[p].cancel \/ row[p].status \in Active
<1>2. row' = [row EXCEPT ![p].cancel = b]
  BY DEF Cancelled
<1>3. b \in BOOLEAN
  BY <1>1 DEF Rows
<1> HIDE DEF b
<1>4. [row[p] EXCEPT !.cancel = b] \in Rows /\ [row[p] EXCEPT !.cancel = b].status = row[p].status
  BY <1>1, <1>3 DEF Rows
<1> QED
  BY <1>1, <1>2, <1>4

\* Cancelling by a client, or by shutdown, changes no status.
LEMMA CancelsKeep ==
  ASSUME IInv, row' \in [Post -> Rows], \A q \in Post : row'[q].status = row[q].status,
         UNCHANGED <<situation, operation, handler, ack, worker, lock, failed, known, stop, workers, settled, poll,
                     closing, late>>,
         closer' = closer \/ closer' = "broken", current' \in Post \cup {None}
  PROVE  IInv'
<1>1. ASSUME NEW q \in Post PROVE ThreadIsTrue(q)' /\ StopHolds(q)'
  BY DEF IInv, ThreadIsTrue, StopHolds
<1>2. ASSUME NEW c \in Poller PROVE PollIsTrue(c)'
  BY DEF IInv, PollIsTrue
<1>3. Closing'
  BY DEF IInv, Closing
<1>4. TypeOK'
  BY DEF IInv, Typed, TypeOK, Rows
<1>5. PollTyped'
  BY DEF IInv, Typed, PollTyped
<1> QED
  BY <1>1, <1>2, <1>3, <1>4, <1>5 DEF IInv, Typed

LEMMA CancellingKeeps ==
  ASSUME IInv, NEW p \in Post, Cancel(p)
  PROVE  IInv'
<1>1. row' \in [Post -> Rows] /\ \A q \in Post : row'[q].status = row[q].status
  BY CancelledRow DEF Cancel, IInv
<1>2. UNCHANGED <<situation, operation, handler, ack, worker, lock, failed, known, stop, workers, settled, poll,
                  closing, late, closer, current>>
  BY DEF Cancel, handling, registry, polling, shutdown
<1>3. current' \in Post \cup {None}
  BY <1>2 DEF IInv, Typed, TypeOK
<1> QED
  BY <1>1, <1>2, <1>3, CancelsKeep

\* Shutdown cancels the job of the worker it stopped, or breaks over it.
LEMMA StoppingKeeps ==
  ASSUME IInv, CancelStopped \/ Break
  PROVE  IInv'
<1>0. row \in [Post -> Rows] /\ current \in Post \cup {None}
  BY DEF IInv, Typed, TypeOK, Rows
<1>1. UNCHANGED <<situation, operation, handler, ack, worker, lock, failed, known, stop, workers, settled, poll,
                  closing, late>>
  BY DEF CancelStopped, Break, handling, working, registry, polling
<1>2. (closer' = closer \/ closer' = "broken") /\ current' \in Post \cup {None}
  BY DEF CancelStopped, Break
<1>3. row' \in [Post -> Rows] /\ \A q \in Post : row'[q].status = row[q].status
  <2>1. CASE row' = row
    BY <1>0, <2>1
  <2>2. CASE current # None /\ Cancelled(current)
    BY <1>0, <2>2, CancelledRow DEF IInv
  <2> QED
    BY <2>1, <2>2 DEF CancelStopped, Break, working
<1> QED
  BY <1>1, <1>2, <1>3, CancelsKeep

\* A poller's step is about that poller alone.
LEMMA PollersKeep ==
  ASSUME IInv, NEW c \in Poller, NEW r, poll' = [poll EXCEPT ![c] = r],
         r \in [at : {"idle", "ended", "waiting", "told"}, job : Post \cup {None}, events : SUBSET Post, inTime : BOOLEAN],
         UNCHANGED pollOnly, PollIsTrue(c)'
  PROVE  IInv'
<1>1. UNCHANGED <<situation, operation, handler, ack, lock, row, worker, failed, known, stop, workers, settled,
                  closer, closing, current, late>>
  BY DEF pollOnly, handling, working, registry, shutdown
<1>2. ASSUME NEW q \in Post PROVE ThreadIsTrue(q)' /\ StopHolds(q)'
  BY <1>1 DEF IInv, ThreadIsTrue, StopHolds
<1>3. PollTyped'
  BY DEF IInv, Typed, PollTyped
<1>4. ASSUME NEW d \in Poller \ {c} PROVE PollIsTrue(d)'
  <2>1. poll'[d] = poll[d]
    BY DEF IInv, Typed, PollTyped
  <2>2. PollIsTrue(d)
    BY DEF IInv
  <2> QED
    BY <1>1, <2>1, <2>2 DEF PollIsTrue
<1>5. Closing'
  BY <1>1 DEF IInv, Closing
<1>6. TypeOK'
  BY <1>1 DEF IInv, Typed, TypeOK
<1> QED
  BY <1>2, <1>3, <1>4, <1>5, <1>6 DEF IInv, Typed

\* What a poller finds, collects and is told is so.
LEMMA PollingKeeps ==
  ASSUME IInv, NEW c \in Poller, Poll(c) \/ \E p \in Post : FindEnded(c, p)
  PROVE  IInv'
<1> DEFINE Polls == [at : {"idle", "ended", "waiting", "told"}, job : Post \cup {None}, events : SUBSET Post, inTime : BOOLEAN]
<1>0. poll \in [Poller -> Polls] /\ poll[c] \in Polls /\ PollIsTrue(c)
  BY DEF IInv, Typed, PollTyped
<1>1. ASSUME NEW p \in Post, FindEnded(c, p) PROVE IInv'
  <2> DEFINE r == [NoPoll EXCEPT !.at = "ended", !.job = p]
  <2>1. poll' = [poll EXCEPT ![c] = r] /\ UNCHANGED pollOnly
    BY <1>1 DEF FindEnded
  <2>2. r \in Polls /\ r.at = "ended" /\ r.job = p
    BY DEF NoPoll
  <2> HIDE DEF r
  <2>3. worker[p] \in Over
    BY <1>1 DEF FindEnded, IInv, ThreadIsTrue
  <2>4. poll'[c] = r /\ worker' = worker
    BY <1>0, <2>1 DEF pollOnly, working
  <2>5. PollIsTrue(c)'
    BY <2>2, <2>3, <2>4 DEF PollIsTrue
  <2> QED
    BY <2>1, <2>2, <2>5, PollersKeep
<1>2. CASE Collect(c)
  <2> DEFINE r == [poll[c] EXCEPT !.at = "waiting", !.events = {poll[c].job} \cap workers \cap known]
  <2>1. poll' = [poll EXCEPT ![c] = r] /\ UNCHANGED pollOnly /\ poll[c].at = "ended"
    BY <1>0, <1>2 DEF Collect
  <2>2. /\ r \in Polls /\ r.at = "waiting" /\ r.job = poll[c].job
        /\ r.events = {poll[c].job} \cap workers \cap known
    <3>1. {poll[c].job} \cap workers \cap known \in SUBSET Post
      BY DEF IInv, Typed, TypeOK
    <3> QED
      BY <1>0, <3>1
  <2> HIDE DEF r
  <2>3. poll'[c] = r /\ worker' = worker /\ known' = known
    BY <1>0, <2>1 DEF pollOnly, working
  <2>4. poll[c].job \in Post /\ worker[poll[c].job] \in Over
    BY <1>0, <2>1 DEF PollIsTrue
  <2>5. poll[c].job \in workers \/ worker[poll[c].job] \in Gone
    BY <2>4 DEF IInv, ThreadIsTrue, Over, Gone
  <2>6. PollIsTrue(c)'
    BY <2>2, <2>3, <2>4, <2>5 DEF PollIsTrue
  <2> QED
    BY <2>1, <2>2, <2>6, PollersKeep
<1>3. CASE Tell(c)
  <2> DEFINE r == [poll[c] EXCEPT !.at = "told"]
  <2>1. poll' = [poll EXCEPT ![c] = r] /\ UNCHANGED pollOnly /\ poll[c].at = "waiting" /\ poll[c].events \subseteq settled
    BY <1>0, <1>3 DEF Tell
  <2>2. r \in Polls /\ r.at = "told" /\ r.job = poll[c].job
    BY <1>0
  <2> HIDE DEF r
  <2>3. poll'[c] = r /\ worker' = worker /\ known' = known
    BY <1>0, <2>1 DEF pollOnly, working
  <2>4. poll[c].job \in Post /\ worker[poll[c].job] \in Over
        /\ (poll[c].job \in known => poll[c].job \in poll[c].events \/ worker[poll[c].job] \in Gone)
    BY <1>0, <2>1 DEF PollIsTrue
  <2>5. poll[c].job \in settled => worker[poll[c].job] \in Gone
    BY <2>4 DEF IInv, ThreadIsTrue, Gone
  <2>6. PollIsTrue(c)'
    BY <2>1, <2>2, <2>3, <2>4, <2>5 DEF PollIsTrue
  <2> QED
    BY <2>1, <2>2, <2>6, PollersKeep
<1>4. CASE TellLate(c)
  <2> DEFINE r == [poll[c] EXCEPT !.at = "told", !.inTime = FALSE]
  <2>1. poll' = [poll EXCEPT ![c] = r] /\ UNCHANGED pollOnly /\ poll[c].at = "waiting"
    BY <1>0, <1>4 DEF TellLate
  <2>2. r \in Polls /\ r.at = "told" /\ r.job = poll[c].job /\ ~r.inTime
    BY <1>0
  <2> HIDE DEF r
  <2>3. poll'[c] = r /\ worker' = worker /\ known' = known
    BY <1>0, <2>1 DEF pollOnly, working
  <2>4. PollIsTrue(c)'
    BY <1>0, <2>1, <2>2, <2>3 DEF PollIsTrue
  <2> QED
    BY <2>1, <2>2, <2>4, PollersKeep
<1> QED
  BY <1>1, <1>2, <1>3, <1>4 DEF Poll

\* Shutdown begins, tells one worker after the other to stop, and is through.
LEMMA ShutdownKeeps ==
  ASSUME IInv, Close \/ Closed \/ \E p \in Post : StopNext(p)
  PROVE  IInv'
<1>1. ASSUME Close \/ Closed PROVE IInv'
  <2>1. UNCHANGED <<situation, operation, handler, ack, lock, row, worker, failed, known, stop, workers, settled,
                    poll, current, late>>
    BY <1>1 DEF Close, Closed, handling, working, registry, polling
  <2>2. Closing' /\ closing' \in SUBSET Post /\ closer' \in {"stopping", "closed"}
    BY <1>1 DEF Close, Closed, registry, Closing, IInv, Typed, TypeOK
  <2>3. ASSUME NEW q \in Post PROVE ThreadIsTrue(q)' /\ StopHolds(q)'
    BY <2>1 DEF IInv, ThreadIsTrue, StopHolds
  <2>4. ASSUME NEW c \in Poller PROVE PollIsTrue(c)'
    BY <2>1 DEF IInv, PollIsTrue
  <2>5. Typed'
    BY <2>1, <2>2 DEF IInv, Typed, TypeOK, PollTyped
  <2> QED
    BY <2>2, <2>3, <2>4, <2>5 DEF IInv
<1>2. ASSUME NEW p \in Post, StopNext(p) PROVE IInv'
  <2>1. /\ UNCHANGED <<situation, operation, handler, ack, lock, row, worker, failed, known, workers, settled, poll, closer>>
        /\ stop' = stop \cup {p} /\ closing' = closing \ {p} /\ current' = p
        /\ late' = IF worker[p] \in Ahead THEN late \cup {p} ELSE late
        /\ p \in closing /\ closer = "stopping"
    BY <1>2 DEF StopNext, Stopped, handling, working, polling
  <2>2. ASSUME NEW q \in Post PROVE ThreadIsTrue(q)' /\ StopHolds(q)'
    <3>1. ThreadIsTrue(q) /\ StopHolds(q)
      BY DEF IInv
    <3>2. ThreadIsTrue(q)'
      BY <2>1, <3>1 DEF ThreadIsTrue
    <3>3. row[q].status \in Terminal => worker[q] \notin Ahead
      BY <3>1 DEF ThreadIsTrue, Over, Ahead
    <3>4. StopHolds(q)'
      BY <2>1, <3>1, <3>3 DEF StopHolds, Ahead, Terminal
    <3> QED
      BY <3>2, <3>4
  <2>3. ASSUME NEW c \in Poller PROVE PollIsTrue(c)'
    BY <2>1 DEF IInv, PollIsTrue
  <2>4. Closing'
    BY <2>1 DEF IInv, Closing
  <2>5. Typed'
    BY <2>1 DEF IInv, Typed, TypeOK, PollTyped
  <2> QED
    BY <2>2, <2>3, <2>4, <2>5 DEF IInv
<1> QED
  BY <1>1, <1>2

LEMMA IInvAlways == Spec => []IInv
<1>1. Init => IInv
  <2> SUFFICES ASSUME Init PROVE IInv
    OBVIOUS
  <2>1. TypeOK
    BY DEF Init, TypeOK, NoRow, Rows
  <2>2. PollTyped
    BY DEF Init, PollTyped, NoPoll
  <2>3. ASSUME NEW p \in Post PROVE ThreadIsTrue(p) /\ StopHolds(p)
    BY HTTPAssumption DEF Init, ThreadIsTrue, StopHolds, Held, Over, Gone, NoRow, Terminal
  <2>4. ASSUME NEW c \in Poller PROVE PollIsTrue(c)
    BY DEF Init, PollIsTrue, NoPoll
  <2>5. Closing
    BY DEF Init, Closing
  <2> QED
    BY <2>1, <2>2, <2>3, <2>4, <2>5 DEF IInv, Typed
<1>2. IInv /\ [Next]_vars => IInv'
  <2> SUFFICES ASSUME IInv, [Next]_vars PROVE IInv'
    OBVIOUS
  <2>1. ASSUME NEW p \in Post, NEW o \in Operation, Start(p, o) PROVE IInv'
    BY <2>1, StartKeeps
  <2>2. ASSUME NEW p \in Post, Refuse(p) \/ Handler(p) PROVE IInv'
    BY <2>2, HandlersKeep
  <2>3. ASSUME NEW p \in Post, Thread(p) PROVE IInv'
    BY <2>3, ThreadsKeep
  <2>4. ASSUME NEW p \in Post, Cancel(p) PROVE IInv'
    BY <2>4, CancellingKeeps
  <2>5. ASSUME NEW c \in Poller, Poll(c) \/ \E p \in Post : FindEnded(c, p) PROVE IInv'
    BY <2>5, PollingKeeps
  <2>6. CASE Close \/ Shutdown
    BY <2>6, ShutdownKeeps, StoppingKeeps DEF Shutdown
  <2>7. CASE ReadSome \/ UNCHANGED vars
    <3>1. UNCHANGED <<situation, operation, handler, ack, lock, row, worker, failed, known, stop, workers, settled,
                      poll, closer, closing, current, late>>
      BY <2>7 DEF ReadSome, vars, handling, working, registry, polling, shutdown
    <3>2. ASSUME NEW q \in Post PROVE ThreadIsTrue(q)' /\ StopHolds(q)'
      BY <3>1 DEF IInv, ThreadIsTrue, StopHolds
    <3>3. ASSUME NEW c \in Poller PROVE PollIsTrue(c)'
      BY <3>1 DEF IInv, PollIsTrue
    <3>4. Typed' /\ Closing'
      BY <3>1 DEF IInv, Typed, TypeOK, PollTyped, Closing
    <3> QED
      BY <3>2, <3>3, <3>4 DEF IInv
  <2> QED
    BY <2>1, <2>2, <2>3, <2>4, <2>5, <2>6, <2>7 DEF Next
<1> QED
  BY <1>1, <1>2, PTL DEF Spec

\* A client told in time that an announced job is over (get_project_job and
\* _settle), and one refused by a worker that was not told to stop (_start),
\* find that worker off the project lock, for any number of requests and pollers.
THEOREM SettledMeansTheLockIsFree == Spec => []SettledMeansFree
<1>1. IInv => SettledMeansFree
  BY DEF IInv, PollIsTrue, ThreadIsTrue, SettledMeansFree, Held, Over, Gone
<1> QED
  BY <1>1, IInvAlways, PTL

\* An analysis told to stop before its last checkpoint (_start's time-out,
\* close()) never publishes, and close() that went through has told every
\* registered worker, for any number of requests and any interleaving.
THEOREM AStoppedWorkerPublishesNothing == Spec => []StoppedPublishesNothing
<1>1. IInv => StoppedPublishesNothing
  <2> SUFFICES ASSUME IInv PROVE StoppedPublishesNothing
    OBVIOUS
  <2>1. late \subseteq Post
    BY DEF IInv, Typed, TypeOK
  <2> QED
    BY <2>1 DEF IInv, StopHolds, Closing, StoppedPublishesNothing
<1> QED
  BY <1>1, IInvAlways, PTL
=============================================================================
