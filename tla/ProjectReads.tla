----------------------------- MODULE ProjectReads -----------------------------
(***************************************************************************)
(* How the project interface reads an assessment (project_http.py,         *)
(* project_service.py, project_assessment.py, project_projection.py).      *)
(*                                                                         *)
(* A read is three steps over a database that others write: the freshness  *)
(* answer (the descriptor, then the newest completed check), the           *)
(* assessment in one read transaction, marked stale when the answer does   *)
(* not vouch for it, and the projection prepared from it, which a cache    *)
(* of the process keeps under a key.                                       *)
(***************************************************************************)
EXTENDS Naturals, Sequences, SequencesExt

CONSTANTS
  Reader,      \* the requests that read
  Kept,        \* ProjectionCache.max_entries
  MaxReviews,  \* bound: review decisions
  MaxReads,    \* bound: reads
  MaxElsewhere \* bound: analyses and checks by other processes

ASSUME ReadsAssumption ==
  /\ Kept \in Nat \ {0}
  /\ MaxReviews \in Nat /\ MaxReads \in Nat /\ MaxElsewhere \in Nat

VARIABLES
  analysis,  \* modernization_project.analysis_revision
  review,    \* modernization_project.review_revision
  check,     \* the newest freshness check that completed
  cache,     \* ProjectionCache._values, the least recently used first
  read,      \* where each reading request is
  reads,     \* reads begun
  elsewhere, \* analyses and checks by other processes
  vouched    \* history: the assessments a completed check called CURRENT

project == <<analysis, review, check, vouched>>
readers == <<cache, read, reads>>
readsVars == <<project, readers, elsewhere>>

\* freshness: what _freshness answered; taken: the snapshot; shown: the answer.
NoRead == [at |-> "idle", revision |-> 0, freshness |-> "UNVERIFIED", checked |-> 0,
           taken |-> [analysis |-> 0, review |-> 0, stale |-> FALSE],
           shown |-> [analysis |-> 0, review |-> 0, stale |-> FALSE]]

InitReads ==
  /\ analysis = 1 /\ review = 0
  /\ check \in {[revision |-> 0, status |-> "UNVERIFIED"], [revision |-> 1, status |-> "CURRENT"]}
  /\ cache = <<>>
  /\ read = [r \in Reader |-> NoRead]
  /\ reads = 0 /\ elsewhere = 0
  /\ vouched = {check.revision} \ {0}

-----------------------------------------------------------------------------
(* The writers, whose workers are modelled elsewhere *)

Publish ==
  /\ analysis' = analysis + 1
  /\ UNCHANGED <<review, check, vouched>>

\* A check runs under the worker lock: it is about the assessment that is there.
RecordCheck(status) ==
  /\ check' = [revision |-> analysis, status |-> status]
  /\ vouched' = IF status = "CURRENT" THEN vouched \cup {analysis} ELSE vouched
  /\ UNCHANGED <<analysis, review>>

\* The command line analyses or checks the project in a process of its own.
WriteElsewhere ==
  /\ elsewhere < MaxElsewhere /\ elsewhere' = elsewhere + 1
  /\ Publish \/ \E status \in {"CURRENT", "STALE"} : RecordCheck(status)
  /\ UNCHANGED readers

Decide ==
  /\ review < MaxReviews
  /\ review' = review + 1
  /\ UNCHANGED <<analysis, check, vouched, readers, elsewhere>>

-----------------------------------------------------------------------------
(* The cache *)

\* Slip: a key that does not name the assessment.
KeyWithoutRevision(d) == [analysis |-> 0, review |-> read[d].taken.review,
                          freshness |-> read[d].freshness]

\* projection_key: what a prepared projection is kept under.
Key(d) == [analysis |-> read[d].taken.analysis, review |-> read[d].taken.review,
           freshness |-> read[d].freshness]

Holding(k) == {i \in DOMAIN cache : cache[i].key = k}

\* An entry is used: it becomes the most recent one.
Touched(i) == Append(RemoveAt(cache, i), cache[i])

\* A new entry goes in and the oldest ones go out.
Added(entry) ==
  LET q == Append(cache, entry)
  IN IF Len(q) > Kept THEN SubSeq(q, Len(q) - Kept + 1, Len(q)) ELSE q

-----------------------------------------------------------------------------
(* One read *)

Reading(d, from, to) == read[d].at = from /\ read' = [read EXCEPT ![d].at = to]

\* _freshness, first: the descriptor that says which assessment is the newest.
ReadDescriptor(d) ==
  /\ read[d].at = "idle"
  /\ reads < MaxReads /\ reads' = reads + 1
  /\ read' = [read EXCEPT ![d] = [NoRead EXCEPT !.at = "descriptor", !.revision = analysis]]
  /\ UNCHANGED <<project, cache, elsewhere>>

\* _freshness, then: the newest completed check, if it is about that assessment.
ReadCheck(d) ==
  /\ read[d].at = "descriptor"
  /\ read' = [read EXCEPT ![d].at = "freshness",
                          ![d].checked = read[d].revision,
                          ![d].freshness = IF check.revision = read[d].revision THEN check.status
                                           ELSE "UNVERIFIED"]
  /\ UNCHANGED <<project, cache, reads, elsewhere>>

\* What current_assessment requires of the answer not to mark the assessment.
Vouches(d) == read[d].freshness = "CURRENT" /\ read[d].checked = analysis

\* current_assessment: one snapshot of assessment and reviews.
TakeSnapshot(d) ==
  /\ read[d].at = "freshness"
  /\ read' = [read EXCEPT ![d].at = "snapshot",
                          ![d].taken = [analysis |-> analysis, review |-> review, stale |-> ~Vouches(d)]]
  /\ UNCHANGED <<project, cache, reads, elsewhere>>

\* get_or_build: an entry under the key is the answer.
Hit(d) ==
  /\ read[d].at \in {"snapshot", "built"}
  /\ \E i \in Holding(Key(d)) :
       /\ cache' = Touched(i)
       /\ read' = [read EXCEPT ![d].at = "answered", ![d].shown = cache[i].shown]
  /\ UNCHANGED <<project, reads, elsewhere>>

\* There is none: the projection is prepared outside the lock.
Build(d) ==
  /\ Holding(Key(d)) = {}
  /\ Reading(d, "snapshot", "built")
  /\ UNCHANGED <<project, cache, reads, elsewhere>>

\* Nobody was faster: the prepared projection goes in.
Store(d) ==
  /\ read[d].at = "built" /\ Holding(Key(d)) = {}
  /\ cache' = Added([key |-> Key(d), shown |-> read[d].taken])
  /\ read' = [read EXCEPT ![d].at = "answered", ![d].shown = read[d].taken]
  /\ UNCHANGED <<project, reads, elsewhere>>

Forget(d) ==
  /\ read[d].at = "answered"
  /\ read' = [read EXCEPT ![d] = NoRead]
  /\ UNCHANGED <<project, cache, reads, elsewhere>>

ReadOn(d) == ReadCheck(d) \/ TakeSnapshot(d) \/ Hit(d) \/ Build(d) \/ Store(d) \/ Forget(d)

-----------------------------------------------------------------------------
(* Properties *)

Answers == {read[d] : d \in {e \in Reader : read[e].at = "answered"}}

\* However reads, checks, reviews and new analyses interleave, and whoever put
\* the projection into the cache: an answer is about the assessment and the
\* reviews of the request's own snapshot, and it is shown without the stale mark
\* only if a completed check found that very assessment CURRENT.  The cache
\* holds one projection per key, and no more than it may.
ShownCurrentWasChecked ==
  /\ \A a \in Answers :
       /\ a.shown.analysis = a.taken.analysis /\ a.shown.review = a.taken.review
       /\ ~a.shown.stale => a.shown.analysis \in vouched
  /\ Len(cache) <= Kept
  /\ \A i, j \in DOMAIN cache : cache[i].key = cache[j].key => i = j
=============================================================================
