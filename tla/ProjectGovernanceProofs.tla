------------------------ MODULE ProjectGovernanceProofs ------------------------
(***************************************************************************)
(* Governance, for any clients, findings, sources and bounds: a generated  *)
(* artifact was authorized as its row says and is shown as current only as *)
(* long as it would be; a bulk acceptance decides over nobody; and nothing *)
(* is committed over other evidence than its client was shown.             *)
(*                                                                         *)
(* The argument: the worker lock and the transaction of the project        *)
(* database keep the others away (Ways, Transactions); what a client has   *)
(* checked so far is known from its place in Path, and stays so, for the   *)
(* review log only grows and a code revision is never used twice (Makes).  *)
(***************************************************************************)
EXTENDS ProjectGovernance, WorkerLock, SequenceTheorems, FiniteSetTheorems, TLAPS

Ops == {"decide", "bulk", "prepare", "configure", "approve", "generate", "package"}
Steps == {"take", "check", "fence", "create", "detail", "export", "compare", "session", "recheck",
          "write", "register", "open", "verify", "commit", "apply", "done"}

Row == [kind : {"resolve", "leave", "note"}, finding : Finding, revision : Content, bulk : BOOLEAN]
Plan == Plans(setting)
Session == Sessions(setting)
Copy == Session \cup {None}
Artifact == [analysis : Content, review : Nat, target : Plan \cup {None}, code : Nat \cup {None}, folder : Nat]
Asked == [op : Ops \cup {None}, analysis : Content \cup {None}, review : Nat, target : Plan \cup {None},
          code : Nat \cup {None}, pending : SUBSET Finding]
Staged == [rows : Seq(Row), keys : Keys \cup {None}, copy : Copy, folder : Nat]

SharedTyped ==
  /\ setting \in Settings
  /\ lock \in Client \cup {None} /\ writer \in Client \cup {None} /\ sessionWriter \in Client \cup {None}
  /\ disk \in Content /\ analysis \in Content \cup {None} /\ assessed \subseteq Content
  /\ log \in Seq(Row) /\ review = Len(log)
  /\ plan \in [Content -> Plan \cup {None}]
  /\ session \in [Content -> Copy]
  /\ folders \in Seq(Copy) /\ artifacts \subseteq Artifact

LocalTyped ==
  /\ pc \in [Client -> Steps \cup {"idle", "scope"}]
  /\ request \in [Client -> Asked]
  /\ staged \in [Client -> Staged]
  /\ late \subseteq Client

Typed == SharedTyped /\ LocalTyped

\* Where a client is in its operation, and that it holds the worker lock there.
WayIsTrue(c) ==
  /\ pc[c] # "idle" =>
       request[c].op \in Ops /\ request[c].analysis \in Content /\ request[c].review <= review /\ analysis \in Content
  /\ pc[c] \notin {"idle", "scope"} => \E i \in DOMAIN Path[request[c].op] : Path[request[c].op][i] = pc[c]
  /\ lock = c <=> pc[c] \notin {"idle", "scope", "take"}

\* A bulk acceptance that is about to commit decides over nobody, and once.
RowsAreTrue(rows) ==
  \A j \in DOMAIN rows : rows[j].bulk /\ rows[j].kind = "resolve" =>
    Pending(rows[j].finding) /\ \A k \in DOMAIN rows : k < j => rows[k].finding # rows[j].finding

\* What holds inside a transaction of the project database.
TransactionIsTrue(c) ==
  /\ writer = c <=> pc[c] \in {"verify", "commit"} \/ (pc[c] = "apply" /\ request[c].op = "approve")
  /\ writer = c =>
       /\ Fenced(c) /\ RowsAreTrue(staged[c].rows)
       /\ request[c].op = "approve" => request[c].target = plan[analysis]
  /\ writer = c /\ pc[c] # "verify" => disk = analysis \/ c \in late

\* The session a plan or an approval goes to is there; a preparation makes it.
SessionIsTrue(c) ==
  /\ request[c].op \in {"configure", "approve"} /\ pc[c] \in {"recheck", "open", "verify", "commit", "apply"} =>
       session[analysis] # None
  /\ request[c].op = "prepare" /\ pc[c] \in {"recheck", "register"} => session[analysis] = None

\* A session, or a copy of one: at this code revision it was confirmed and
\* approved for this plan; other revisions are later ones.
Vouches(s, a, n, target, code) ==
  /\ s # None /\ s.code >= code
  /\ s.code = code => s.keys = target.keys /\ s.approval = Bound(a, n, target)

\* What a generation has found out.
Detailed == {"export", "compare", "recheck", "write", "session", "open", "verify", "commit"}
Exported == Detailed \ {"export"}
Compared == Exported \ {"compare"}
Written == Compared \ {"recheck", "write"}

Authorized(c) ==
  LET r == request[c] IN
  /\ r.target # None /\ r.code \in Nat
  /\ Resolved(analysis, SubSeq(log, 1, r.review))
  /\ Vouches(session[analysis], analysis, r.review, r.target, r.code)

CopyIsTrue(c) ==
  LET r == request[c]
      copy == staged[c].copy IN
  /\ pc[c] \in Exported => Vouches(copy, analysis, r.review, r.target, r.code)
  /\ pc[c] = "compare" => copy.code <= session[analysis].code
  /\ pc[c] \in Compared => copy.code = r.code
  /\ pc[c] \in Written => staged[c].folder \in DOMAIN folders /\ folders[staged[c].folder] = copy

MakesTrue(c) ==
  request[c].op = "generate" => (pc[c] \in Detailed => Authorized(c)) /\ CopyIsTrue(c)

\* What its row says of an artifact is so, and its session vouches for it.
ArtifactIsTrue(x) ==
  x.target # None =>
    /\ x.review <= review /\ x.code \in Nat
    /\ Resolved(x.analysis, SubSeq(log, 1, x.review))
    /\ x.folder \in DOMAIN folders /\ folders[x.folder].code = x.code
    /\ Vouches(folders[x.folder], x.analysis, x.review, x.target, x.code)
    /\ Vouches(session[x.analysis], x.analysis, x.review, x.target, x.code)

Ways == \A c \in Client : WayIsTrue(c)
Transactions == \A c \in Client : TransactionIsTrue(c)
Makes == \A c \in Client : SessionIsTrue(c) /\ MakesTrue(c)
Artifacts == \A x \in artifacts : ArtifactIsTrue(x)

IInv == Typed /\ Ways /\ Transactions /\ Makes /\ Artifacts /\ BulkNeverOverrides
-----------------------------------------------------------------------------
(* The order of the steps *)

\* The step after another in an operation that takes it.
After(o, step) ==
  CASE step = "take" -> "check"
    [] step = "check" -> IF o \in {"decide", "bulk"} THEN "open" ELSE "fence"
    [] step = "fence" -> IF o = "prepare" THEN "create" ELSE IF o = "approve" THEN "session"
                         ELSE IF o = "package" THEN "recheck" ELSE "detail"
    [] step = "create" -> "recheck"
    [] step = "detail" -> IF o = "generate" THEN "export" ELSE "session"
    [] step = "export" -> "compare"
    [] step = "compare" -> "recheck"
    [] step = "session" -> IF o = "configure" THEN "recheck" ELSE "open"
    [] step = "recheck" -> IF o = "prepare" THEN "register" ELSE IF o = "configure" THEN "open" ELSE "write"
    [] step = "write" -> IF o = "generate" THEN "session" ELSE "open"
    [] step = "register" -> "done"
    [] step = "open" -> "verify"
    [] step = "verify" -> IF o = "approve" THEN "apply" ELSE "commit"
    [] step = "commit" -> IF o = "configure" THEN "apply" ELSE "done"
    [] step = "apply" -> IF o = "configure" THEN "done" ELSE "commit"

LEMMA Follows ==
  ASSUME NEW o \in Ops, NEW step \in Steps \ {"done"}, \E i \in DOMAIN Path[o] : Path[o][i] = step
  PROVE  /\ Following(o, step) = After(o, step) /\ After(o, step) \in Steps \ {"take"}
         /\ \E i \in DOMAIN Path[o] : Path[o][i] = After(o, step)
<1> DEFINE path == Path[o]
<1>1. \A i \in DOMAIN path : path[i] = step => i + 1 \in DOMAIN path /\ path[i + 1] = After(o, step)
  <2>1. CASE o = "decide"
    BY <2>1 DEF Path, Steps, After
  <2>2. CASE o = "bulk"
    BY <2>2 DEF Path, Steps, After
  <2>3. CASE o = "prepare"
    BY <2>3 DEF Path, Steps, After
  <2>4. CASE o = "configure"
    BY <2>4 DEF Path, Steps, After
  <2>5. CASE o = "approve"
    BY <2>5 DEF Path, Steps, After
  <2>6. CASE o = "generate"
    BY <2>6 DEF Path, Steps, After
  <2>7. CASE o = "package"
    BY <2>7 DEF Path, Steps, After
  <2> QED
    BY <2>1, <2>2, <2>3, <2>4, <2>5, <2>6, <2>7 DEF Ops
<1> DEFINE k == CHOOSE i \in DOMAIN path : path[i] = step
<1>2. k \in DOMAIN path /\ path[k] = step
  BY Zenon
<1>3. Following(o, step) = path[1 + k]
  BY DEF Following
<1>4. k \in Int
  BY <1>2 DEF Path, Ops
<1>5. After(o, step) \in Steps \ {"take"}
  BY DEF After, Steps
<1> HIDE DEF k, path
<1> QED
  BY <1>1, <1>2, <1>3, <1>4, <1>5 DEF path

-----------------------------------------------------------------------------
(* Types *)

LEMMA SameSets ==
  ASSUME setting' = setting
  PROVE  /\ Row' = Row /\ Plan' = Plan /\ Session' = Session /\ Copy' = Copy /\ Artifact' = Artifact
         /\ Asked' = Asked /\ Staged' = Staged /\ Content' = Content /\ Keys' = Keys /\ Finding' = Finding
BY DEF Row, Plan, Session, Copy, Artifact, Asked, Staged, Content, Keys, Finding

\* A finite set of rows in the order of some injection.
LEMMA SetInOrder ==
  ASSUME NEW S, IsFiniteSet(S)
  PROVE  /\ SetToSeq(S) \in Seq(S)
         /\ \A j, k \in DOMAIN SetToSeq(S) : SetToSeq(S)[j] = SetToSeq(S)[k] => j = k
<1>1. Cardinality(S) \in Nat /\ ExistsBijection(1..Cardinality(S), S)
  BY FS_CardinalityType
<1>2. \E f \in [1..Cardinality(S) -> S] : IsInjective(f)
  BY <1>1 DEF ExistsBijection, Bijection, Injection
<1>3. SetToSeq(S) \in [1..Cardinality(S) -> S] /\ IsInjective(SetToSeq(S))
  BY <1>2, Zenon DEF SetToSeq
<1> HIDE DEF SetToSeq
<1>4. SetToSeq(S) \in Seq(S)
  BY <1>1, <1>3
<1> QED
  BY <1>3, <1>4 DEF IsInjective

\* The rows an operation may be about to commit.
LEMMA RowsAreTyped ==
  ASSUME Typed, NEW c \in Client, analysis \in Content, NEW rows \in RowsOf(c)
  PROVE  rows \in Seq(Row) /\ RowsAreTrue(rows)
<1> DEFINE Of(kind, f) == [kind |-> kind, finding |-> f, revision |-> analysis, bulk |-> TRUE]
<1>1. IsFiniteSet(Finding)
  BY GovernanceAssumption DEF Typed, SharedTyped, Finding
<1>2. ASSUME NEW kind \in {"resolve", "leave"}, NEW E \in SUBSET Finding, kind = "resolve" => \A f \in E : Pending(f)
      PROVE  BulkRow(kind, E) \in Seq(Row) /\ RowsAreTrue(BulkRow(kind, E))
  <2> DEFINE S == {Of(kind, f) : f \in E}
             q == SetToSeq(S)
  <2>1. IsFiniteSet(S)
    <3>1. IsFiniteSet(E)
      BY <1>1, FS_Subset
    <3> DEFINE F == [f \in E |-> Of(kind, f)]
    <3>2. F \in Surjection(E, S)
      BY DEF Surjection
    <3> QED
      BY <3>1, <3>2, FS_Surjection
  <2>2. S \subseteq Row
    <3>1. ASSUME NEW f \in E PROVE Of(kind, f) \in Row
      BY DEF Row
    <3> QED
      BY <3>1
  <2>3. BulkRow(kind, E) = q
    BY DEF BulkRow
  <2>4. \A r \in S : r.finding \in E /\ r.kind = kind /\ r = Of(kind, r.finding)
    OBVIOUS
  <2> HIDE DEF S
  <2>5. q \in Seq(S) /\ \A j, k \in DOMAIN q : q[j] = q[k] => j = k
    BY <2>1, SetInOrder
  <2> HIDE DEF q
  <2>6. q \in Seq(Row) /\ DOMAIN q = 1..Len(q) /\ Len(q) \in Nat /\ \A j \in DOMAIN q : q[j] \in S
    <3>1. DOMAIN q = 1..Len(q) /\ Len(q) \in Nat
      BY <2>5, LenProperties
    <3>2. \A j \in 1..Len(q) : q[j] \in S
      BY <2>5, ElementOfSeq
    <3>3. q \in [1..Len(q) -> Row]
      BY <2>2, <2>5, <3>1, <3>2
    <3> QED
      BY <3>1, <3>2, <3>3
  <2>7. ASSUME NEW j \in DOMAIN q, q[j].bulk, q[j].kind = "resolve"
        PROVE  Pending(q[j].finding) /\ \A k \in DOMAIN q : k < j => q[k].finding # q[j].finding
    <3>1. Pending(q[j].finding)
      BY <1>2, <2>4, <2>6, <2>7
    <3>2. ASSUME NEW k \in DOMAIN q, k < j PROVE q[k].finding # q[j].finding
      <4>1. q[k] # q[j]
        BY <2>5, <2>6, <3>2
      <4>2. q[k] = Of(kind, q[k].finding) /\ q[j] = Of(kind, q[j].finding)
        BY <2>4, <2>6
      <4> QED
        BY <4>1, <4>2
    <3> QED
      BY <3>1, <3>2
  <2> QED
    BY <2>3, <2>6, <2>7 DEF RowsAreTrue
<1>3. ASSUME NEW kind \in {"resolve", "leave", "note"}, NEW f \in Finding,
             rows = <<[kind |-> kind, finding |-> f, revision |-> analysis, bulk |-> FALSE]>>
      PROVE  rows \in Seq(Row) /\ RowsAreTrue(rows)
  <2> DEFINE r == [kind |-> kind, finding |-> f, revision |-> analysis, bulk |-> FALSE]
  <2>1. r \in Row /\ r.bulk = FALSE
    BY DEF Row
  <2> HIDE DEF r
  <2>2. rows = <<r>>
    BY <1>3 DEF r
  <2>3. rows \in Seq(Row) /\ \A j \in DOMAIN rows : rows[j] = r
    BY <2>1, <2>2
  <2> QED
    BY <2>1, <2>3 DEF RowsAreTrue
<1>4. CASE Op(c, {"decide"})
  <2>1. rows \in OneRow
    BY <1>4 DEF RowsOf, Op
  <2>2. PICK kind \in {"resolve", "leave", "note"}, f \in Finding :
          rows = <<[kind |-> kind, finding |-> f, revision |-> analysis, bulk |-> FALSE]>>
    BY <2>1 DEF OneRow
  <2> QED
    BY <1>3, <2>2
<1>5. CASE ~Op(c, {"decide"}) /\ Op(c, {"bulk"})
  <2>1. rows \in BulkRows(c)
    BY <1>5 DEF RowsOf, Op
  <2>2. PICK kind \in {"resolve", "leave"}, E \in SUBSET Finding :
          rows = BulkRow(kind, E) /\ (kind = "resolve" => \A f \in E : Pending(f))
    BY <2>1 DEF BulkRows
  <2> QED
    BY <1>2, <2>2
<1>6. CASE ~Op(c, {"decide"}) /\ ~Op(c, {"bulk"})
  <2>1. rows = <<>>
    BY <1>6 DEF RowsOf
  <2> QED
    BY <2>1 DEF RowsAreTrue
<1> QED
  BY <1>4, <1>5, <1>6

\* A step of an operation, and where it leads.
LEMMA Advances ==
  ASSUME Typed, NEW c \in Client, WayIsTrue(c), NEW step \in Steps \ {"done"}, Takes(c, step)
  PROVE  /\ pc[c] = step /\ request[c].op \in Ops /\ analysis \in Content
         /\ pc' \in [Client -> Steps \cup {"idle", "scope"}]
         /\ pc'[c] = After(request[c].op, step) /\ pc'[c] \in Steps \ {"take"}
         /\ \E i \in DOMAIN Path[request[c].op] : Path[request[c].op][i] = pc'[c]
         /\ \A d \in Client \ {c} : pc'[d] = pc[d]
<1>1. pc[c] = step /\ pc \in [Client -> Steps \cup {"idle", "scope"}]
  BY DEF Takes, Typed, LocalTyped
<1>2. pc[c] \notin {"idle", "scope"}
  BY <1>1 DEF Steps
<1>3. /\ request[c].op \in Ops /\ analysis \in Content
      /\ \E i \in DOMAIN Path[request[c].op] : Path[request[c].op][i] = step
  BY <1>1, <1>2 DEF WayIsTrue
<1>4. /\ Following(request[c].op, step) = After(request[c].op, step) /\ After(request[c].op, step) \in Steps \ {"take"}
      /\ \E i \in DOMAIN Path[request[c].op] : Path[request[c].op][i] = After(request[c].op, step)
  BY <1>3, Follows
<1>5. pc' = [pc EXCEPT ![c] = After(request[c].op, step)]
  BY <1>4 DEF Takes
<1> QED
  BY <1>1, <1>3, <1>4, <1>5

-----------------------------------------------------------------------------
(* What no step undoes *)

\* The review log and the folders only grow, a session stays, and a code
\* revision of it says what it said.
Kept ==
  /\ setting' = setting
  /\ review <= review' /\ \A n \in 0..review : SubSeq(log', 1, n) = SubSeq(log, 1, n)
  /\ \A i \in DOMAIN folders : i \in DOMAIN folders' /\ folders'[i] = folders[i]
  /\ \A a \in Content : session[a] # None =>
       session'[a] # None /\ (session'[a] = session[a] \/ session'[a].code > session[a].code)

LEMMA PrefixStays ==
  ASSUME NEW S, NEW q \in Seq(S), NEW r \in Seq(S), NEW n \in 0..Len(q)
  PROVE  SubSeq(q \o r, 1, n) = SubSeq(q, 1, n)
<1>1. Len(q) \in Nat
  BY LenProperties
<1>2. CASE n = 0
  <2>1. SubSeq(q \o r, 1, 0) = <<>> /\ SubSeq(q, 1, 0) = <<>>
    BY SubSeqEmpty
  <2> QED
    BY <1>2, <2>1
<1>3. CASE n # 0
  <2>1. n \in 1..Len(q) /\ 1 \in 1..Len(q)
    BY <1>1, <1>3
  <2> QED
    BY <2>1, SubSeqOfConcat1
<1> QED
  BY <1>2, <1>3

LEMMA LogGrows ==
  ASSUME SharedTyped, NEW rows \in Seq(Row), log' = log \o rows, review' = review + Len(rows), setting' = setting
  PROVE  /\ log' \in Seq(Row)' /\ review' = Len(log)' /\ review <= review'
         /\ \A n \in 0..review : SubSeq(log', 1, n) = SubSeq(log, 1, n)
<1>1. log \in Seq(Row) /\ review = Len(log) /\ Len(rows) \in Nat /\ Len(log) \in Nat
  BY LenProperties DEF SharedTyped
<1>2. log' \in Seq(Row) /\ Len(log') = Len(log) + Len(rows)
  BY <1>1, ConcatProperties
<1>3. \A n \in 0..review : SubSeq(log', 1, n) = SubSeq(log, 1, n)
  BY <1>1, PrefixStays
<1>4. Row' = Row
  BY SameSets
<1> QED
  BY <1>1, <1>2, <1>3, <1>4

\* A session is given a new code revision.
LEMMA SessionGrows ==
  ASSUME SharedTyped, NEW a \in Content, NEW s, s \in Session,
         session[a] # None => s.code > session[a].code,
         session' = [session EXCEPT ![a] = s]
  PROVE  /\ session' \in [Content -> Copy]
         /\ \A b \in Content : session[b] # None =>
              session'[b] # None /\ (session'[b] = session[b] \/ session'[b].code > session[b].code)
<1>1. session \in [Content -> Copy] /\ s \in Copy
  BY DEF SharedTyped, Copy
<1>2. None \notin Session
  BY GovernanceAssumption DEF SharedTyped, Session
<1> QED
  BY <1>1, <1>2

\* The steps of a client that change none of what is shared but the locks.
LEMMA LocksOnly ==
  ASSUME SharedTyped, UNCHANGED <<setting, disk, analysis, assessed, log, review, plan, session, folders, artifacts>>,
         lock' \in Client \cup {None}, writer' \in Client \cup {None}, sessionWriter' \in Client \cup {None}
  PROVE  SharedTyped' /\ Kept
<1>1. SharedTyped'
  BY SameSets DEF SharedTyped
<1>2. Kept
  BY DEF Kept, SharedTyped
<1> QED
  BY <1>1, <1>2

\* The next revision of a session.
Rekeyed(s, k) == [s EXCEPT !.code = @ + 1, !.keys = k]
Decided(s, approval) == [s EXCEPT !.code = @ + 1, !.approval = approval]

LEMMA NextRevision ==
  ASSUME NEW s \in Session, NEW k \in Keys \cup {None}, NEW approval \in Approvals(setting)
  PROVE  /\ Rekeyed(s, k) \in Session /\ Rekeyed(s, k).code = s.code + 1 /\ Rekeyed(s, k).code > s.code
         /\ Rekeyed(s, k).approval = s.approval
         /\ Decided(s, approval) \in Session /\ Decided(s, approval).code = s.code + 1
         /\ Decided(s, approval).code > s.code /\ Decided(s, approval).approval = approval
<1> DEFINE K == Keys \cup {None}
           A == Approvals(setting)
<1>1. s \in [code : Nat, keys : K, approval : A] /\ Session = [code : Nat, keys : K, approval : A]
  BY DEF Session, Sessions, Keys
<1> HIDE DEF K, A
<1>2. k \in K /\ approval \in A
  BY DEF K, A
<1> DEFINE n == s.code + 1
<1>3. n \in Nat /\ n > s.code
  BY <1>1
<1>4. Rekeyed(s, k) = [s EXCEPT !.code = n, !.keys = k] /\ Decided(s, approval) = [s EXCEPT !.code = n, !.approval = approval]
  BY DEF Rekeyed, Decided
<1>5. n = s.code + 1
  OBVIOUS
<1> HIDE DEF n
<1>6. Rekeyed(s, k) \in Session /\ Rekeyed(s, k).code = n /\ Rekeyed(s, k).approval = s.approval
  BY <1>1, <1>2, <1>3, <1>4
<1>7. Decided(s, approval) \in Session /\ Decided(s, approval).code = n /\ Decided(s, approval).approval = approval
  BY <1>1, <1>2, <1>3, <1>4
<1> QED
  BY <1>3, <1>5, <1>6, <1>7

LEMMA SharedKeeps ==
  ASSUME IInv, [Next]_vars
  PROVE  SharedTyped' /\ Kept
<1>0. SharedTyped /\ LocalTyped
  BY DEF IInv, Typed
<1>l. lock \in Client \cup {None} /\ writer \in Client \cup {None} /\ sessionWriter \in Client \cup {None}
  BY <1>0 DEF SharedTyped
<1>1. ASSUME NEW c \in Client,
             \/ \E op \in Request : ReadAssessment(c, op)
             \/ ReadScope(c) \/ CheckSources(c) \/ Fence(c) \/ Detail(c) \/ CreateFiles(c) \/ Export(c)
             \/ Compare(c) \/ Recheck(c) \/ Verify(c) \/ TakeLock(c) \/ BeginSession(c) \/ Open(c) \/ Leave(c)
      PROVE  SharedTyped' /\ Kept
  <2>1. UNCHANGED <<setting, disk, analysis, assessed, log, review, plan, session, folders, artifacts>>
    BY <1>1 DEF ReadAssessment, ReadScope, CheckSources, Fence, Detail, CreateFiles, Export, Compare, Recheck, Verify,
                TakeLock, BeginSession, Open, Leave, storage, database
  <2>2. lock' \in Client \cup {None}
    BY <1>1, <1>l DEF ReadAssessment, ReadScope, CheckSources, Fence, Detail, CreateFiles, Export, Compare, Recheck,
                Verify, TakeLock, BeginSession, Open, Leave, locks, Lock!Acquire
  <2>3. writer' \in Client \cup {None} /\ sessionWriter' \in Client \cup {None}
    BY <1>1, <1>l DEF ReadAssessment, ReadScope, CheckSources, Fence, Detail, CreateFiles, Export, Compare, Recheck,
                Verify, TakeLock, BeginSession, Open, Leave, locks
  <2> QED
    BY <1>0, <2>1, <2>2, <2>3, LocksOnly
<1>2. ASSUME NEW c \in Client, Register(c) PROVE SharedTyped' /\ Kept
  <2>1. pc[c] = "register" /\ WayIsTrue(c) /\ SessionIsTrue(c)
    BY <1>2 DEF Register, Takes, IInv, Ways, Makes
  <2>2. request[c].op = "prepare" /\ analysis \in Content
    BY <2>1 DEF WayIsTrue, Path, Ops
  <2>3. session[analysis] = None
    BY <2>1, <2>2 DEF SessionIsTrue
  <2> DEFINE s == [code |-> 0, keys |-> None, approval |-> None]
  <2>4. s \in Session
    BY DEF Session, Sessions, Approvals
  <2>5. session' = [session EXCEPT ![analysis] = s]
    BY <1>2 DEF Register
  <2> HIDE DEF s
  <2>6. /\ session' \in [Content -> Copy]
        /\ \A b \in Content : session[b] # None =>
              session'[b] # None /\ (session'[b] = session[b] \/ session'[b].code > session[b].code)
    BY <1>0, <2>2, <2>3, <2>4, <2>5, SessionGrows
  <2>7. UNCHANGED <<setting, disk, analysis, assessed, log, review, plan, folders, artifacts, lock, writer, sessionWriter>>
    BY <1>2 DEF Register, locks, storage
  <2> QED
    BY <1>0, <2>6, <2>7, SameSets DEF SharedTyped, Kept
<1>3. ASSUME NEW c \in Client, WriteFiles(c) PROVE SharedTyped' /\ Kept
  <2>1. staged[c].copy \in Copy /\ folders' = Append(folders, staged[c].copy)
    BY <1>0, <1>3 DEF WriteFiles, LocalTyped, Staged
  <2>2. folders \in Seq(Copy)
    BY <1>0 DEF SharedTyped
  <2>3. folders' \in Seq(Copy) /\ \A i \in DOMAIN folders : i \in DOMAIN folders' /\ folders'[i] = folders[i]
    <3>1. /\ folders' \in Seq(Copy) /\ Len(folders') = Len(folders) + 1
          /\ \A i \in 1..Len(folders) : folders'[i] = folders[i]
      BY <2>1, <2>2, AppendProperties
    <3>2. DOMAIN folders = 1..Len(folders) /\ Len(folders) \in Nat /\ DOMAIN folders' = 1..Len(folders')
      BY <2>2, <3>1, LenProperties
    <3> QED
      BY <3>1, <3>2
  <2>4. UNCHANGED <<setting, disk, analysis, assessed, log, review, plan, session, artifacts, lock, writer, sessionWriter>>
    BY <1>3 DEF WriteFiles, locks, database
  <2> QED
    BY <1>0, <2>3, <2>4, SameSets DEF SharedTyped, Kept
<1>4. ASSUME NEW c \in Client, Commit(c) PROVE SharedTyped' /\ Kept
  <2>0. pc[c] = "commit" /\ WayIsTrue(c)
    BY <1>4 DEF Commit, Takes, IInv, Ways
  <2>1. analysis \in Content /\ request[c] \in Asked /\ staged[c] \in Staged
    BY <1>0, <2>0 DEF WayIsTrue, LocalTyped
  <2>2. log' = log \o staged[c].rows /\ review' = review + Len(staged[c].rows) /\ staged[c].rows \in Seq(Row)
    BY <1>4, <2>1 DEF Commit, Counted, Staged
  <2>3. UNCHANGED <<setting, disk, analysis, assessed, session, folders, lock, sessionWriter>>
    BY <1>4 DEF Commit, storage
  <2>4. writer' = None
    BY <1>4 DEF Commit
  <2>5. plan' \in [Content -> Plan \cup {None}]
    <3> DEFINE p == [keys |-> staged[c].keys, analysis |-> analysis, review |-> request[c].review]
    <3>1. p \in Plan
      BY <2>1 DEF Plan, Plans, Keys, Content, Staged, Asked
    <3> HIDE DEF p
    <3>2. plan' = plan \/ plan' = [plan EXCEPT ![analysis] = p]
      BY <1>4 DEF Commit, p
    <3> QED
      BY <1>0, <3>1, <3>2 DEF SharedTyped
  <2>6. artifacts' \subseteq Artifact
    <3>1. NewArtifact(c) \in Artifact
      BY <2>1 DEF NewArtifact, Artifact, Asked, Staged
    <3> QED
      BY <1>0, <1>4, <3>1 DEF Commit, SharedTyped
  <2>7. /\ log' \in Seq(Row)' /\ review' = Len(log)' /\ review <= review'
        /\ \A n \in 0..review : SubSeq(log', 1, n) = SubSeq(log, 1, n)
    BY <1>0, <2>2, <2>3, LogGrows
  <2> QED
    BY <1>0, <2>3, <2>4, <2>5, <2>6, <2>7, SameSets DEF SharedTyped, Kept
<1>5. ASSUME NEW c \in Client, Apply(c) PROVE SharedTyped' /\ Kept
  <2>0. pc[c] = "apply" /\ WayIsTrue(c) /\ SessionIsTrue(c)
    BY <1>5 DEF Apply, Takes, IInv, Ways, Makes
  <2>1. analysis \in Content /\ request[c] \in Asked /\ staged[c] \in Staged /\ request[c].op \in {"configure", "approve"}
    BY <1>0, <2>0 DEF WayIsTrue, LocalTyped, Path, Ops
  <2>2. session[analysis] \in Session
    BY <1>0, <2>0, <2>1 DEF SessionIsTrue, SharedTyped, Copy
  <2>3. staged[c].keys \in Keys \cup {None}
    BY <2>1 DEF Staged
  <2>4. ASSUME NEW approval \in {Bound(analysis, request[c].review, request[c].target), None}
        PROVE  approval \in Approvals(setting)
    BY <2>1 DEF Approvals, Bound, Asked, Plan, Content
  <2>5. PICK s \in Session : s.code > session[analysis].code /\ session' = [session EXCEPT ![analysis] = s]
    <3>1. PICK approval \in {Bound(analysis, request[c].review, request[c].target), None} :
            \/ session' = [session EXCEPT ![analysis] = Rekeyed(session[analysis], staged[c].keys)]
            \/ session' = [session EXCEPT ![analysis] = Decided(session[analysis], approval)]
      BY <1>5 DEF Apply, Rekeyed, Decided
    <3> QED
      BY <2>2, <2>3, <2>4, <3>1, NextRevision
  <2>6. /\ session' \in [Content -> Copy]
        /\ \A b \in Content : session[b] # None =>
              session'[b] # None /\ (session'[b] = session[b] \/ session'[b].code > session[b].code)
    BY <1>0, <2>1, <2>5, SessionGrows
  <2>7. UNCHANGED <<setting, disk, analysis, assessed, log, review, plan, folders, artifacts, lock, writer>> /\ sessionWriter' = None
    BY <1>5 DEF Apply, storage
  <2> QED
    BY <1>0, <2>6, <2>7, SameSets DEF SharedTyped, Kept
<1>6. ASSUME Analyze \/ \E d \in Content : Edit(d) PROVE SharedTyped' /\ Kept
  <2>1. UNCHANGED <<setting, log, review, plan, session, folders, artifacts, lock, writer, sessionWriter>>
    BY <1>6 DEF Analyze, Edit, locks, storage, database
  <2>2. disk' \in Content /\ analysis' \in Content \cup {None} /\ assessed' \subseteq Content
    BY <1>0, <1>6 DEF Analyze, Edit, storage, database, SharedTyped
  <2> QED
    BY <1>0, <2>1, <2>2, SameSets DEF SharedTyped, Kept
<1>7. ASSUME NEW f \in Finding, NEW kind \in {"resolve", "leave"}, NEW a \in Content, ExternalReview(f, kind, a)
      PROVE  SharedTyped' /\ Kept
  <2> DEFINE r == [kind |-> kind, finding |-> f, revision |-> a, bulk |-> FALSE]
  <2>1. r \in Row
    BY DEF Row
  <2>2. log' = Append(log, r) /\ review' = review + 1
    BY <1>7 DEF ExternalReview
  <2> HIDE DEF r
  <2>3. log' = log \o <<r>> /\ <<r>> \in Seq(Row) /\ review' = review + Len(<<r>>)
    BY <1>0, <2>1, <2>2, AppendIsConcat DEF SharedTyped
  <2>4. UNCHANGED <<setting, disk, analysis, assessed, plan, session, folders, artifacts, lock, writer, sessionWriter>>
    BY <1>7 DEF ExternalReview, locks, storage
  <2>5. /\ log' \in Seq(Row)' /\ review' = Len(log)' /\ review <= review'
        /\ \A n \in 0..review : SubSeq(log', 1, n) = SubSeq(log, 1, n)
    BY <1>0, <2>3, <2>4, LogGrows
  <2> QED
    BY <1>0, <2>4, <2>5, SameSets DEF SharedTyped, Kept
<1>8. ASSUME NEW a \in Content, NEW k \in Keys, LegacyCode(a, k) PROVE SharedTyped' /\ Kept
  <2>1. session[a] \in Session
    BY <1>0, <1>8 DEF LegacyCode, SharedTyped, Copy
  <2>2. None \in Approvals(setting)
    BY DEF Approvals
  <2>3. session' = [session EXCEPT ![a] = Decided(session[a], None)] \/ session' = [session EXCEPT ![a] = Rekeyed(session[a], k)]
    BY <1>8 DEF LegacyCode, Decided, Rekeyed
  <2>4. PICK s \in Session : s.code > session[a].code /\ session' = [session EXCEPT ![a] = s]
    BY <2>1, <2>2, <2>3, NextRevision
  <2>5. /\ session' \in [Content -> Copy]
        /\ \A b \in Content : session[b] # None =>
              session'[b] # None /\ (session'[b] = session[b] \/ session'[b].code > session[b].code)
    BY <1>0, <2>4, SessionGrows
  <2>6. UNCHANGED <<setting, disk, analysis, assessed, log, review, plan, folders, artifacts, lock, writer, sessionWriter>>
    BY <1>8 DEF LegacyCode, locks, storage
  <2> QED
    BY <1>0, <2>5, <2>6, SameSets DEF SharedTyped, Kept
<1>9. CASE UNCHANGED vars
  <2>1. UNCHANGED <<setting, disk, analysis, assessed, log, review, plan, session, folders, artifacts, lock, writer, sessionWriter>>
    BY <1>9 DEF vars, locks, storage, database
  <2> QED
    BY <1>0, <1>l, <2>1, LocksOnly
<1> QED
  BY <1>1, <1>2, <1>3, <1>4, <1>5, <1>6, <1>7, <1>8, <1>9 DEF Next, Environment, ClientStep

\* A client's step is about its own place, request and preparations.
OthersRest(c) == \A d \in Client \ {c} : pc'[d] = pc[d] /\ request'[d] = request[d] /\ staged'[d] = staged[d]

LEMMA LocalKeeps ==
  ASSUME IInv, NEW c \in Client, ClientStep(c)
  PROVE  LocalTyped' /\ OthersRest(c)
<1>0. /\ pc \in [Client -> Steps \cup {"idle", "scope"}]
      /\ request \in [Client -> Asked] /\ request[c] \in Asked
      /\ staged \in [Client -> Staged] /\ staged[c] \in Staged
      /\ late \subseteq Client
  BY DEF IInv, Typed, LocalTyped
<1>1. Typed /\ WayIsTrue(c) /\ SharedTyped
  BY DEF IInv, Ways, Typed
<1>2. Asked' = Asked /\ Staged' = Staged
  <2>1. setting' = setting
    BY SharedKeeps DEF Next, Kept
  <2> QED
    BY <2>1, SameSets
<1>3. ASSUME NEW step \in Steps \ {"done"}, Takes(c, step), request' = request, late' = late,
             staged' = staged \/ \E s \in Staged : staged' = [staged EXCEPT ![c] = s]
      PROVE  LocalTyped' /\ OthersRest(c)
  <2>1. pc' \in [Client -> Steps \cup {"idle", "scope"}] /\ \A d \in Client \ {c} : pc'[d] = pc[d]
    BY <1>1, <1>3, Advances
  <2> QED
    BY <1>0, <1>2, <1>3, <2>1 DEF LocalTyped, OthersRest
<1> USE DEF Steps
<1>4. CASE TakeLock(c) \/ CheckSources(c) \/ Fence(c) \/ Detail(c) \/ CreateFiles(c) \/ Register(c)
  BY <1>3, <1>4 DEF TakeLock, CheckSources, Fence, Detail, CreateFiles, Register
<1>5. CASE Compare(c) \/ Recheck(c) \/ Verify(c) \/ Commit(c) \/ Apply(c)
  BY <1>3, <1>5 DEF Compare, Recheck, Verify, Commit, Apply
<1>6. CASE Export(c)
  <2> DEFINE s == [staged[c] EXCEPT !.copy = session[analysis]]
  <2>1. analysis \in Content
    BY <1>1, <1>6 DEF Export, Takes, WayIsTrue
  <2>2. s \in Staged /\ staged' = [staged EXCEPT ![c] = s]
    BY <1>0, <1>1, <1>6, <2>1 DEF Export, Staged, SharedTyped
  <2> HIDE DEF s
  <2> QED
    BY <1>3, <1>6, <2>2 DEF Export
<1>7. CASE WriteFiles(c)
  <2> DEFINE n == Len(folders) + 1
             s == [staged[c] EXCEPT !.folder = n]
  <2>0. staged' = [staged EXCEPT ![c].folder = n]
    BY <1>7 DEF WriteFiles
  <2>1. n \in Nat
    BY <1>1, LenProperties DEF SharedTyped
  <2> HIDE DEF n
  <2>2. s \in Staged /\ staged' = [staged EXCEPT ![c] = s]
    BY <1>0, <2>0, <2>1 DEF Staged
  <2> HIDE DEF s
  <2> QED
    BY <1>3, <1>7, <2>2 DEF WriteFiles
<1>8. CASE BeginSession(c)
  <2>1. ASSUME NEW k \in Keys, staged' = [staged EXCEPT ![c].keys = k]
        PROVE  \E s \in Staged : staged' = [staged EXCEPT ![c] = s]
    <3> DEFINE s == [staged[c] EXCEPT !.keys = k]
    <3>1. s \in Staged /\ staged' = [staged EXCEPT ![c] = s]
      BY <1>0, <2>1 DEF Staged
    <3> HIDE DEF s
    <3> QED
      BY <3>1
  <2> QED
    BY <1>3, <1>8, <2>1 DEF BeginSession
<1>9. CASE Open(c)
  <2>1. PICK rows \in RowsOf(c) : staged' = [staged EXCEPT ![c].rows = rows]
    BY <1>9 DEF Open
  <2>2. analysis \in Content
    BY <1>1, <1>9 DEF Open, Takes, WayIsTrue
  <2>3. rows \in Seq(Row)
    BY <1>1, <2>2, RowsAreTyped
  <2> DEFINE s == [staged[c] EXCEPT !.rows = rows]
  <2>4. s \in Staged /\ staged' = [staged EXCEPT ![c] = s]
    BY <1>0, <2>1, <2>3 DEF Staged
  <2> HIDE DEF s
  <2> QED
    BY <1>3, <1>9, <2>4 DEF Open
<1>10. ASSUME NEW op \in Request, ReadAssessment(c, op) PROVE LocalTyped' /\ OthersRest(c)
  <2> DEFINE r == [NoRequest EXCEPT !.op = op, !.analysis = analysis, !.review = review, !.pending = {f \in Finding : Pending(f)}]
  <2>1. op \in Ops
    <3>1. Request \subseteq Operation
      BY <1>1, GovernanceAssumption DEF SharedTyped, Request
    <3> QED
      BY <3>1 DEF Operation, Path, Ops
  <2>2. review \in Nat
    BY <1>1, LenProperties DEF SharedTyped
  <2>3. r \in Asked
    BY <1>1, <2>1, <2>2 DEF NoRequest, Asked, SharedTyped
  <2>4. request' = [request EXCEPT ![c] = r] /\ pc' = [pc EXCEPT ![c] = "scope"] /\ UNCHANGED <<staged, late>>
    BY <1>10 DEF ReadAssessment
  <2> HIDE DEF r
  <2> QED
    BY <1>0, <1>2, <2>3, <2>4 DEF LocalTyped, OthersRest
<1>11. CASE ReadScope(c)
  <2> DEFINE target == plan[request[c].analysis]
             code == Code(session[request[c].analysis])
             r == [request[c] EXCEPT !.target = target, !.code = code]
  <2>1. request' = [request EXCEPT ![c] = r] /\ pc' = [pc EXCEPT ![c] = "take"] /\ UNCHANGED <<staged, late>>
    BY <1>0, <1>11 DEF ReadScope
  <2>2. request[c].analysis \in Content
    BY <1>1, <1>11 DEF ReadScope, WayIsTrue
  <2>3. target \in Plan \cup {None} /\ code \in Nat \cup {None}
    BY <1>1, <2>2 DEF SharedTyped, Code, Copy, Session, Sessions
  <2> HIDE DEF target, code
  <2>4. r \in Asked
    BY <1>0, <2>3 DEF Asked
  <2> HIDE DEF r
  <2> QED
    BY <1>0, <1>2, <2>1, <2>4 DEF LocalTyped, OthersRest
<1>12. CASE Leave(c)
  <2>1. NoRequest \in Asked /\ Nothing \in Staged
    BY EmptySeq DEF NoRequest, Asked, Nothing, Staged, Copy
  <2> QED
    BY <1>0, <1>2, <1>12, <2>1 DEF Leave, LocalTyped, OthersRest
<1> QED
  BY <1>4, <1>5, <1>6, <1>7, <1>8, <1>9, <1>10, <1>11, <1>12 DEF ClientStep

-----------------------------------------------------------------------------
(* The worker lock *)

\* The steps on the way from the worker lock to the end.
Walk(c) ==
  \/ CheckSources(c) \/ Fence(c) \/ Detail(c) \/ CreateFiles(c) \/ Register(c) \/ Export(c) \/ Compare(c)
  \/ Recheck(c) \/ WriteFiles(c) \/ BeginSession(c) \/ Open(c) \/ Verify(c) \/ Commit(c) \/ Apply(c)

LEMMA Walks ==
  ASSUME IInv, NEW c \in Client, Walk(c)
  PROVE  /\ lock = c /\ UNCHANGED <<setting, lock, request, late, disk, analysis, assessed>>
         /\ \E step \in Steps \ {"take", "done"} : Takes(c, step)
<1>1. /\ UNCHANGED <<setting, lock, request, late, disk, analysis, assessed>>
      /\ \E step \in Steps \ {"take", "done"} : Takes(c, step)
  BY DEF Walk, CheckSources, Fence, Detail, CreateFiles, Register, Export, Compare, Recheck, WriteFiles, BeginSession,
         Open, Verify, Commit, Apply, locks, storage, database, Steps
<1>2. pc[c] \notin {"idle", "scope", "take"}
  BY <1>1 DEF Takes, Steps
<1> QED
  BY <1>1, <1>2 DEF IInv, Ways, WayIsTrue

\* The others have no lock while a client walks.
LEMMA OthersWait ==
  ASSUME IInv, NEW c \in Client, lock = c, NEW d \in Client \ {c}
  PROVE  pc[d] \in {"idle", "scope", "take"} /\ writer # d
<1>1. WayIsTrue(d) /\ TransactionIsTrue(d)
  BY DEF IInv, Ways, Transactions
<1>2. pc[d] \in {"idle", "scope", "take"}
  BY <1>1 DEF WayIsTrue
<1> QED
  BY <1>1, <1>2 DEF TransactionIsTrue

LEMMA WaysKeep ==
  ASSUME IInv, [Next]_vars
  PROVE  Ways'
<1>0. /\ SharedTyped /\ LocalTyped /\ Typed /\ \A c \in Client : WayIsTrue(c)
      /\ lock \in Client \cup {None} /\ None \notin Client
  BY GovernanceAssumption DEF IInv, Typed, SharedTyped, Ways
<1>1. review \in Nat /\ review' \in Nat /\ review <= review' /\ setting' = setting
  BY <1>0, SharedKeeps, LenProperties DEF SharedTyped, Kept
<1>r. Content' = Content /\ \A c \in Client : request[c].review \in Nat
  BY <1>0, <1>1, SameSets DEF LocalTyped, Asked
<1>2. ASSUME NEW c \in Client, Walk(c) PROVE Ways'
  <2>1. lock = c /\ UNCHANGED <<setting, lock, request, analysis>>
    BY <1>2, Walks
  <2>2. PICK step \in Steps \ {"take", "done"} : Takes(c, step)
    BY <1>2, Walks
  <2>3. /\ pc[c] = step /\ pc'[c] \in Steps \ {"take"}
        /\ \E i \in DOMAIN Path[request[c].op] : Path[request[c].op][i] = pc'[c]
        /\ \A d \in Client \ {c} : pc'[d] = pc[d]
    BY <1>0, <2>2, Advances
  <2>4. WayIsTrue(c)'
    BY <1>0, <1>1, <1>r, <2>1, <2>2, <2>3 DEF WayIsTrue, Steps
  <2>5. ASSUME NEW d \in Client \ {c} PROVE WayIsTrue(d)'
    BY <1>0, <1>1, <1>r, <2>1, <2>3 DEF WayIsTrue
  <2> QED
    BY <2>4, <2>5 DEF Ways
<1>3. ASSUME NEW c \in Client, TakeLock(c) PROVE Ways'
  <2>1. lock = None /\ lock' = c /\ UNCHANGED <<request, analysis>> /\ Takes(c, "take")
    BY <1>3 DEF TakeLock, Lock!Acquire, database
  <2>3. /\ pc[c] = "take" /\ pc'[c] \in Steps \ {"take"}
        /\ \E i \in DOMAIN Path[request[c].op] : Path[request[c].op][i] = pc'[c]
        /\ \A d \in Client \ {c} : pc'[d] = pc[d]
    BY <1>0, <2>1, Advances DEF Steps
  <2>4. WayIsTrue(c)'
    BY <1>0, <1>1, <1>r, <2>1, <2>3 DEF WayIsTrue, Steps
  <2>5. ASSUME NEW d \in Client \ {c} PROVE WayIsTrue(d)'
    BY <1>0, <1>1, <1>r, <2>1, <2>3 DEF WayIsTrue
  <2> QED
    BY <2>4, <2>5 DEF Ways
<1>4. ASSUME NEW c \in Client, (\E op \in Request : ReadAssessment(c, op)) \/ ReadScope(c) \/ Leave(c) PROVE Ways'
  <2>1. OthersRest(c) /\ LocalTyped'
    BY <1>4, LocalKeeps DEF ClientStep
  <2>2. analysis' = analysis /\ review' = review /\ \A d \in Client \ {c} : lock' = d <=> lock = d
    BY <1>0, <1>4 DEF ReadAssessment, ReadScope, Leave, locks, database
  <2>3. WayIsTrue(c)'
    <3>1. CASE \E op \in Request : ReadAssessment(c, op)
      <4>1. PICK op \in Request : ReadAssessment(c, op)
        BY <3>1
      <4>2. op \in Ops
        <5>1. Request \subseteq Operation
          BY <1>0, GovernanceAssumption DEF SharedTyped, Request
        <5> QED
          BY <5>1 DEF Operation, Path, Ops
      <4>3. /\ request'[c].op = op /\ request'[c].review = review /\ request'[c].analysis = analysis
            /\ pc'[c] = "scope" /\ pc[c] = "idle" /\ lock' = lock /\ analysis # None
        BY <1>0, <4>1 DEF ReadAssessment, LocalTyped, NoRequest, locks
      <4>4. analysis \in Content
        BY <1>0, <4>3 DEF SharedTyped
      <4>5. Content' = Content
        BY <1>1, SameSets
      <4> QED
        BY <1>0, <1>1, <2>2, <4>2, <4>3, <4>4, <4>5 DEF WayIsTrue
    <3>2. CASE ReadScope(c)
      <4>1. /\ request'[c].op = request[c].op /\ request'[c].review = request[c].review
            /\ request'[c].analysis = request[c].analysis
            /\ pc'[c] = "take" /\ pc[c] = "scope" /\ lock' = lock
        BY <1>0, <3>2 DEF ReadScope, LocalTyped, Asked, locks
      <4>2. Path[request[c].op][1] = "take" /\ 1 \in DOMAIN Path[request[c].op]
        <5>1. request[c].op \in Ops
          BY <1>0, <4>1 DEF WayIsTrue
        <5> QED
          BY <5>1 DEF Path, Ops
      <4>3. Content' = Content
        BY <1>1, SameSets
      <4> QED
        BY <1>0, <2>2, <4>1, <4>2, <4>3 DEF WayIsTrue
    <3>3. CASE Leave(c)
      <4>1. pc'[c] = "idle" /\ lock' # c
        BY <1>0, <3>3 DEF Leave, LocalTyped
      <4> QED
        BY <4>1 DEF WayIsTrue
    <3> QED
      BY <1>4, <3>1, <3>2, <3>3
  <2>4. ASSUME NEW d \in Client \ {c} PROVE WayIsTrue(d)'
    <3>1. Content' = Content
      BY <1>1, SameSets
    <3> QED
      BY <1>0, <2>1, <2>2, <3>1 DEF WayIsTrue, OthersRest
  <2> QED
    BY <2>3, <2>4 DEF Ways
<1>5. CASE Environment \/ UNCHANGED vars
  <2>1. UNCHANGED <<lock, pc, request>> /\ (analysis' = analysis \/ analysis' = disk)
    BY <1>5 DEF Environment, Analyze, Edit, ExternalReview, LegacyCode, vars, locks, local, database
  <2>2. disk \in Content /\ Content' = Content
    BY <1>0, <1>1, SameSets DEF SharedTyped
  <2>3. ASSUME NEW d \in Client PROVE WayIsTrue(d)'
    BY <1>0, <1>1, <1>r, <2>1, <2>2 DEF WayIsTrue
  <2> QED
    BY <2>3 DEF Ways
<1> QED
  BY <1>2, <1>3, <1>4, <1>5 DEF Next, ClientStep, Walk

-----------------------------------------------------------------------------
(* The transactions of the project database *)

\* What a transaction rests on.
Basis == <<analysis, review, log, plan>>

\* A client that has no transaction, before and after.
LEMMA NoTransaction ==
  ASSUME NEW c, writer' # c, pc'[c] \notin {"verify", "commit", "apply"}
  PROVE  TransactionIsTrue(c)'
BY DEF TransactionIsTrue

\* A client at rest, while nobody writes the project database.
LEMMA RestInTransaction ==
  ASSUME NEW c, TransactionIsTrue(c), UNCHANGED <<Basis, disk>>, writer' = c <=> writer = c,
         pc'[c] = pc[c], request'[c] = request[c], staged'[c] = staged[c], c \in late => c \in late'
  PROVE  TransactionIsTrue(c)'
BY DEF TransactionIsTrue, Basis, Fenced, RowsAreTrue, Pending, Undecided

LEMMA TransactionsKeep ==
  ASSUME IInv, [Next]_vars
  PROVE  Transactions'
<1>0. /\ SharedTyped /\ LocalTyped /\ Typed /\ \A c \in Client : WayIsTrue(c) /\ TransactionIsTrue(c)
      /\ lock \in Client \cup {None} /\ writer \in Client \cup {None} /\ None \notin Client
  BY GovernanceAssumption DEF IInv, Typed, SharedTyped, Ways, Transactions
<1>1. ASSUME NEW c \in Client, Walk(c) PROVE Transactions'
  <2>1. lock = c /\ UNCHANGED <<request, late, disk, analysis>>
    BY <1>1, Walks
  <2>2. PICK step \in Steps \ {"take", "done"} : Takes(c, step)
    BY <1>1, Walks
  <2>3. /\ pc[c] = step /\ request[c].op \in Ops /\ pc'[c] = After(request[c].op, step)
        /\ \A d \in Client \ {c} : pc'[d] = pc[d]
    BY <1>0, <2>2, Advances
  <2>4. ASSUME NEW d \in Client \ {c} PROVE TransactionIsTrue(d)'
    <3>1. pc[d] \in {"idle", "scope", "take"} /\ writer # d
      BY <2>1, OthersWait
    <3>2. writer' \in {writer, c, None}
      BY <1>1 DEF Walk, CheckSources, Fence, Detail, CreateFiles, Register, Export, Compare, Recheck, WriteFiles,
                  BeginSession, Open, Verify, Commit, Apply, locks
    <3> QED
      BY <1>0, <2>3, <3>1, <3>2, NoTransaction
  <2>5. TransactionIsTrue(c)'
    <3>0. TransactionIsTrue(c)
      BY <1>0
    <3>1. CASE CheckSources(c) \/ Fence(c) \/ Detail(c) \/ CreateFiles(c) \/ Register(c) \/ Export(c) \/ Compare(c)
               \/ Recheck(c) \/ WriteFiles(c) \/ BeginSession(c)
      <4>1. writer' = writer /\ pc[c] \notin {"verify", "commit", "apply", "open"}
        BY <3>1 DEF Takes, CheckSources, Fence, Detail, CreateFiles, Register, Export, Compare, Recheck, WriteFiles,
                    BeginSession, locks
      <4>2. writer # c
        BY <3>0, <4>1 DEF TransactionIsTrue
      <4>3. pc'[c] \notin {"verify", "commit", "apply"}
        BY <2>3, <4>1 DEF After, Steps
      <4> QED
        BY <4>1, <4>2, <4>3, NoTransaction
    <3>2. CASE Open(c)
      <4>1. pc[c] = "open" /\ writer' = c /\ Fenced(c) /\ UNCHANGED Basis
            /\ (request[c].op = "approve" => request[c].target = plan[analysis])
        BY <3>2 DEF Open, Takes, Op, database, Basis
      <4>2. PICK rows \in RowsOf(c) : staged' = [staged EXCEPT ![c].rows = rows]
        BY <3>2 DEF Open
      <4>3. analysis \in Content
        BY <1>0, <4>1 DEF WayIsTrue
      <4>4. RowsAreTrue(rows) /\ staged'[c].rows = rows
        BY <1>0, <4>2, <4>3, RowsAreTyped DEF LocalTyped, Staged
      <4>5. RowsAreTrue(staged[c].rows)'
        BY <4>1, <4>4 DEF RowsAreTrue, Pending, Undecided, Basis
      <4>6. pc'[c] = "verify"
        BY <2>3, <4>1 DEF After
      <4> QED
        BY <2>1, <4>1, <4>5, <4>6 DEF TransactionIsTrue, Fenced, Basis
    <3>3. CASE Verify(c)
      <4>1. pc[c] = "verify" /\ disk = analysis /\ UNCHANGED <<Basis, writer, staged>>
        BY <3>3 DEF Verify, Takes, Verified, locks, database, Basis
      <4>2. writer = c /\ Fenced(c) /\ RowsAreTrue(staged[c].rows)
            /\ (request[c].op = "approve" => request[c].target = plan[analysis])
        BY <3>0, <4>1 DEF TransactionIsTrue
      <4>3. pc'[c] = "commit" \/ (pc'[c] = "apply" /\ request[c].op = "approve")
        BY <2>3, <4>1 DEF After
      <4>4. Fenced(c)' /\ RowsAreTrue(staged[c].rows)'
        BY <2>1, <4>1, <4>2 DEF Fenced, RowsAreTrue, Pending, Undecided, Basis
      <4> QED
        BY <2>1, <4>1, <4>2, <4>3, <4>4 DEF TransactionIsTrue, Basis
    <3>4. CASE Commit(c)
      <4>1. pc[c] = "commit" /\ writer' = None
        BY <3>4 DEF Commit, Takes
      <4>2. pc'[c] = "done" \/ (pc'[c] = "apply" /\ request[c].op = "configure")
        BY <2>3, <4>1 DEF After
      <4> QED
        BY <1>0, <2>1, <4>1, <4>2 DEF TransactionIsTrue
    <3>5. CASE Apply(c)
      <4>1. pc[c] = "apply" /\ UNCHANGED <<Basis, writer, staged>>
        BY <3>5 DEF Apply, Takes, Basis
      <4>2. CASE request[c].op = "approve"
        <5>1. /\ writer = c /\ Fenced(c) /\ RowsAreTrue(staged[c].rows) /\ request[c].target = plan[analysis]
              /\ disk = analysis \/ c \in late
          BY <3>0, <4>1, <4>2 DEF TransactionIsTrue
        <5>2. pc'[c] = "commit"
          BY <2>3, <4>1, <4>2 DEF After
        <5>3. Fenced(c)' /\ RowsAreTrue(staged[c].rows)'
          BY <2>1, <4>1, <5>1 DEF Fenced, RowsAreTrue, Pending, Undecided, Basis
        <5> QED
          BY <2>1, <4>1, <5>1, <5>2, <5>3 DEF TransactionIsTrue, Basis
      <4>3. CASE request[c].op # "approve"
        <5>1. writer # c
          BY <3>0, <4>1, <4>3 DEF TransactionIsTrue
        <5>2. request[c].op = "configure"
          BY <1>0, <4>1, <4>3 DEF WayIsTrue, Path, Ops
        <5>3. pc'[c] = "done"
          BY <2>3, <4>1, <5>2 DEF After
        <5> QED
          BY <4>1, <5>1, <5>3, NoTransaction
      <4> QED
        BY <4>2, <4>3
    <3> QED
      BY <1>1, <3>1, <3>2, <3>3, <3>4, <3>5 DEF Walk
  <2> QED
    BY <2>4, <2>5 DEF Transactions
<1>2. ASSUME NEW c \in Client, (\E op \in Request : ReadAssessment(c, op)) \/ ReadScope(c) \/ TakeLock(c) \/ Leave(c)
      PROVE Transactions'
  <2>1. OthersRest(c) /\ LocalTyped'
    BY <1>2, LocalKeeps DEF ClientStep
  <2>2. UNCHANGED <<Basis, disk>> /\ late' \in {late, late \ {c}} /\ \A d \in Client \ {c} : writer' = d <=> writer = d
    BY <1>0, <1>2 DEF ReadAssessment, ReadScope, TakeLock, Leave, locks, storage, database, Basis
  <2>3. ASSUME NEW d \in Client \ {c} PROVE TransactionIsTrue(d)'
    BY <1>0, <2>1, <2>2, RestInTransaction DEF OthersRest
  <2>4. TransactionIsTrue(c)'
    <3>1. TransactionIsTrue(c) /\ WayIsTrue(c) /\ pc \in [Client -> Steps \cup {"idle", "scope"}]
      BY <1>0 DEF LocalTyped
    <3>2. CASE Leave(c)
      <4>1. pc'[c] = "idle" /\ writer' # c
        BY <1>0, <3>1, <3>2 DEF Leave
      <4> QED
        BY <4>1, NoTransaction
    <3>3. CASE (\E op \in Request : ReadAssessment(c, op)) \/ ReadScope(c)
      <4>1. pc'[c] \in {"scope", "take"} /\ writer' = writer /\ pc[c] \in {"idle", "scope"}
        BY <3>1, <3>3 DEF ReadAssessment, ReadScope, locks
      <4> QED
        BY <3>1, <4>1, NoTransaction DEF TransactionIsTrue
    <3>4. CASE TakeLock(c)
      <4>1. pc[c] = "take" /\ writer' = writer /\ Takes(c, "take")
        BY <3>4 DEF TakeLock, Takes
      <4>2. pc'[c] = "check"
        BY <1>0, <4>1, Advances DEF After, Steps
      <4> QED
        BY <3>1, <4>1, <4>2, NoTransaction DEF TransactionIsTrue
    <3> QED
      BY <1>2, <3>2, <3>3, <3>4
  <2> QED
    BY <2>3, <2>4 DEF Transactions
<1>3. CASE Analyze \/ \E f \in Finding, kind \in {"resolve", "leave"}, a \in Content : ExternalReview(f, kind, a)
  <2>1. writer = None /\ writer' = writer /\ pc' = pc /\ request' = request
    BY <1>3 DEF Analyze, ExternalReview, locks, local
  <2>2. ASSUME NEW d \in Client PROVE TransactionIsTrue(d)'
    BY <1>0, <2>1 DEF TransactionIsTrue
  <2> QED
    BY <2>2 DEF Transactions
<1>4. CASE \E e \in Content : Edit(e)
  <2>1. UNCHANGED <<Basis, writer, pc, request, staged>> /\ late' = late \cup {c \in Client : pc[c] \in {"commit", "apply"}}
    BY <1>4 DEF Edit, locks, local, database, Basis
  <2>2. ASSUME NEW d \in Client PROVE TransactionIsTrue(d)'
    BY <1>0, <2>1 DEF TransactionIsTrue, Fenced, RowsAreTrue, Pending, Undecided, Basis
  <2> QED
    BY <2>2 DEF Transactions
<1>5. CASE (\E a \in Content, k \in Keys : LegacyCode(a, k)) \/ UNCHANGED vars
  <2>1. UNCHANGED <<Basis, disk, writer, pc, request, staged, late>>
    BY <1>5 DEF LegacyCode, vars, locks, local, storage, database, Basis
  <2>2. ASSUME NEW d \in Client PROVE TransactionIsTrue(d)'
    BY <1>0, <2>1, RestInTransaction
  <2> QED
    BY <2>2 DEF Transactions
<1> QED
  BY <1>1, <1>2, <1>3, <1>4, <1>5 DEF Next, Environment, ClientStep, Walk

-----------------------------------------------------------------------------
(* What a generation knows *)

\* A session that vouches goes on vouching.
LEMMA VouchesStays ==
  ASSUME SharedTyped, SharedTyped', Kept, NEW a \in Content, NEW n, NEW t, NEW k \in Nat,
         Vouches(session[a], a, n, t, k)
  PROVE  Vouches(session'[a], a, n, t, k)
<1>1. session[a] # None /\ session[a] \in Session
  BY DEF Vouches, SharedTyped, Copy
<1>2. session'[a] # None /\ (session'[a] = session[a] \/ session'[a].code > session[a].code)
  BY <1>1 DEF Kept
<1>3. session'[a] \in Session
  BY <1>2, SameSets DEF SharedTyped, Kept, Copy
<1>4. session[a].code \in Nat /\ session'[a].code \in Nat
  BY <1>1, <1>3 DEF Session, Sessions
<1> QED
  BY <1>2, <1>4 DEF Vouches

\* What was resolved at a review revision was resolved at that revision.
LEMMA ResolvedStays ==
  ASSUME Kept, NEW a, NEW n \in 0..review, Resolved(a, SubSeq(log, 1, n))
  PROVE  Resolved(a, SubSeq(log, 1, n))'
<1>1. SubSeq(log', 1, n) = SubSeq(log, 1, n) /\ Finding' = Finding
  BY SameSets DEF Kept
<1> QED
  BY <1>1 DEF Resolved

LEMMA AuthorizedStays ==
  ASSUME IInv, SharedTyped', Kept, NEW c \in Client, pc[c] # "idle", analysis' = analysis, request'[c] = request[c],
         Authorized(c)
  PROVE  Authorized(c)'
<1>1. analysis \in Content /\ request[c].review \in 0..review /\ request[c].code \in Nat
  BY LenProperties DEF IInv, Typed, SharedTyped, LocalTyped, Asked, Ways, WayIsTrue, Authorized
<1>2. Vouches(session'[analysis], analysis, request[c].review, request[c].target, request[c].code)
  BY <1>1, VouchesStays DEF IInv, Typed, Authorized
<1>3. Resolved(analysis, SubSeq(log, 1, request[c].review))'
  <2>1. Resolved(analysis, SubSeq(log, 1, request[c].review))
    BY DEF Authorized
  <2>2. SubSeq(log', 1, request[c].review) = SubSeq(log, 1, request[c].review) /\ Finding' = Finding
    BY <1>1, SameSets DEF Kept
  <2> QED
    BY <2>1, <2>2 DEF Resolved
<1> QED
  BY <1>2, <1>3 DEF Authorized, Vouches, Bound

\* Before it has found anything out, a client has nothing to keep.
LEMMA NothingMade ==
  ASSUME NEW c, pc'[c] \in {"idle", "scope", "take", "check", "fence"}
  PROVE  SessionIsTrue(c)' /\ MakesTrue(c)'
BY DEF SessionIsTrue, MakesTrue, CopyIsTrue, Detailed, Exported, Compared, Written

\* A client at rest knows what it knew.
LEMMA RestMakes ==
  ASSUME IInv, SharedTyped', Kept, NEW c \in Client,
         pc'[c] = pc[c], request'[c] = request[c], staged'[c] = staged[c], analysis' = analysis,
         session[analysis] = None => session'[analysis] = None
  PROVE  SessionIsTrue(c)' /\ MakesTrue(c)'
<1>1. SessionIsTrue(c) /\ MakesTrue(c)
  BY DEF IInv, Makes
<1>2. CASE pc[c] = "idle"
  BY <1>2, NothingMade
<1>3. CASE pc[c] # "idle"
  <2>1. analysis \in Content
    BY <1>3 DEF IInv, Ways, WayIsTrue
  <2>2. SessionIsTrue(c)'
    BY <1>1, <2>1 DEF SessionIsTrue, Kept
  <2>3. request[c].op = "generate" /\ pc[c] \in Detailed => Authorized(c)'
    BY <1>1, <1>3, AuthorizedStays DEF MakesTrue
  <2>4. request[c].op = "generate" => CopyIsTrue(c)'
    <3> SUFFICES ASSUME request[c].op = "generate" PROVE CopyIsTrue(c)'
      OBVIOUS
    <3>1. CopyIsTrue(c)
      BY <1>1 DEF MakesTrue
    <3>2. pc[c] = "compare" => staged[c].copy.code <= session'[analysis].code
      <4> SUFFICES ASSUME pc[c] = "compare" PROVE staged[c].copy.code <= session'[analysis].code
        OBVIOUS
      <4>1. staged[c].copy # None /\ staged[c].copy \in Session /\ staged[c].copy.code <= session[analysis].code
        BY <3>1 DEF CopyIsTrue, Exported, Detailed, Vouches, IInv, Typed, LocalTyped, Staged, Copy
      <4>2. session[analysis] # None /\ session[analysis] \in Session
        BY <1>1, <2>1 DEF MakesTrue, Detailed, Authorized, Vouches, IInv, Typed, SharedTyped, Copy
      <4>3. session'[analysis] # None /\ (session'[analysis] = session[analysis] \/ session'[analysis].code > session[analysis].code)
        BY <2>1, <4>2 DEF Kept
      <4>4. session'[analysis] \in Session
        BY <2>1, <4>3, SameSets DEF SharedTyped, Kept, Copy
      <4>5. staged[c].copy.code \in Nat /\ session[analysis].code \in Nat /\ session'[analysis].code \in Nat
        BY <4>1, <4>2, <4>4 DEF Session, Sessions
      <4> QED
        BY <4>1, <4>3, <4>5
    <3> QED
      BY <3>1, <3>2 DEF CopyIsTrue, Kept, Vouches, Bound
  <2> QED
    BY <2>2, <2>3, <2>4 DEF MakesTrue
<1> QED
  BY <1>2, <1>3

\* The steps of an operation that holds the lock.
LEMMA StepsOf ==
  ASSUME NEW o, NEW step, \E i \in DOMAIN Path[o] : Path[o][i] = step, step \notin {"take", "done"}
  PROVE  /\ o = "configure" =>
              step \in {"check", "fence", "detail", "session", "recheck", "open", "verify", "commit", "apply"}
         /\ o = "approve" => step \in {"check", "fence", "session", "open", "verify", "apply", "commit"}
         /\ o = "prepare" => step \in {"check", "fence", "create", "recheck", "register"}
         /\ o = "generate" => step \in {"check", "fence", "detail", "export", "compare", "recheck", "write", "session",
                                        "open", "verify", "commit"}
<1>1. CASE o = "configure"
  BY <1>1 DEF Path
<1>2. CASE o = "approve"
  BY <1>2 DEF Path
<1>3. CASE o = "prepare"
  BY <1>3 DEF Path
<1>4. CASE o = "generate"
  BY <1>4 DEF Path
<1> QED
  BY <1>1, <1>2, <1>3, <1>4

\* A client on its way has the session it needs, or none where it makes one.
LEMMA WalkingHasSession ==
  ASSUME IInv, NEW c \in Client, Walk(c)
  PROVE  SessionIsTrue(c)'
<1>0. lock = c /\ UNCHANGED <<request, analysis>> /\ Kept
  BY Walks, SharedKeeps DEF Next, ClientStep, Walk
<1>1. PICK step \in Steps \ {"take", "done"} : Takes(c, step)
  BY Walks
<1>2. /\ pc[c] = step /\ request[c].op \in Ops /\ pc'[c] = After(request[c].op, step) /\ analysis \in Content
      /\ WayIsTrue(c) /\ SessionIsTrue(c)
  BY <1>1, Advances DEF IInv, Ways, Makes
<1>s. step \notin {"take", "done", "idle", "scope"} /\ \E i \in DOMAIN Path[request[c].op] : Path[request[c].op][i] = step
  BY <1>2 DEF WayIsTrue, Steps
<1>3. CASE request[c].op = "configure"
  <2>1. step \in {"check", "fence", "detail", "session", "recheck", "open", "verify", "commit", "apply"}
    BY <1>2, <1>3, <1>s, StepsOf
  <2>2. pc'[c] \in {"recheck", "open", "verify", "commit", "apply"} => step \in {"session", "recheck", "open", "verify", "commit"}
    BY <1>2, <1>3, <2>1 DEF After
  <2>3. step = "session" => BeginSession(c)
    BY <1>2 DEF Walk, Takes, CheckSources, Fence, Detail, CreateFiles, Register, Export, Compare, Recheck, WriteFiles,
                Open, Verify, Commit, Apply
  <2>4. pc'[c] \in {"recheck", "open", "verify", "commit", "apply"} => session[analysis] # None
    BY <1>2, <1>3, <2>2, <2>3 DEF BeginSession, SessionIsTrue
  <2> QED
    BY <1>0, <1>2, <1>3, <2>4 DEF SessionIsTrue, Kept
<1>4. CASE request[c].op = "approve"
  <2>1. step \in {"check", "fence", "session", "open", "verify", "apply", "commit"}
    BY <1>2, <1>4, <1>s, StepsOf
  <2>2. pc'[c] \in {"recheck", "open", "verify", "commit", "apply"} => step \in {"session", "open", "verify", "apply"}
    BY <1>2, <1>4, <2>1 DEF After
  <2>3. step = "session" => BeginSession(c)
    BY <1>2 DEF Walk, Takes, CheckSources, Fence, Detail, CreateFiles, Register, Export, Compare, Recheck, WriteFiles,
                Open, Verify, Commit, Apply
  <2>4. pc'[c] \in {"recheck", "open", "verify", "commit", "apply"} => session[analysis] # None
    BY <1>2, <1>4, <2>2, <2>3 DEF BeginSession, SessionIsTrue
  <2> QED
    BY <1>0, <1>2, <1>4, <2>4 DEF SessionIsTrue, Kept
<1>5. CASE request[c].op = "prepare"
  <2>1. step \in {"check", "fence", "create", "recheck", "register"}
    BY <1>2, <1>5, <1>s, StepsOf
  <2>2. pc'[c] \in {"recheck", "register"} => step \in {"create", "recheck"}
    BY <1>2, <1>5, <2>1 DEF After
  <2>3. step \in {"create", "recheck"} => session' = session /\ (step = "create" => CreateFiles(c))
    BY <1>2 DEF Walk, Takes, CheckSources, Fence, Detail, CreateFiles, Register, Export, Compare, Recheck, WriteFiles,
                BeginSession, Open, Verify, Commit, Apply, database
  <2>4. step \in {"create", "recheck"} => session[analysis] = None
    BY <1>2, <1>5, <2>3 DEF CreateFiles, SessionIsTrue
  <2> QED
    BY <1>0, <1>5, <2>2, <2>3, <2>4 DEF SessionIsTrue
<1> QED
  BY <1>0, <1>3, <1>4, <1>5 DEF SessionIsTrue

\* A generation on its way knows what it has found out.
LEMMA WalkingMakes ==
  ASSUME IInv, NEW c \in Client, Walk(c)
  PROVE  MakesTrue(c)'
<1>0. lock = c /\ UNCHANGED <<request, analysis>> /\ Kept /\ SharedTyped'
  BY Walks, SharedKeeps DEF Next, ClientStep, Walk
<1> SUFFICES ASSUME request[c].op = "generate" PROVE (pc'[c] \in Detailed => Authorized(c)') /\ CopyIsTrue(c)'
  BY <1>0 DEF MakesTrue
<1>1. PICK step \in Steps \ {"take", "done"} : Takes(c, step)
  BY Walks
<1>2. /\ pc[c] = step /\ pc'[c] = After("generate", step) /\ analysis \in Content
      /\ WayIsTrue(c) /\ MakesTrue(c) /\ SharedTyped /\ request[c] \in Asked /\ staged[c] \in Staged /\ staged \in [Client -> Staged]
  BY <1>1, Advances DEF IInv, Ways, Makes, Typed, LocalTyped
<1>3. step \in {"check", "fence", "detail", "export", "compare", "recheck", "write", "session", "open", "verify", "commit"}
  <2>1. step \notin {"take", "done", "idle", "scope"} /\ \E i \in DOMAIN Path[request[c].op] : Path[request[c].op][i] = step
    BY <1>2 DEF WayIsTrue, Steps
  <2> QED
    BY <2>1, StepsOf
<1> USE DEF Detailed, Exported, Compared, Written
<1>c. \A s \in Copy : s # None => s \in Session /\ s.code \in Nat
  BY DEF Copy, Session, Sessions
<1>a. CASE step \in {"check", "fence"}
  <2>1. pc'[c] \in {"fence", "detail"}
    BY <1>2, <1>a DEF After
  <2> QED
    BY <2>1 DEF CopyIsTrue
<1>d. CASE step = "detail"
  <2>1. Detail(c)
    BY <1>2, <1>d DEF Walk, Takes, CheckSources, Fence, CreateFiles, Register, Export, Compare, Recheck, WriteFiles,
                BeginSession, Open, Verify, Commit, Apply
  <2>2. pc'[c] = "export"
    BY <1>2, <1>d DEF After
  <2>3. session[analysis] # None /\ request[c].code = session[analysis].code
        /\ Ready(analysis, request[c].review, request[c].target, session[analysis])
    BY <2>1 DEF Detail, Op
  <2>4. session[analysis].code \in Nat
    BY <1>c, <1>2, <2>3 DEF SharedTyped
  <2>5. Authorized(c)
    BY <2>3, <2>4 DEF Ready, Authorized, Vouches
  <2>6. Authorized(c)'
    BY <1>0, <1>2, <1>d, <2>5, AuthorizedStays
  <2> QED
    BY <2>2, <2>6 DEF CopyIsTrue
<1>e. CASE step \notin {"check", "fence", "detail"}
  <2>0. Authorized(c) /\ Authorized(c)'
    <3>1. Authorized(c)
      BY <1>2, <1>3, <1>e DEF MakesTrue
    <3> QED
      BY <1>0, <1>2, <1>3, <1>e, <3>1, AuthorizedStays
  <2>1. CopyIsTrue(c)'
    <3>0. CopyIsTrue(c)
      BY <1>2 DEF MakesTrue
    <3>1. CASE step = "export"
      <4>1. Export(c)
        BY <1>2, <3>1 DEF Walk, Takes, CheckSources, Fence, Detail, CreateFiles, Register, Compare, Recheck, WriteFiles,
                    BeginSession, Open, Verify, Commit, Apply
      <4>2. pc'[c] = "compare" /\ staged'[c].copy = session[analysis] /\ session' = session
        BY <1>2, <3>1, <4>1 DEF After, Export, database, Staged
      <4>3. Vouches(session[analysis], analysis, request[c].review, request[c].target, request[c].code)
        BY <2>0 DEF Authorized
      <4>4. session[analysis].code \in Nat
        BY <1>c, <1>2, <4>3 DEF SharedTyped, Vouches
      <4> QED
        BY <1>0, <4>2, <4>3, <4>4 DEF CopyIsTrue, Vouches, Bound
    <3>2. CASE step = "compare"
      <4>1. Compare(c)
        BY <1>2, <3>2 DEF Walk, Takes, CheckSources, Fence, Detail, CreateFiles, Register, Export, Recheck, WriteFiles,
                    BeginSession, Open, Verify, Commit, Apply
      <4>2. pc'[c] = "recheck" /\ staged' = staged /\ session[analysis].code = request[c].code
        BY <1>2, <3>2, <4>1 DEF After, Compare
      <4>3. /\ Vouches(staged[c].copy, analysis, request[c].review, request[c].target, request[c].code)
            /\ staged[c].copy.code <= request[c].code
        BY <1>2, <3>0, <3>2, <4>2 DEF CopyIsTrue
      <4>4. staged[c].copy.code = request[c].code
        <5>1. staged[c].copy.code \in Nat /\ request[c].code \in Nat
          BY <1>c, <1>2, <2>0, <4>3 DEF Staged, Vouches, Authorized
        <5> QED
          BY <4>3, <5>1 DEF Vouches
      <4> QED
        BY <1>0, <4>2, <4>3, <4>4 DEF CopyIsTrue, Vouches, Bound
    <3>3. CASE step = "recheck"
      <4>1. pc'[c] = "write" /\ staged' = staged
        BY <1>2, <3>3 DEF After, Walk, Takes, CheckSources, Fence, Detail, CreateFiles, Register, Export, Compare, Recheck,
                    WriteFiles, BeginSession, Open, Verify, Commit, Apply
      <4> QED
        BY <1>0, <1>2, <3>0, <3>3, <4>1 DEF CopyIsTrue, Vouches, Bound
    <3>4. CASE step = "write"
      <4>1. WriteFiles(c)
        BY <1>2, <3>4 DEF Walk, Takes, CheckSources, Fence, Detail, CreateFiles, Register, Export, Compare, Recheck,
                    BeginSession, Open, Verify, Commit, Apply
      <4>2. /\ pc'[c] = "session" /\ folders' = Append(folders, staged[c].copy)
            /\ staged' = [staged EXCEPT ![c].folder = Len(folders) + 1]
        BY <1>2, <3>4, <4>1 DEF After, WriteFiles
      <4>3. staged'[c].folder = Len(folders) + 1 /\ staged'[c].copy = staged[c].copy
        BY <1>2, <4>2 DEF Staged
      <4>4. Len(folders) + 1 \in DOMAIN folders' /\ folders'[Len(folders) + 1] = staged[c].copy
        <5>1. folders \in Seq(Copy) /\ staged[c].copy \in Copy
          BY <1>2 DEF SharedTyped, Staged
        <5>2. /\ folders' \in Seq(Copy) /\ Len(folders') = Len(folders) + 1
              /\ folders'[Len(folders) + 1] = staged[c].copy
          BY <4>2, <5>1, AppendProperties
        <5>3. Len(folders) \in Nat /\ DOMAIN folders' = 1..Len(folders')
          BY <5>1, <5>2, LenProperties
        <5> QED
          BY <5>2, <5>3
      <4>5. /\ Vouches(staged[c].copy, analysis, request[c].review, request[c].target, request[c].code)
            /\ staged[c].copy.code = request[c].code
        BY <1>2, <3>0, <3>4 DEF CopyIsTrue
      <4> QED
        BY <1>0, <4>2, <4>3, <4>4, <4>5 DEF CopyIsTrue, Vouches, Bound
    <3>5. CASE step \in {"session", "open", "verify", "commit"}
      <4>1. pc'[c] \in {"open", "verify", "commit", "done"}
        BY <1>2, <3>5 DEF After
      <4>2. BeginSession(c) \/ Open(c) \/ Verify(c) \/ Commit(c)
        BY <1>2, <3>5 DEF Walk, Takes, CheckSources, Fence, Detail, CreateFiles, Register, Export, Compare, Recheck,
                    WriteFiles, Apply
      <4>3. staged'[c].copy = staged[c].copy /\ staged'[c].folder = staged[c].folder
        BY <1>2, <4>2 DEF BeginSession, Open, Verify, Commit, Staged
      <4>4. /\ Vouches(staged[c].copy, analysis, request[c].review, request[c].target, request[c].code)
            /\ staged[c].copy.code = request[c].code
            /\ staged[c].folder \in DOMAIN folders /\ folders[staged[c].folder] = staged[c].copy
        BY <1>2, <3>0, <3>5 DEF CopyIsTrue
      <4>5. staged[c].folder \in DOMAIN folders' /\ folders'[staged[c].folder] = staged[c].copy
        BY <1>0, <4>4 DEF Kept
      <4> QED
        BY <1>0, <4>1, <4>3, <4>4, <4>5 DEF CopyIsTrue, Vouches, Bound
    <3> QED
      BY <1>3, <1>e, <3>1, <3>2, <3>3, <3>4, <3>5
  <2> QED
    BY <2>0, <2>1
<1> QED
  BY <1>a, <1>d, <1>e

LEMMA MakesKeep ==
  ASSUME IInv, [Next]_vars
  PROVE  Makes'
<1>0. /\ SharedTyped /\ SharedTyped' /\ LocalTyped /\ Typed /\ Kept /\ \A c \in Client : WayIsTrue(c)
      /\ lock \in Client \cup {None} /\ None \notin Client
  BY SharedKeeps, GovernanceAssumption DEF IInv, Typed, SharedTyped, Ways
<1>1. ASSUME NEW c \in Client, Walk(c) PROVE Makes'
  <2>1. SessionIsTrue(c)' /\ MakesTrue(c)'
    BY <1>1, WalkingHasSession, WalkingMakes
  <2>2. ASSUME NEW d \in Client \ {c} PROVE SessionIsTrue(d)' /\ MakesTrue(d)'
    <3>1. lock = c
      BY <1>1, Walks
    <3>2. pc[d] \in {"idle", "scope", "take"}
      BY <3>1, OthersWait
    <3>3. pc'[d] = pc[d]
      BY <1>1, LocalKeeps DEF ClientStep, Walk, OthersRest
    <3> QED
      BY <3>2, <3>3, NothingMade
  <2> QED
    BY <2>1, <2>2 DEF Makes
<1>2. ASSUME NEW c \in Client, (\E op \in Request : ReadAssessment(c, op)) \/ ReadScope(c) \/ TakeLock(c) \/ Leave(c)
      PROVE Makes'
  <2>1. OthersRest(c) /\ analysis' = analysis /\ session' = session
    BY <1>2, LocalKeeps DEF ClientStep, ReadAssessment, ReadScope, TakeLock, Leave, database
  <2>2. ASSUME NEW d \in Client \ {c} PROVE SessionIsTrue(d)' /\ MakesTrue(d)'
    BY <1>0, <2>1, RestMakes DEF OthersRest
  <2>3. pc'[c] \in {"idle", "scope", "take", "check"}
    <3>1. CASE TakeLock(c)
      <4>1. Takes(c, "take")
        BY <3>1 DEF TakeLock
      <4> QED
        BY <1>0, <4>1, Advances DEF After, Steps
    <3>2. CASE (\E op \in Request : ReadAssessment(c, op)) \/ ReadScope(c) \/ Leave(c)
      BY <1>0, <3>2 DEF ReadAssessment, ReadScope, Leave, LocalTyped
    <3> QED
      BY <1>2, <3>1, <3>2
  <2>4. SessionIsTrue(c)' /\ MakesTrue(c)'
    BY <2>3, NothingMade
  <2> QED
    BY <2>2, <2>4 DEF Makes
<1>3. CASE Analyze
  <2>1. ASSUME NEW d \in Client PROVE pc'[d] \in {"idle", "scope", "take"}
    BY <1>0, <1>3 DEF Analyze, local, WayIsTrue
  <2>2. ASSUME NEW d \in Client PROVE SessionIsTrue(d)' /\ MakesTrue(d)'
    BY <2>1, NothingMade
  <2> QED
    BY <2>2 DEF Makes
<1>4. CASE \/ \E e \in Content : Edit(e)
           \/ \E f \in Finding, kind \in {"resolve", "leave"}, a \in Content : ExternalReview(f, kind, a)
           \/ \E a \in Content, k \in Keys : LegacyCode(a, k)
           \/ UNCHANGED vars
  <2>1. UNCHANGED <<pc, request, staged, analysis>>
    BY <1>4 DEF Edit, ExternalReview, LegacyCode, local, database, vars
  <2>2. session[analysis] = None => session'[analysis] = None
    <3>1. CASE \E a \in Content, k \in Keys : LegacyCode(a, k)
      <4>1. PICK a \in Content : session[a] # None /\ \E s : session' = [session EXCEPT ![a] = s]
        BY <3>1 DEF LegacyCode
      <4> QED
        BY <1>0, <4>1 DEF SharedTyped
    <3>2. CASE ~\E a \in Content, k \in Keys : LegacyCode(a, k)
      BY <1>4, <3>2 DEF Edit, ExternalReview, vars, database
    <3> QED
      BY <3>1, <3>2
  <2>3. ASSUME NEW d \in Client PROVE SessionIsTrue(d)' /\ MakesTrue(d)'
    BY <1>0, <2>1, <2>2, RestMakes
  <2> QED
    BY <2>3 DEF Makes
<1> QED
  BY <1>1, <1>2, <1>3, <1>4 DEF Next, Environment, ClientStep, Walk

-----------------------------------------------------------------------------
(* Artifacts *)

\* What its row says of an artifact stays so.
LEMMA ArtifactStays ==
  ASSUME SharedTyped, SharedTyped', Kept, NEW x \in artifacts, ArtifactIsTrue(x)
  PROVE  ArtifactIsTrue(x)'
<1> SUFFICES ASSUME x.target # None PROVE ArtifactIsTrue(x)'
  BY DEF ArtifactIsTrue
<1>1. x.analysis \in Content /\ x.review \in Nat /\ x.code \in Nat /\ x.review <= review
  BY DEF SharedTyped, Artifact, ArtifactIsTrue
<1>2. Vouches(session'[x.analysis], x.analysis, x.review, x.target, x.code)
  BY <1>1, VouchesStays DEF ArtifactIsTrue
<1>3. review \in Nat /\ review' \in Nat /\ review <= review'
  BY LenProperties DEF SharedTyped, Kept
<1>4. Resolved(x.analysis, SubSeq(log, 1, x.review))'
  <2>1. x.review \in 0..review
    BY <1>1, <1>3
  <2> QED
    BY <2>1, ResolvedStays DEF ArtifactIsTrue
<1>5. x.folder \in DOMAIN folders' /\ folders'[x.folder] = folders[x.folder]
  BY DEF ArtifactIsTrue, Kept
<1> QED
  BY <1>1, <1>2, <1>3, <1>4, <1>5 DEF ArtifactIsTrue, Vouches, Bound

\* The artifact of a generation is what its row says.
LEMMA NewArtifactIsTrue ==
  ASSUME IInv, NEW c \in Client, Commit(c), request[c].op \in {"generate", "package"}
  PROVE  ArtifactIsTrue(NewArtifact(c))
<1>1. CASE request[c].op = "package"
  <2>1. NewArtifact(c).target = None
    BY <1>1 DEF NewArtifact, Op
  <2> QED
    BY <2>1 DEF ArtifactIsTrue
<1>2. CASE request[c].op = "generate"
  <2> DEFINE x == NewArtifact(c)
  <2>1. /\ x.analysis = analysis /\ x.review = request[c].review /\ x.target = request[c].target
        /\ x.code = request[c].code /\ x.folder = staged[c].folder
    BY <1>2 DEF NewArtifact, Op
  <2>2. pc[c] = "commit"
    BY DEF Commit, Takes
  <2>3. Authorized(c) /\ CopyIsTrue(c) /\ request[c].review <= review
    BY <1>2, <2>2 DEF IInv, Makes, MakesTrue, Detailed, Ways, WayIsTrue
  <2>4. /\ Vouches(staged[c].copy, analysis, request[c].review, request[c].target, request[c].code)
        /\ staged[c].copy.code = request[c].code
        /\ staged[c].folder \in DOMAIN folders /\ folders[staged[c].folder] = staged[c].copy
    BY <2>2, <2>3 DEF CopyIsTrue, Written, Compared, Exported, Detailed
  <2> HIDE DEF x
  <2> QED
    BY <2>1, <2>3, <2>4 DEF ArtifactIsTrue, Authorized, x
<1> QED
  BY <1>1, <1>2

LEMMA ArtifactsKeep ==
  ASSUME IInv, [Next]_vars
  PROVE  Artifacts'
<1>0. SharedTyped /\ SharedTyped' /\ Kept
  BY SharedKeeps DEF IInv, Typed
<1>1. ASSUME NEW x \in artifacts PROVE ArtifactIsTrue(x)'
  BY <1>0, ArtifactStays DEF IInv, Artifacts
<1>2. ASSUME NEW c \in Client, Commit(c), NEW x \in artifacts' \ artifacts PROVE ArtifactIsTrue(x)'
  <2>1. x = NewArtifact(c) /\ request[c].op \in {"generate", "package"}
    BY <1>2 DEF Commit, Op
  <2>2. ArtifactIsTrue(x)
    BY <1>2, <2>1, NewArtifactIsTrue
  <2>3. UNCHANGED <<session, folders, setting>>
    BY <1>2 DEF Commit, storage
  <2>4. x \in Artifact
    BY <1>0, SameSets DEF SharedTyped, Kept
  <2> SUFFICES ASSUME x.target # None PROVE ArtifactIsTrue(x)'
    BY DEF ArtifactIsTrue
  <2>5. review \in Nat /\ review' \in Nat /\ review <= review'
    BY <1>0, LenProperties DEF SharedTyped, Kept
  <2>6. x.review \in Nat /\ x.review <= review
    BY <2>2, <2>4 DEF Artifact, ArtifactIsTrue
  <2>7. Resolved(x.analysis, SubSeq(log, 1, x.review))'
    <3>1. x.review \in 0..review
      BY <2>5, <2>6
    <3> QED
      BY <1>0, <2>2, <3>1, ResolvedStays DEF ArtifactIsTrue
  <2> QED
    BY <2>2, <2>3, <2>5, <2>6, <2>7 DEF ArtifactIsTrue, Vouches, Bound
<1>3. (\E c \in Client : Commit(c)) \/ artifacts' = artifacts
  BY DEF Next, Environment, ClientStep, Analyze, Edit, ExternalReview, LegacyCode, ReadAssessment, ReadScope, TakeLock,
         CheckSources, Fence, Detail, CreateFiles, Register, Export, Compare, Recheck, WriteFiles, BeginSession, Open,
         Verify, Apply, Leave, vars, database
<1> QED
  BY <1>1, <1>2, <1>3 DEF Artifacts

-----------------------------------------------------------------------------
(* Bulk acceptances *)

LEMMA UndecidedBefore ==
  ASSUME NEW S, NEW q \in Seq(S), NEW i \in 1..Len(q), NEW f
  PROVE  Undecided(SubSeq(q, 1, i - 1), f) <=> \A k \in 1..(i - 1) : ~Decides(q[k], f)
<1> DEFINE t == SubSeq(q, 1, i - 1)
<1>1. Len(q) \in Nat /\ \A k \in 1..(i - 1) : q[k] \in S
  BY LenProperties, ElementOfSeq
<1>2. t \in Seq(S) /\ Len(t) = i - 1 /\ \A k \in 1..(i - 1) : t[k] = q[k]
  BY <1>1, SubSeqProperties
<1> HIDE DEF t
<1>3. DOMAIN t = 1..(i - 1)
  BY <1>2, LenProperties
<1> QED
  BY <1>2, <1>3 DEF Undecided, t

\* The log with more rows, none of which overrides a decision in bulk.
LEMMA BulkGrows ==
  ASSUME SharedTyped, BulkNeverOverrides, NEW rows \in Seq(Row), RowsAreTrue(rows), log' = log \o rows
  PROVE  BulkNeverOverrides'
<1>0. log \in Seq(Row) /\ Len(log) \in Nat /\ DOMAIN log = 1..Len(log) /\ Len(rows) \in Nat /\ DOMAIN rows = 1..Len(rows)
  BY LenProperties DEF SharedTyped
<1>1. log' \in Seq(Row) /\ Len(log') = Len(log) + Len(rows)
      /\ \A i \in 1..(Len(log) + Len(rows)) : log'[i] = IF i <= Len(log) THEN log[i] ELSE rows[i - Len(log)]
  BY <1>0, ConcatProperties
<1>2. DOMAIN log' = 1..(Len(log) + Len(rows))
  BY <1>1, LenProperties
<1>3. ASSUME NEW i \in 1..(Len(log) + Len(rows)), log'[i].bulk, log'[i].kind = "resolve",
             NEW k \in 1..(i - 1)
      PROVE  ~Decides(log'[k], log'[i].finding)
  <2>1. k \in 1..(Len(log) + Len(rows)) /\ k < i
    BY <1>0
  <2>2. CASE i <= Len(log)
    <3>1. log'[i] = log[i] /\ log'[k] = log[k] /\ i \in 1..Len(log)
      BY <1>0, <1>1, <2>1, <2>2
    <3>2. Undecided(SubSeq(log, 1, i - 1), log[i].finding)
      BY <1>0, <1>3, <3>1 DEF BulkNeverOverrides
    <3> QED
      BY <1>0, <3>1, <3>2, UndecidedBefore
  <2>3. CASE i > Len(log)
    <3> DEFINE j == i - Len(log)
    <3>1. j \in DOMAIN rows /\ log'[i] = rows[j]
      BY <1>0, <1>1, <2>3
    <3>2. Pending(rows[j].finding) /\ \A n \in DOMAIN rows : n < j => rows[n].finding # rows[j].finding
      BY <1>3, <3>1 DEF RowsAreTrue
    <3>3. CASE k <= Len(log)
      <4>1. log'[k] = log[k] /\ k \in DOMAIN log
        BY <1>0, <1>1, <2>1, <3>3
      <4> QED
        BY <3>1, <3>2, <4>1 DEF Pending, Undecided
    <3>4. CASE k > Len(log)
      <4>1. log'[k] = rows[k - Len(log)] /\ k - Len(log) \in DOMAIN rows /\ k - Len(log) < j
        BY <1>0, <1>1, <2>1, <3>4
      <4> QED
        BY <3>1, <3>2, <4>1 DEF Decides
    <3> QED
      BY <1>0, <3>3, <3>4
  <2> QED
    BY <1>0, <2>2, <2>3
<1>4. ASSUME NEW i \in DOMAIN log', log'[i].bulk, log'[i].kind = "resolve"
      PROVE  Undecided(SubSeq(log', 1, i - 1), log'[i].finding)
  <2>1. i \in 1..Len(log')
    BY <1>1, <1>2
  <2>2. \A k \in 1..(i - 1) : ~Decides(log'[k], log'[i].finding)
    BY <1>2, <1>3, <1>4
  <2> QED
    BY <1>1, <2>1, <2>2, UndecidedBefore
<1> QED
  BY <1>4 DEF BulkNeverOverrides

LEMMA BulkKeeps ==
  ASSUME IInv, [Next]_vars
  PROVE  BulkNeverOverrides'
<1>0. SharedTyped /\ LocalTyped /\ BulkNeverOverrides
  BY DEF IInv, Typed
<1>1. ASSUME NEW c \in Client, Commit(c) PROVE BulkNeverOverrides'
  <2>1. pc[c] = "commit" /\ log' = log \o staged[c].rows
    BY <1>1 DEF Commit, Takes
  <2>2. RowsAreTrue(staged[c].rows)
    BY <2>1 DEF IInv, Transactions, TransactionIsTrue
  <2>3. staged[c].rows \in Seq(Row)
    BY <1>0 DEF LocalTyped, Staged
  <2> QED
    BY <1>0, <2>1, <2>2, <2>3, BulkGrows
<1>2. ASSUME NEW f \in Finding, NEW kind \in {"resolve", "leave"}, NEW a \in Content, ExternalReview(f, kind, a)
      PROVE  BulkNeverOverrides'
  <2> DEFINE r == [kind |-> kind, finding |-> f, revision |-> a, bulk |-> FALSE]
  <2>1. r \in Row /\ r.bulk = FALSE
    BY DEF Row
  <2>2. log' = Append(log, r)
    BY <1>2 DEF ExternalReview
  <2> HIDE DEF r
  <2>3. log' = log \o <<r>> /\ <<r>> \in Seq(Row)
    BY <1>0, <2>1, <2>2, AppendIsConcat DEF SharedTyped
  <2>4. RowsAreTrue(<<r>>)
    BY <2>1 DEF RowsAreTrue
  <2> QED
    BY <1>0, <2>3, <2>4, BulkGrows
<1>3. CASE log' = log
  BY <1>0, <1>3 DEF BulkNeverOverrides
<1>4. \/ \E c \in Client : Commit(c)
      \/ \E f \in Finding, kind \in {"resolve", "leave"}, a \in Content : ExternalReview(f, kind, a)
      \/ log' = log
  BY DEF Next, Environment, ClientStep, Analyze, Edit, LegacyCode, ReadAssessment, ReadScope, TakeLock,
         CheckSources, Fence, Detail, CreateFiles, Register, Export, Compare, Recheck, WriteFiles, BeginSession, Open,
         Verify, Apply, Leave, vars, database
<1> QED
  BY <1>1, <1>2, <1>3, <1>4

-----------------------------------------------------------------------------
(* Theorems *)

LEMMA IInvAlways == Spec => []IInv
<1>1. Init => IInv
  <2> SUFFICES ASSUME Init PROVE IInv
    OBVIOUS
  <2>0. setting \in Settings /\ None \notin Client
    BY GovernanceAssumption DEF Init
  <2>1. SharedTyped
    BY <2>0, EmptySeq DEF Init, SharedTyped, Copy
  <2>2. LocalTyped
    <3>1. NoRequest \in Asked /\ Nothing \in Staged
      BY EmptySeq DEF NoRequest, Asked, Nothing, Staged, Copy
    <3> QED
      BY <3>1 DEF Init, LocalTyped
  <2>3. Ways /\ Transactions
    BY <2>0 DEF Init, Ways, WayIsTrue, Transactions, TransactionIsTrue
  <2>4. Makes
    BY DEF Init, Makes, SessionIsTrue, MakesTrue, CopyIsTrue, Detailed, Exported, Compared, Written
  <2>5. Artifacts /\ BulkNeverOverrides
    BY EmptySeq DEF Init, Artifacts, BulkNeverOverrides
  <2> QED
    BY <2>1, <2>2, <2>3, <2>4, <2>5 DEF IInv, Typed
<1>2. IInv /\ [Next]_vars => IInv'
  <2> SUFFICES ASSUME IInv, [Next]_vars PROVE IInv'
    OBVIOUS
  <2>1. LocalTyped'
    <3>1. CASE \E c \in Client : ClientStep(c)
      BY <3>1, LocalKeeps
    <3>2. CASE Environment \/ UNCHANGED vars
      <4>1. UNCHANGED <<pc, request, staged>> /\ late' \subseteq late \cup Client
        BY <3>2 DEF Environment, Analyze, Edit, ExternalReview, LegacyCode, local, vars
      <4>2. Asked' = Asked /\ Staged' = Staged
        BY SharedKeeps, SameSets DEF Kept
      <4> QED
        BY <4>1, <4>2 DEF IInv, Typed, LocalTyped
    <3> QED
      BY <3>1, <3>2 DEF Next
  <2> QED
    BY <2>1, SharedKeeps, WaysKeep, TransactionsKeep, MakesKeep, ArtifactsKeep, BulkKeeps DEF IInv, Typed
<1> QED
  BY <1>1, <1>2, PTL DEF Spec

\* A generated artifact (generate, _detail) was resolved, planned and approved
\* as its row says, and is current (artifact_currency) only as long as it would
\* be authorized again, for any clients, findings, sources and bounds.
THEOREM EveryArtifactIsAuthorized == Spec => []ArtifactsAreAuthorized
<1>1. IInv => ArtifactsAreAuthorized
  <2> SUFFICES ASSUME IInv PROVE ArtifactsAreAuthorized
    OBVIOUS
  <2>1. MadeAsTheRowSays
    BY DEF IInv, Artifacts, ArtifactIsTrue, MadeAsTheRowSays, Vouches
  <2>2. ASSUME NEW x \in artifacts, x.target # None, Currency(x) = "current"
        PROVE  Ready(analysis, review, plan[analysis], session[analysis])
    <3>1. /\ x.analysis = analysis /\ x.review = review /\ plan[analysis] = x.target
          /\ session[analysis] # None /\ session[analysis].code = x.code
      BY <2>2 DEF Currency
    <3>2. ArtifactIsTrue(x)
      BY DEF IInv, Artifacts
    <3> QED
      BY <2>2, <3>1, <3>2 DEF ArtifactIsTrue, Vouches, Ready
  <2> QED
    BY <2>1, <2>2 DEF ArtifactsAreAuthorized, CurrentMeansAuthorized
<1> QED
  BY <1>1, IInvAlways, PTL

\* A bulk acceptance (_preview, bulk) decides about nothing anybody decided
\* about before, for any number of clients, findings and rows.
THEOREM NoBulkAcceptanceOverrides == Spec => []BulkNeverOverrides
<1>1. IInv => BulkNeverOverrides
  BY DEF IInv
<1> QED
  BY <1>1, IInvAlways, PTL

\* Whoever commits to the project database (_write, _operation) was shown the
\* evidence that is there and verified the sources since they last changed
\* before the commit began; a code approval (code) becomes durable bound to the
\* evidence in force, for any number of clients and sources.
THEOREM EveryCommitIsFenced == Spec => CommitsAreFenced
<1>1. IInv /\ [Next]_vars =>
        [/\ \A c \in Client : <<log, plan, artifacts>>' # <<log, plan, artifacts>> /\ writer = c =>
              /\ request[c].analysis = analysis /\ request[c].review = review
              /\ disk = analysis \/ c \in late
         /\ \A a \in Content : session[a] # None /\ session'[a].approval \notin {session[a].approval, None} =>
              session'[a].approval = Bound(analysis', review', plan'[analysis'])]_vars
  <2> SUFFICES ASSUME IInv, Next
               PROVE  /\ \A c \in Client : <<log, plan, artifacts>>' # <<log, plan, artifacts>> /\ writer = c =>
                            /\ request[c].analysis = analysis /\ request[c].review = review
                            /\ disk = analysis \/ c \in late
                      /\ \A a \in Content : session[a] # None /\ session'[a].approval \notin {session[a].approval, None} =>
                            session'[a].approval = Bound(analysis', review', plan'[analysis'])
    OBVIOUS
  <2>0. /\ SharedTyped /\ LocalTyped /\ Typed /\ None \notin Client
        /\ \A c \in Client : WayIsTrue(c) /\ TransactionIsTrue(c) /\ SessionIsTrue(c)
    BY GovernanceAssumption DEF IInv, Typed, Ways, Transactions, Makes
  <2>1. ASSUME NEW c \in Client, <<log, plan, artifacts>>' # <<log, plan, artifacts>>, writer = c
        PROVE  request[c].analysis = analysis /\ request[c].review = review /\ (disk = analysis \/ c \in late)
    <3>1. writer # None
      BY <2>0, <2>1
    <3>2. PICK d \in Client : Commit(d)
      BY <2>1, <3>1 DEF Next, Environment, ClientStep, Analyze, Edit, ExternalReview, LegacyCode, ReadAssessment,
             ReadScope, TakeLock, CheckSources, Fence, Detail, CreateFiles, Register, Export, Compare, Recheck, WriteFiles,
             BeginSession, Open, Verify, Apply, Leave, database
    <3>3. pc[d] = "commit"
      BY <3>2 DEF Commit, Takes
    <3>4. d = c
      BY <2>0, <2>1, <3>3 DEF TransactionIsTrue
    <3> QED
      BY <2>0, <2>1, <3>3, <3>4 DEF TransactionIsTrue, Fenced
  <2>2. ASSUME NEW a \in Content, session[a] # None, session'[a].approval \notin {session[a].approval, None}
        PROVE  session'[a].approval = Bound(analysis', review', plan'[analysis'])
    <3>0. session \in [Content -> Copy] /\ session[a] \in Session
      BY <2>0, <2>2 DEF SharedTyped, Copy
    <3>1. CASE \E c \in Client : Apply(c)
      <4>1. PICK c \in Client : Apply(c)
        BY <3>1
      <4>2. pc[c] = "apply" /\ UNCHANGED <<analysis, review, plan>>
        BY <4>1 DEF Apply, Takes
      <4>3. PICK approval \in {Bound(analysis, request[c].review, request[c].target), None} :
              session' = [session EXCEPT ![analysis] =
                IF request[c].op = "configure" THEN Rekeyed(session[analysis], staged[c].keys)
                ELSE Decided(session[analysis], approval)]
        BY <4>1 DEF Apply, Op, Rekeyed, Decided
      <4>4. a = analysis
        BY <2>2, <3>0, <4>3
      <4>5. /\ staged[c].keys \in Keys \cup {None} /\ approval \in Approvals(setting)
            /\ request[c] \in Asked
        BY <2>0, <4>3, <4>4 DEF LocalTyped, Staged, Asked, Bound, Approvals, Plan, Content
      <4>6. CASE request[c].op = "configure"
        <5>1. session'[a] = Rekeyed(session[a], staged[c].keys)
          BY <3>0, <4>3, <4>4, <4>6
        <5>2. session'[a].approval = session[a].approval
          BY <3>0, <4>5, <5>1, NextRevision
        <5> QED
          BY <2>2, <5>2
      <4>7. CASE request[c].op # "configure"
        <5>1. session'[a] = Decided(session[a], approval)
          BY <3>0, <4>3, <4>4, <4>7
        <5>2. session'[a].approval = approval
          BY <3>0, <4>5, <5>1, NextRevision
        <5>3. request[c].op = "approve"
          BY <2>0, <4>2, <4>7 DEF WayIsTrue, Path, Ops
        <5>4. request[c].review = review /\ request[c].target = plan[analysis]
          BY <2>0, <4>2, <5>3 DEF TransactionIsTrue, Fenced
        <5> QED
          BY <2>2, <4>2, <4>3, <5>2, <5>4
      <4> QED
        BY <4>6, <4>7
    <3>2. CASE \E b \in Content, k \in Keys : LegacyCode(b, k)
      <4>1. PICK b \in Content, k \in Keys : LegacyCode(b, k)
        BY <3>2
      <4>2. session' = [session EXCEPT ![b] =
              IF k = session[b].keys THEN Decided(session[b], None) ELSE Rekeyed(session[b], k)]
        BY <4>1 DEF LegacyCode, Decided, Rekeyed
      <4>3. a = b
        BY <2>2, <3>0, <4>2
      <4>4. None \in Approvals(setting)
        BY DEF Approvals
      <4>5. CASE k = session[b].keys
        BY <2>2, <3>0, <4>2, <4>3, <4>4, <4>5, NextRevision
      <4>6. CASE k # session[b].keys
        BY <2>2, <3>0, <4>2, <4>3, <4>4, <4>6, NextRevision
      <4> QED
        BY <4>5, <4>6
    <3>3. CASE \E c \in Client : Register(c)
      <4>1. PICK c \in Client : Register(c)
        BY <3>3
      <4>2. session' = [session EXCEPT ![analysis] = [code |-> 0, keys |-> None, approval |-> None]]
        BY <4>1 DEF Register
      <4> QED
        BY <2>2, <3>0, <4>2
    <3>4. (\E c \in Client : Apply(c) \/ Register(c)) \/ (\E b \in Content, k \in Keys : LegacyCode(b, k)) \/ session' = session
      BY DEF Next, Environment, ClientStep, Analyze, Edit, ExternalReview, ReadAssessment,
             ReadScope, TakeLock, CheckSources, Fence, Detail, CreateFiles, Export, Compare, Recheck, WriteFiles,
             BeginSession, Open, Verify, Commit, Leave, database
    <3> QED
      BY <2>2, <3>1, <3>2, <3>3, <3>4
  <2> QED
    BY <2>1, <2>2
<1> QED
  BY <1>1, IInvAlways, PTL DEF Spec, CommitsAreFenced

-----------------------------------------------------------------------------
(* The worker lock itself.  What governance relies on is the mutex that     *)
(* WorkerMutex specifies (GovernanceUsesTheMutex); the two-level lock of    *)
(* project_lock.py provides it for any threads and processes.               *)

\* The lock of a governance operation is taken when it is free, given back by
\* the client that holds it - also when it fails or dies - and never touched
\* otherwise: it is the mutex the worker lock is proved to be.  (project_worker_lock)
THEOREM GovernanceUsesTheMutex == Spec => Lock!Spec
<1> USE GovernanceAssumption
<1>1. Init => Lock!Init
  BY DEF Init, Lock!Init
<1>2. [Next]_vars => [Lock!Next]_lock
  <2> SUFFICES ASSUME [Next]_vars, lock' # lock PROVE Lock!Next
    OBVIOUS
  <2>1. ASSUME NEW c \in Client, TakeLock(c) PROVE Lock!Next
    BY <2>1 DEF TakeLock, Lock!Next, Lock!Acquire
  <2>2. ASSUME NEW c \in Client, Leave(c) PROVE Lock!Next
    BY <2>2 DEF Leave, Lock!Next, Lock!Release
  <2> QED
    BY <2>1, <2>2 DEF Next, ClientStep, Environment, vars, locks, ReadAssessment, ReadScope,
       CheckSources, Fence, Detail, CreateFiles, Register, Export, Compare, Recheck, WriteFiles,
       BeginSession, Open, Verify, Commit, Apply, Analyze, Edit, ExternalReview, LegacyCode
<1> QED
  BY <1>1, <1>2, PTL DEF Spec, Lock!Spec

\* Every variable keeps its type (project_lock.py).
THEOREM LockTyping == LockSpec => []TypeOK
<1> USE LockAssumption DEF TypeOK, Location, Mode
<1>1. LockInit => TypeOK
  BY DEF LockInit
<1>2. TypeOK /\ [LockNext]_lockVars => TypeOK'
  <2> SUFFICES ASSUME TypeOK, [LockNext]_lockVars PROVE TypeOK'
    OBVIOUS
  <2> USE DEF Goto
  <2>1. ASSUME NEW t \in Thread, NEW m \in Mode, Call(t, m) PROVE TypeOK'
    BY <2>1 DEF Call
  <2>2. ASSUME NEW t \in Thread, Reenter(t) PROVE TypeOK'
    BY <2>2 DEF Reenter
  <2>3. ASSUME NEW t \in Thread, LeaveNested(t) PROVE TypeOK'
    BY <2>3 DEF LeaveNested
  <2>4. ASSUME NEW t \in Thread, TakeThreadLock(t) PROVE TypeOK'
    BY <2>4 DEF TakeThreadLock
  <2>5. ASSUME NEW t \in Thread, ThreadLockBusy(t) PROVE TypeOK'
    BY <2>5 DEF ThreadLockBusy
  <2>6. ASSUME NEW t \in Thread, TakeFileLock(t) PROVE TypeOK'
    BY <2>6 DEF TakeFileLock
  <2>7. ASSUME NEW t \in Thread, FileLockBusy(t) PROVE TypeOK'
    BY <2>7 DEF FileLockBusy
  <2>8. ASSUME NEW t \in Thread, ReleaseFileLock(t) PROVE TypeOK'
    BY <2>8 DEF ReleaseFileLock
  <2>9. ASSUME NEW t \in Thread, ReleaseThreadLock(t) PROVE TypeOK'
    BY <2>9 DEF ReleaseThreadLock
  <2>10. ASSUME NEW p \in Process, Crash(p) PROVE TypeOK'
    BY <2>10 DEF Crash
  <2>11. CASE UNCHANGED lockVars
    BY <2>11 DEF lockVars
  <2> QED
    BY <2>1, <2>2, <2>3, <2>4, <2>5, <2>6, <2>7, <2>8, <2>9, <2>10, <2>11
       DEF LockNext, Progress
<1> QED
  BY <1>1, <1>2, PTL DEF LockSpec

\* The two locks, the re-entry keys and the nesting depth always agree, so an
\* inner exit gives nothing back and every path returns the thread lock.
THEOREM LockAgreement == LockSpec => []LocksAgree
<1> USE LockAssumption DEF TypeOK, LocksAgree, Location, Mode
<1>1. LockInit => LocksAgree
  BY DEF LockInit
<1>2. TypeOK /\ LocksAgree /\ [LockNext]_lockVars => LocksAgree'
  <2> SUFFICES ASSUME TypeOK, LocksAgree, [LockNext]_lockVars PROVE LocksAgree'
    OBVIOUS
  <2> USE DEF Goto
  <2>1. ASSUME NEW t \in Thread, NEW m \in Mode, Call(t, m) PROVE LocksAgree'
    BY <2>1 DEF Call
  <2>2. ASSUME NEW t \in Thread, Reenter(t) PROVE LocksAgree'
    BY <2>2 DEF Reenter
  <2>3. ASSUME NEW t \in Thread, LeaveNested(t) PROVE LocksAgree'
    BY <2>3 DEF LeaveNested
  <2>4. ASSUME NEW t \in Thread, TakeThreadLock(t) PROVE LocksAgree'
    BY <2>4 DEF TakeThreadLock
  <2>5. ASSUME NEW t \in Thread, ThreadLockBusy(t) PROVE LocksAgree'
    BY <2>5 DEF ThreadLockBusy
  <2>6. ASSUME NEW t \in Thread, TakeFileLock(t) PROVE LocksAgree'
    BY <2>6 DEF TakeFileLock
  <2>7. ASSUME NEW t \in Thread, FileLockBusy(t) PROVE LocksAgree'
    BY <2>7 DEF FileLockBusy
  <2>8. ASSUME NEW t \in Thread, ReleaseFileLock(t) PROVE LocksAgree'
    BY <2>8 DEF ReleaseFileLock
  <2>9. ASSUME NEW t \in Thread, ReleaseThreadLock(t) PROVE LocksAgree'
    BY <2>9 DEF ReleaseThreadLock
  <2>10. ASSUME NEW p \in Process, Crash(p) PROVE LocksAgree'
    BY <2>10 DEF Crash
  <2>11. CASE UNCHANGED lockVars
    BY <2>11 DEF lockVars
  <2> QED
    BY <2>1, <2>2, <2>3, <2>4, <2>5, <2>6, <2>7, <2>8, <2>9, <2>10, <2>11
       DEF LockNext, Progress
<1> QED
  BY <1>1, <1>2, LockTyping, PTL DEF LockSpec

\* To its callers the lock is WorkerMutex: each step takes the free lock,
\* gives it back from the thread that holds it, loses it with the holder's
\* process, or changes nothing a caller can see.
THEOREM LockImplementsMutex == LockSpec => ImplementsMutex
<1> USE LockAssumption
<1>1. LockInit => Mutex!Init
  BY DEF LockInit, Mutex!Init
<1>2. TypeOK /\ LocksAgree /\ [LockNext]_lockVars => [Mutex!Next]_fileLock
  <2> SUFFICES ASSUME TypeOK, LocksAgree, [LockNext]_lockVars, fileLock' # fileLock
               PROVE Mutex!Next
    OBVIOUS
  <2>1. ASSUME NEW t \in Thread, TakeFileLock(t) PROVE Mutex!Next
    BY <2>1 DEF TakeFileLock, Mutex!Next, Mutex!Acquire
  <2>2. ASSUME NEW t \in Thread, ReleaseFileLock(t) PROVE Mutex!Next
    BY <2>2 DEF ReleaseFileLock, LocksAgree, Mutex!Next, Mutex!Release
  <2>3. ASSUME NEW p \in Process, Crash(p) PROVE Mutex!Next
    <3>1. Mutex!Die(p)
      BY <2>3 DEF Crash, TypeOK, Mutex!Die, Mutex!HolderAfterDeath
    <3> QED
      BY <3>1 DEF Mutex!Next
  <2> QED
    BY <2>1, <2>2, <2>3 DEF LockNext, Progress, lockVars, Call, Reenter, LeaveNested,
       TakeThreadLock, ThreadLockBusy, FileLockBusy, ReleaseThreadLock
<1> QED
  BY <1>1, <1>2, LockTyping, LockAgreement, PTL DEF LockSpec, ImplementsMutex, Mutex!Spec
=============================================================================
