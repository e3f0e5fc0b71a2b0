---------------------------- MODULE AuthStoreProofs ----------------------------
(***************************************************************************)
(* The three promises of the accounts, for every set of users,             *)
(* organizations and threads and for every bound: an organization that was *)
(* founded keeps an owner, a secret is accepted once, and the vault entry  *)
(* behind a confirmed second factor is the one the user confirmed.         *)
(***************************************************************************)
EXTENDS AuthStore, TLAPS

Code == {"code"} \X Nat \X Nat \X (1..CodeCount)
ResetToken == {"token"} \X User \X Nat
Enrollment == [status : {"none", "pending", "confirmed"}, secret : Nat, mark : Nat, codes : SUBSET Code]
Scope == {"BOOTSTRAP_MFA", "MFA_PENDING", "NORMAL"}
Pc == {"idle", "scope", "create", "rotate", "renounce", "enroll", "confirm", "code",
       "disable", "regenerate", "token", "clear", "bootstrap"}
Session == [user : User \cup {None}, org : Org \cup {None}, scope : Scope, state : {"open", "closed", "expired"}]
Request == [pc : Pc, user : User \cup {None}, org : Org \cup {None}, scope : Scope, session : Nat]

Typed ==
  /\ role \in [Org -> [User -> Role \cup {None}]]
  /\ founded \in [Org -> Nat]
  /\ mfa \in [User -> Enrollment]
  /\ vault \in [User -> Nat]
  /\ tokens \subseteq ResetToken
  /\ sessions \in Seq(Session)
  /\ request \in [Thread -> Request]
  /\ clock \in Nat /\ fresh \in Nat /\ limit \in Limits

\* A request at work serves a user, the one of an open session if it has one.
Identified ==
  /\ \A t \in Thread : request[t].pc # "idle" => request[t].user \in User
  /\ \A t \in Thread : request[t].pc = "bootstrap" => request[t].org \in Org
  /\ \A i \in DOMAIN sessions : sessions[i].state = "open" => sessions[i].user \in User

\* An enrollment's secret was made before and is nobody else's.
SecretsAreOwn ==
  /\ \A u \in User : mfa[u].secret <= fresh
  /\ \A u, v \in User : mfa[u].secret = mfa[v].secret => u = v \/ mfa[u].secret = 0

\* What was retired is behind the watermark of the enrollment it belongs to,
\* if that still stands, and was not made after the last secret.
RetiredIsBehind ==
  \A x \in retired :
    /\ x[1] \in {"totp", "code"} =>
         /\ x[2] \in 1..fresh /\ x[3] \in Nat
         /\ \A u \in User : x[2] = mfa[u].secret => mfa[u].status = "confirmed" /\ x[3] <= mfa[u].mark
    /\ x[1] = "token" => x[3] \in 1..fresh

\* Recovery codes and reset tokens on the books were never retired.
CodesAreUnspent ==
  \A u \in User :
    /\ mfa[u].codes # {} => mfa[u].status = "confirmed"
    /\ mfa[u].status = "confirmed" => mfa[u].secret # 0
    /\ \A c \in mfa[u].codes : c \notin retired /\ c[2] = mfa[u].secret /\ c[3] <= mfa[u].mark

TokensAreUnspent == \A x \in tokens : x \notin retired /\ x[3] \in 1..fresh

Secrecy ==
  /\ SecretsAreOwn /\ RetiredIsBehind /\ CodesAreUnspent /\ TokensAreUnspent
  /\ SecretsAreSpentOnce /\ ConfirmedSecretIsTheUsers

IInv == Typed /\ Identified /\ FoundedOnceAndOwned /\ Secrecy

-----------------------------------------------------------------------------
(* Requests and sessions *)

LEMMA ClosedSessions ==
  ASSUME NEW q \in Seq(Session), NEW S
  PROVE  /\ Closed(q, S) \in Seq(Session)
         /\ DOMAIN Closed(q, S) = DOMAIN q
         /\ \A i \in DOMAIN q : Closed(q, S)[i].state = "open" => Closed(q, S)[i] = q[i]
<1>1. Revoked \in Session /\ Revoked.state # "open"
  BY DEF Revoked, Session, Scope
<1>2. DOMAIN q = 1..Len(q) /\ Len(q) \in Nat /\ \A i \in DOMAIN q : q[i] \in Session
  OBVIOUS
<1>3. Closed(q, S) = [i \in 1..Len(q) |-> IF i \in S THEN Revoked ELSE q[i]]
  BY <1>2 DEF Closed
<1>4. Closed(q, S) \in [1..Len(q) -> Session]
  BY <1>1, <1>2, <1>3
<1>5. Closed(q, S) \in Seq(Session)
  BY <1>2, <1>4
<1>6. \A i \in DOMAIN q : Closed(q, S)[i].state = "open" => Closed(q, S)[i] = q[i]
  BY <1>1, <1>2, <1>3
<1> QED BY <1>2, <1>3, <1>5, <1>6

\* A thread goes on with a request that names a user, and an organization if
\* it is going to found one.
Sound(r) == r \in Request /\ (r.pc # "idle" => r.user \in User) /\ (r.pc = "bootstrap" => r.org \in Org)

\* The part of the invariant that is about requests and sessions.
Serves ==
  /\ sessions \in Seq(Session) /\ request \in [Thread -> Request] /\ Identified
  /\ limit \in Limits

LEMMA RequestsAreSound == Serves => \A t \in Thread : Sound(request[t])
BY DEF Serves, Identified, Sound

LEMMA IdleIsSound == Sound(Idle)
BY DEF Sound, Idle, Request, Pc, Scope

LEMMA OnwardIsSound ==
  ASSUME Serves, NEW t \in Thread, ~At(t, "idle"), NEW pc \in Pc, pc # "bootstrap"
  PROVE  /\ Sound([request[t] EXCEPT !.pc = pc])
         /\ \A scope \in Scope : Sound([request[t] EXCEPT !.pc = pc, !.scope = scope])
BY DEF Serves, Identified, Sound, At, Request

LEMMA ServeKeepsServes ==
  ASSUME Serves, NEW t \in Thread, NEW r, Sound(r), Serve(t, r), UNCHANGED limit,
         UNCHANGED sessions \/ \E S : sessions' = Closed(sessions, S)
  PROVE  Serves'
<1>1. \A y \in Thread : Sound(request'[y]) /\ request' \in [Thread -> Request]
  BY RequestsAreSound DEF Serves, Sound, Serve
<1>2. CASE UNCHANGED sessions
  BY <1>1, <1>2 DEF Serves, Identified, Sound, Serve
<1>3. ASSUME NEW S, sessions' = Closed(sessions, S) PROVE Serves'
  <2>1. sessions \in Seq(Session)
    BY DEF Serves
  <2> QED BY <1>1, <1>3, <2>1, ClosedSessions DEF Serves, Identified, Sound, Serve
<1> QED BY <1>2, <1>3

LEMMA ClosingKeepsServes ==
  ASSUME Serves, NEW S, sessions' = Closed(sessions, S), UNCHANGED <<request, limit>>
  PROVE  Serves'
<1>1. sessions \in Seq(Session)
  BY DEF Serves
<1> QED BY <1>1, ClosedSessions DEF Serves, Identified

LEMMA ServingKeepsServes ==
  ASSUME Serves, NEW t \in Thread, Serving(t)
  PROVE  Serves'
<1> USE DEF Reading, data, bounds, history
<1>u. limit.users \subseteq User /\ limit.sessions \in Nat
  BY AuthAssumption DEF Serves
<1>s. sessions \in Seq(Session) /\ \A i \in DOMAIN sessions : i \in Nat /\ sessions[i] \in Session
  BY DEF Serves
<1>d. ASSUME Done(t), UNCHANGED limit, UNCHANGED sessions \/ \E S : sessions' = Closed(sessions, S)
      PROVE  Serves'
  BY <1>d, IdleIsSound, ServeKeepsServes DEF Done
<1>g. ASSUME NEW pc \in {"rotate", "renounce", "create"}, ~At(t, "idle"), Goto(t, pc), UNCHANGED limit,
             UNCHANGED sessions \/ \E S : sessions' = Closed(sessions, S)
      PROVE  Serves'
  BY <1>g, OnwardIsSound, ServeKeepsServes DEF Goto, Pc
<1>1. ASSUME NEW u \in limit.users, NEW o \in Org, Login(t, u, o) PROVE Serves'
  <2> DEFINE r == [pc |-> "scope", user |-> u, org |-> o, session |-> 0,
                   scope |-> IF role[o][u] \in Privileged THEN "BOOTSTRAP_MFA" ELSE "NORMAL"]
  <2>1. Sound(r)
    BY <1>u DEF Sound, Request, Pc, Scope
  <2> QED BY <1>1, <2>1, ServeKeepsServes DEF Login
<1>2. ASSUME NEW u \in limit.users, NEW o \in Org, CheckBootstrap(t, o, u) PROVE Serves'
  <2> DEFINE r == [Idle EXCEPT !.pc = "bootstrap", !.user = u, !.org = o]
  <2>1. Sound(r)
    BY <1>u DEF Sound, Request, Pc, Scope, Idle
  <2> QED BY <1>2, <2>1, ServeKeepsServes DEF CheckBootstrap
<1>3. ASSUME NEW i \in DOMAIN sessions, NEW route, Resolve(t, i, route) PROVE Serves'
  <2>1. Sound(Resolved(i, route))
    BY <1>3, <1>s DEF Resolve, Gate, Resolved, Serves, Identified, Sound, Request, Session, Pc, Scope
  <2> QED BY <1>3, <2>1, ServeKeepsServes DEF Resolve
<1>4. ASSUME NEW i \in DOMAIN sessions, NEW o \in Org, SwitchOrganization(t, i, o) PROVE Serves'
  <2>1. Sound([Resolved(i, "rotate") EXCEPT !.org = o])
    BY <1>4, <1>s DEF SwitchOrganization, Gate, Resolved, Serves, Identified, Sound, Request, Session, Pc, Scope
  <2> QED BY <1>4, <2>1, ServeKeepsServes DEF SwitchOrganization
<1>5. ASSUME NEW i \in DOMAIN sessions, NEW u \in limit.users, CheckIssue(t, i, u) PROVE Serves'
  <2>1. Sound([Idle EXCEPT !.pc = "token", !.user = u])
    BY <1>u DEF Sound, Request, Pc, Scope, Idle
  <2> QED BY <1>5, <2>1, ServeKeepsServes DEF CheckIssue
<1>6. CASE LoginScope(t)
  <2>1. ~At(t, "idle") /\ request[t].scope \in Scope
    BY <1>6 DEF LoginScope, At, Serves, Request
  <2>2. PICK scope \in Scope : Serve(t, [request[t] EXCEPT !.pc = "create", !.scope = scope])
    BY <1>6, <2>1 DEF LoginScope, Scope
  <2>3. Sound([request[t] EXCEPT !.pc = "create", !.scope = scope])
    BY <2>1, OnwardIsSound DEF Pc
  <2> QED BY <1>6, <2>2, <2>3, ServeKeepsServes DEF LoginScope
<1>7. CASE CreateSession(t)
  <2> DEFINE s == [user |-> request[t].user, org |-> request[t].org, scope |-> request[t].scope, state |-> "open"]
             q == Append(sessions, s)
  <2>1. s \in Session /\ s.user \in User
    BY <1>7 DEF CreateSession, At, Serves, Identified, Request, Session
  <2>2. q \in Seq(Session) /\ \A i \in DOMAIN q : q[i].state = "open" => q[i].user \in User
    BY <1>s, <2>1 DEF Serves, Identified
  <2>3. PICK S : sessions' = Closed(q, S)
    BY <1>7 DEF CreateSession
  <2> HIDE DEF q
  <2>4. sessions' \in Seq(Session) /\ \A i \in DOMAIN sessions' : sessions'[i].state = "open" => sessions'[i].user \in User
    BY <2>2, <2>3, ClosedSessions
  <2>5. \A y \in Thread : Sound(request'[y]) /\ request' \in [Thread -> Request]
    BY <1>7, RequestsAreSound, IdleIsSound DEF CreateSession, Serves, Sound, Serve, Done
  <2> QED BY <1>7, <2>4, <2>5 DEF CreateSession, Serves, Identified, Sound
<1>8. CASE Revoke(t)
  BY <1>8, <1>g DEF Revoke, At
<1>9. CASE Enroll(t) \/ EnrollRolledBack(t) \/ IssueToken(t)
  BY <1>9, <1>d DEF Enroll, EnrollRolledBack, IssueToken, Mint
<1>10. CASE ConfirmExpired(t) \/ DisableMfa(t) \/ ClearMfa(t) \/ BootstrapOwner(t) \/ Stop(t)
  BY <1>10, <1>d DEF ConfirmExpired, DisableMfa, ClearMfa, BootstrapOwner, Stop
<1>11. CASE CompleteMfaLogin(t)
  BY <1>11, <1>g DEF CompleteMfaLogin, At
<1>12. ASSUME NEW s \in Window, Confirm(t, s) PROVE Serves'
  <2>1. CASE Done(t)
    BY <1>12, <2>1, <1>d DEF Confirm
  <2>2. CASE Serve(t, [request[t] EXCEPT !.pc = "rotate", !.scope = "NORMAL"])
    BY <1>12, <2>2, OnwardIsSound, ServeKeepsServes DEF Confirm, At, Pc, Scope
  <2> QED BY <1>12, <2>1, <2>2 DEF Confirm
<1>13. ASSUME NEW s \in Window, RegenerateRecoveryCodes(t, s) PROVE Serves'
  BY <1>13, <1>d DEF RegenerateRecoveryCodes
<1>14. ASSUME NEW u \in limit.users, NEW clear, ResetOwner(t, u, clear) PROVE Serves'
  <2>1. PICK r : Serve(t, r) /\ r = IF clear THEN [Idle EXCEPT !.pc = "clear", !.user = u] ELSE Idle
    BY <1>14 DEF ResetOwner
  <2>2. Sound(r)
    BY <2>1, <1>u, IdleIsSound DEF Sound, Request, Pc, Scope, Idle
  <2> QED BY <1>14, <2>1, <2>2, ServeKeepsServes DEF ResetOwner
<1> QED
  BY <1>1, <1>2, <1>3, <1>4, <1>5, <1>6, <1>7, <1>8, <1>9, <1>10, <1>11, <1>12, <1>13, <1>14 DEF Serving

LEMMA NextKeepsServes ==
  ASSUME Serves, Next
  PROVE  Serves'
<1> USE DEF Reading, data, bounds, history
<1>1. ASSUME NEW u, CreateUser(u) \/ SweepEnrollment(u) \/ DeletionRolledBack(u) PROVE Serves'
  BY <1>1 DEF CreateUser, SweepEnrollment, DeletionRolledBack, Serves, Identified
<1>2. ASSUME NEW o, NEW u, NEW r, CreateMembership(o, u, r) PROVE Serves'
  BY <1>2 DEF CreateMembership, Serves, Identified
<1>3. ASSUME NEW o, NEW u, NEW r, SetMembership(o, u, r) PROVE Serves'
  BY <1>3, ClosingKeepsServes DEF SetMembership
<1>4. ASSUME NEW x, RedeemPasswordReset(x) PROVE Serves'
  BY <1>4, ClosingKeepsServes DEF RedeemPasswordReset
<1>5. ASSUME NEW x, ExpireToken(x) PROVE Serves'
  BY <1>5 DEF ExpireToken, Serves, Identified
<1>6. ASSUME NEW i, Logout(i) PROVE Serves'
  BY <1>6, ClosingKeepsServes DEF Logout
<1>7. ASSUME NEW i \in DOMAIN sessions, ExpireSession(i) PROVE Serves'
  <2>1. sessions \in Seq(Session) /\ sessions[i] \in Session
    BY DEF Serves
  <2>2. [sessions[i] EXCEPT !.state = "expired"] \in Session
    BY <2>1 DEF Session
  <2>3. sessions' = [sessions EXCEPT ![i] = [sessions[i] EXCEPT !.state = "expired"]]
    BY <1>7 DEF ExpireSession
  <2>4. sessions' \in Seq(Session) /\ DOMAIN sessions' = DOMAIN sessions
    BY <2>1, <2>2, <2>3
  <2>5. \A j \in DOMAIN sessions : sessions'[j].state = "open" => sessions[j].state = "open" /\ sessions'[j].user = sessions[j].user
    BY <2>1, <2>3 DEF Session
  <2> QED BY <1>7, <2>4, <2>5 DEF ExpireSession, Serves, Identified
<1>8. CASE SweepSessions
  BY <1>8, ClosingKeepsServes DEF SweepSessions
<1>9. CASE Tick
  BY <1>9 DEF Tick, Serves, Identified
<1> QED
  BY <1>1, <1>2, <1>3, <1>4, <1>5, <1>6, <1>7, <1>8, <1>9, ServingKeepsServes DEF Next, Changing

-----------------------------------------------------------------------------
(* Organizations and their owners *)

Founding ==
  /\ role \in [Org -> [User -> Role \cup {None}]]
  /\ founded \in [Org -> Nat]
  /\ FoundedOnceAndOwned

\* A change of one role that leaves an organization an owner if it had one.
LEMMA RoleChangeKeepsOwners ==
  ASSUME Founding, NEW o \in Org, NEW u \in User, NEW r \in Role \cup {None},
         r # "owner" => KeepsAnOwner(o, u),
         role' = [role EXCEPT ![o][u] = r], UNCHANGED founded
  PROVE  Founding'
<1>1. role' \in [Org -> [User -> Role \cup {None}]]
  BY DEF Founding
<1>2. \A p \in Org, v \in User : ~(p = o /\ v = u) => role'[p][v] = role[p][v]
  BY DEF Founding
<1>3. role'[o][u] = r
  BY DEF Founding
<1>4. Owners(o) # {} => Owners(o)' # {}
  <2>1. CASE r = "owner"
    BY <1>3, <2>1 DEF Owners
  <2>2. ASSUME r # "owner", Owners(o) # {} PROVE Owners(o)' # {}
    <3>1. PICK v \in User : v # u /\ role[o][v] = "owner"
      BY <2>2 DEF KeepsAnOwner, Owners
    <3> QED BY <1>2, <3>1 DEF Owners
  <2> QED BY <2>1, <2>2
<1>5. \A p \in Org : Owners(p) # {} => Owners(p)' # {}
  BY <1>2, <1>4 DEF Owners
<1> QED BY <1>1, <1>5 DEF Founding, FoundedOnceAndOwned

LEMMA NextKeepsFounding ==
  ASSUME Founding, Serves, Next
  PROVE  Founding'
<1>u. limit.users \subseteq User
  BY AuthAssumption DEF Serves
<1>1. ASSUME UNCHANGED <<role, founded>> PROVE Founding'
  BY <1>1 DEF Founding, FoundedOnceAndOwned, Owners
<1>2. ASSUME NEW o \in Org, NEW u \in limit.users, NEW r \in Role, CreateMembership(o, u, r) PROVE Founding'
  BY <1>2, <1>u, RoleChangeKeepsOwners, AuthAssumption DEF CreateMembership, KeepsAnOwner, history
<1>3. ASSUME NEW o \in Org, NEW u \in limit.users, NEW r \in Role \cup {None}, SetMembership(o, u, r) PROVE Founding'
  BY <1>3, <1>u, RoleChangeKeepsOwners DEF SetMembership, history
<1>4. ASSUME NEW t \in Thread, BootstrapOwner(t) PROVE Founding'
  <2> DEFINE o == request[t].org
             u == request[t].user
  <2>1. o \in Org /\ u \in User /\ founded[o] = 0
    BY <1>4 DEF BootstrapOwner, At, Serves, Identified, Founding, FoundedOnceAndOwned
  <2>2. role' = [role EXCEPT ![o][u] = "owner"] /\ founded' = [founded EXCEPT ![o] = 1]
    BY <1>4, <2>1 DEF BootstrapOwner
  <2> HIDE DEF o, u
  <2>3. role'[o][u] = "owner" /\ \A p \in Org \ {o} : role'[p] = role[p]
    BY <2>1, <2>2 DEF Founding
  <2>4. role' \in [Org -> [User -> Role \cup {None}]] /\ founded' \in [Org -> Nat]
    BY <2>1, <2>2, AuthAssumption DEF Founding
  <2>5. FoundedOnceAndOwned'
    BY <2>1, <2>2, <2>3 DEF Founding, FoundedOnceAndOwned, Owners
  <2> QED BY <2>4, <2>5 DEF Founding
<1>5. ASSUME NEW t \in Thread, Serving(t), ~BootstrapOwner(t) PROVE UNCHANGED <<role, founded>>
  BY <1>5 DEF Serving, Reading, data, history, Login, CheckBootstrap, Resolve, SwitchOrganization, CheckIssue,
              LoginScope, CreateSession, Revoke, Enroll, EnrollRolledBack, ConfirmExpired,
              CompleteMfaLogin, DisableMfa, Confirm, RegenerateRecoveryCodes, ResetOwner,
              IssueToken, ClearMfa, Stop
<1>6. ASSUME Changing PROVE Founding'
  <2>1. CASE \E u \in limit.users : CreateUser(u) \/ SweepEnrollment(u) \/ DeletionRolledBack(u)
    BY <2>1, <1>1 DEF CreateUser, SweepEnrollment, DeletionRolledBack, history
  <2>2. CASE \E x \in tokens : RedeemPasswordReset(x) \/ ExpireToken(x)
    BY <2>2, <1>1 DEF RedeemPasswordReset, ExpireToken
  <2>3. CASE \E i \in DOMAIN sessions : Logout(i) \/ ExpireSession(i)
    BY <2>3, <1>1 DEF Logout, ExpireSession, history
  <2>4. CASE SweepSessions \/ Tick
    BY <2>4, <1>1 DEF SweepSessions, Tick, history, data
  <2> QED BY <1>6, <1>2, <1>3, <2>1, <2>2, <2>3, <2>4 DEF Changing
<1> QED BY <1>1, <1>4, <1>5, <1>6 DEF Next

-----------------------------------------------------------------------------
(* Secrets *)

Booked ==
  /\ mfa \in [User -> Enrollment] /\ vault \in [User -> Nat] /\ tokens \subseteq ResetToken
  /\ clock \in Nat /\ fresh \in Nat
  /\ Secrecy

LEMMA TotpShape ==
  ASSUME NEW s, NEW k
  PROVE  Totp(s, k)[1] = "totp" /\ Totp(s, k)[2] = s /\ Totp(s, k)[3] = k
BY DEF Totp

LEMMA BatchShape ==
  ASSUME NEW s \in Nat, NEW k \in Nat, NEW c \in Batch(s, k)
  PROVE  c \in Code /\ c[1] = "code" /\ c[2] = s /\ c[3] = k
<1>1. PICK n \in 1..CodeCount : c = <<"code", s, k, n>>
  BY DEF Batch
<1> QED BY <1>1 DEF Code

LEMMA CodeShape ==
  ASSUME Booked, NEW u \in User, NEW c \in mfa[u].codes
  PROVE  c[1] = "code" /\ c[2] = mfa[u].secret /\ c[3] \in Nat /\ mfa[u].secret # 0
<1>1. c \in Code
  BY DEF Booked, Enrollment
<1>2. c[1] = "code" /\ c[3] \in Nat
  BY <1>1 DEF Code
<1> QED BY <1>2 DEF Booked, Secrecy, CodesAreUnspent

\* A code of a step past the watermark, or of an enrollment that is not yet
\* confirmed, was not accepted before.
LEMMA FreshCodeIsUnspent ==
  ASSUME Booked, NEW u \in User, HoldsSecret(u), NEW x, x[1] \in {"totp", "code"}, x[2] = vault[u],
         mfa[u].status = "confirmed" => x[3] > mfa[u].mark
  PROVE  x \notin retired /\ mfa[u].secret # 0 /\ x[2] = mfa[u].secret
<1>1. mfa[u].secret # 0 /\ x[2] = mfa[u].secret
  BY DEF HoldsSecret
<1>2. mfa[u].mark \in Nat
  BY DEF Booked, Enrollment
<1>3. SUFFICES ASSUME x \in retired PROVE FALSE
  BY <1>1
<1>4. x[3] \in Nat /\ mfa[u].status = "confirmed" /\ x[3] <= mfa[u].mark
  BY <1>1, <1>3 DEF Booked, Secrecy, RetiredIsBehind
<1> QED BY <1>2, <1>4

\* Codes of the user's enrollment.
Own(u, S) ==
  \A x \in S : x[1] \in {"totp", "code"} /\ x[2] = mfa[u].secret /\ mfa[u].secret # 0 /\ x[3] \in Nat

\* The enrollment e that replaces the user's keeps the secret, has the
\* retired codes S behind its watermark, and its own codes are unspent.
MovesOn(u, e, S) ==
  /\ e.secret = mfa[u].secret /\ mfa[u].secret # 0
  /\ e.status = "confirmed" /\ (mfa[u].status = "confirmed" => mfa[u].mark <= e.mark)
  /\ \A x \in S : x[3] <= e.mark
  /\ \A c \in e.codes : c \notin retired \cup S /\ c[2] = e.secret /\ c[3] <= e.mark

\* An enrollment is deleted, or moves on with its secret; what is retired on
\* the way is its own.
LEMMA EntryMovesOn ==
  ASSUME Booked, NEW u \in User, NEW e \in Enrollment, NEW S,
         mfa' = [mfa EXCEPT ![u] = e], retired' = retired \cup S,
         vault' \in [User -> Nat], vault'[u] \in {0, e.secret}, \A v \in User \ {u} : vault'[v] = vault[v],
         ~reused', UNCHANGED <<tokens, clock, fresh>>,
         Own(u, S), e = NoRow \/ MovesOn(u, e, S)
  PROVE  Booked'
<1> USE DEF Own, MovesOn
<1>1. /\ mfa' \in [User -> Enrollment] /\ mfa'[u] = e /\ \A v \in User \ {u} : mfa'[v] = mfa[v]
      /\ fresh \in Nat /\ \A v \in User : mfa[v].secret \in Nat /\ mfa[v].mark \in Nat
  BY DEF Booked, Enrollment
<1>2. NoRow.secret = 0 /\ NoRow.status = "none" /\ NoRow.codes = {}
  BY DEF NoRow
<1>3. SecretsAreOwn'
  BY <1>1, <1>2 DEF Booked, Secrecy, SecretsAreOwn
<1>4. ASSUME NEW x \in S PROVE x[2] \in 1..fresh /\ \A v \in User \ {u} : mfa[v].secret # x[2]
  BY <1>1, <1>4 DEF Booked, Secrecy, SecretsAreOwn
<1>5. RetiredIsBehind'
  <2>1. ASSUME NEW x \in retired', x[1] \in {"totp", "code"}
        PROVE  x[2] \in 1..fresh' /\ x[3] \in Nat
    BY <1>4, <2>1 DEF Booked, Secrecy, RetiredIsBehind
  <2>2. ASSUME NEW x \in retired', x[1] \in {"totp", "code"}, NEW v \in User, x[2] = mfa'[v].secret
        PROVE  mfa'[v].status = "confirmed" /\ x[3] <= mfa'[v].mark
    <3>1. CASE v # u
      BY <1>1, <1>4, <2>2, <3>1 DEF Booked, Secrecy, RetiredIsBehind
    <3>2. CASE v = u
      <4>1. e # NoRow
        BY <1>1, <1>2, <2>1, <2>2, <3>2
      <4>2. CASE x \in S
        BY <1>1, <4>1, <4>2, <3>2
      <4>3. CASE x \in retired
        <5>1. x[3] \in Nat /\ mfa[u].status = "confirmed" /\ x[3] <= mfa[u].mark
          BY <1>1, <4>1, <4>3, <2>2, <3>2 DEF Booked, Secrecy, RetiredIsBehind
        <5>2. mfa[u].mark <= e.mark /\ e.status = "confirmed" /\ e.mark \in Nat
          BY <4>1, <5>1 DEF Enrollment
        <5> QED BY <1>1, <5>1, <5>2, <3>2
      <4> QED BY <2>2, <4>2, <4>3
    <3> QED BY <3>1, <3>2
  <2>3. ASSUME NEW x \in retired', x[1] = "token" PROVE x[3] \in 1..fresh'
    BY <2>3 DEF Booked, Secrecy, RetiredIsBehind
  <2> QED BY <2>1, <2>2, <2>3 DEF RetiredIsBehind
<1>6. CodesAreUnspent'
  <2>1. ASSUME NEW v \in User, v # u, NEW c \in mfa[v].codes PROVE c \notin retired'
    <3>1. c \notin retired /\ c[2] = mfa[v].secret
      BY DEF Booked, Secrecy, CodesAreUnspent
    <3>2. c \notin S
      BY <1>4, <2>1, <3>1
    <3> QED BY <3>1, <3>2
  <2>2. ASSUME NEW v \in User, v # u
        PROVE  /\ mfa'[v].codes # {} => mfa'[v].status = "confirmed"
               /\ mfa'[v].status = "confirmed" => mfa'[v].secret # 0
               /\ \A c \in mfa'[v].codes : c \notin retired' /\ c[2] = mfa'[v].secret /\ c[3] <= mfa'[v].mark
    BY <1>1, <2>1, <2>2 DEF Booked, Secrecy, CodesAreUnspent
  <2>3. /\ e.codes # {} => e.status = "confirmed"
        /\ e.status = "confirmed" => e.secret # 0
        /\ \A c \in e.codes : c \notin retired' /\ c[2] = e.secret /\ c[3] <= e.mark
    BY <1>2
  <2> QED BY <1>1, <2>2, <2>3 DEF CodesAreUnspent
<1>7. TokensAreUnspent'
  <2>1. ASSUME NEW x \in tokens PROVE x[1] = "token" /\ x \notin S
    BY DEF Booked, ResetToken
  <2> QED BY <2>1 DEF Booked, Secrecy, TokensAreUnspent
<1>8. ConfirmedSecretIsTheUsers'
  BY <1>1, <1>2 DEF Booked, Secrecy, ConfirmedSecretIsTheUsers
<1> QED BY <1>1, <1>3, <1>5, <1>6, <1>7, <1>8 DEF Booked, Secrecy, SecretsAreSpentOnce

LEMMA DeletionKeepsBooked ==
  ASSUME Booked, NEW u \in User, Deleted(u), NEW S, retired' = retired \cup S,
         \A x \in S : x \in mfa[u].codes \/ (x[1] = "totp" /\ x[2] = mfa[u].secret /\ mfa[u].secret # 0 /\ x[3] \in Nat),
         ~reused', UNCHANGED <<tokens, clock, fresh>>
  PROVE  Booked'
<1>1. NoRow \in Enrollment
  BY DEF NoRow, Enrollment
<1>2. mfa' = [mfa EXCEPT ![u] = NoRow]
  BY DEF Deleted
<1>3. vault' \in [User -> Nat] /\ vault'[u] = 0 /\ \A v \in User \ {u} : vault'[v] = vault[v]
  BY DEF Deleted, Booked
<1>4. Own(u, S)
  BY CodeShape DEF Own
<1> QED BY <1>1, <1>2, <1>3, <1>4, EntryMovesOn

LEMMA ConfirmKeepsBooked ==
  ASSUME Booked, Serves, NEW t \in Thread, NEW s \in Window, Confirm(t, s)
  PROVE  Booked'
<1> DEFINE u == request[t].user
           k == vault[u]
           e == [status |-> "confirmed", secret |-> k, mark |-> s + 1, codes |-> Batch(k, s + 1)]
           xs == {Totp(k, s), Totp(k, s + 1)}
<1>1. u \in User /\ mfa[u].status = "pending" /\ HoldsSecret(u) /\ s \in Nat
  BY DEF Confirm, Serves, Identified, At, Window, Booked
<1>2. k \in Nat /\ k # 0 /\ k = mfa[u].secret /\ mfa[u] \in Enrollment
  BY <1>1 DEF HoldsSecret, Booked
<1>3. mfa[u].codes = {}
  BY <1>1 DEF Booked, Secrecy, CodesAreUnspent
<1>4. mfa' = [mfa EXCEPT ![u] = e] /\ retired' = retired \cup xs
  BY <1>3 DEF Confirm, AcceptAndReplace
<1>h. reused' = (reused \/ xs \cap retired # {}) /\ UNCHANGED <<vault, tokens, clock, fresh>>
  BY DEF Confirm, AcceptAndReplace, bounds
<1>5. \A x \in xs : x[1] = "totp" /\ x[2] = k /\ x[3] \in {s, s + 1}
  BY TotpShape
<1>6. \A c \in Batch(k, s + 1) : c \in Code /\ c[1] = "code" /\ c[2] = k /\ c[3] = s + 1
  BY <1>1, <1>2, BatchShape
<1>7. e \in Enrollment
  BY <1>1, <1>2, <1>6 DEF Enrollment
<1>8. \A x : x[1] \in {"totp", "code"} /\ x[2] = k => x \notin retired
  BY <1>1, <1>2, FreshCodeIsUnspent
<1>9. \A c \in Batch(k, s + 1) : c \notin retired \cup xs
  BY <1>5, <1>6, <1>8
<1>10. ~reused'
  <2>2. xs \cap retired = {}
    BY <1>5, <1>8
  <2> QED BY <1>h, <2>2 DEF Booked, Secrecy, SecretsAreSpentOnce
<1>11. vault' \in [User -> Nat] /\ vault'[u] = e.secret
  BY <1>h DEF Booked
<1>12. e.secret = k /\ e.status = "confirmed" /\ e.mark = s + 1 /\ e.codes = Batch(k, s + 1)
  OBVIOUS
<1> HIDE DEF e, xs, k, u
<1>13. Own(u, xs) /\ MovesOn(u, e, xs)
  BY <1>1, <1>2, <1>5, <1>6, <1>9, <1>12 DEF Own, MovesOn
<1> QED
  BY <1>1, <1>4, <1>h, <1>7, <1>10, <1>11, <1>13, EntryMovesOn

LEMMA CodeIsAccepted ==
  ASSUME Booked, NEW u \in User, NEW s \in Window, FreshStep(u, s)
  PROVE  /\ vault[u] = mfa[u].secret /\ mfa[u].secret # 0 /\ mfa[u].status = "confirmed"
         /\ s \in Nat /\ s > mfa[u].mark
         /\ {Totp(vault[u], s)} \cap retired = {}
<1>1. vault[u] = mfa[u].secret /\ mfa[u].secret # 0 /\ mfa[u].status = "confirmed" /\ HoldsSecret(u)
  BY DEF FreshStep, HoldsSecret
<1>2. s \in Nat /\ s > mfa[u].mark
  BY DEF FreshStep, Window, Booked
<1>3. Totp(vault[u], s) \notin retired
  BY <1>1, <1>2, TotpShape, FreshCodeIsUnspent
<1> QED BY <1>1, <1>2, <1>3

LEMMA LoginKeepsBooked ==
  ASSUME Booked, Serves, NEW t \in Thread, CompleteMfaLogin(t)
  PROVE  Booked'
<1> DEFINE u == request[t].user
<1>1. u \in User /\ mfa[u] \in Enrollment /\ ~reused
  BY DEF CompleteMfaLogin, Serves, Identified, At, Booked, Secrecy, SecretsAreSpentOnce
<1>2. UNCHANGED <<vault, tokens, clock, fresh>> /\ vault \in [User -> Nat]
  BY DEF CompleteMfaLogin, Booked, bounds
<1>3. ASSUME NEW s \in Window, FreshStep(u, s), mfa' = [mfa EXCEPT ![u].mark = s],
             Accept({Totp(vault[u], s)})
      PROVE  Booked'
  <2> DEFINE e == [mfa[u] EXCEPT !.mark = s]
  <2>1. /\ vault[u] = mfa[u].secret /\ mfa[u].secret # 0 /\ mfa[u].status = "confirmed"
        /\ s \in Nat /\ s > mfa[u].mark
        /\ {Totp(vault[u], s)} \cap retired = {}
    BY <1>1, <1>3, CodeIsAccepted
  <2>2. e \in Enrollment /\ e.secret = mfa[u].secret /\ e.status = "confirmed" /\ e.mark = s /\ e.codes = mfa[u].codes
    BY <1>1, <2>1 DEF Enrollment
  <2>3. mfa' = [mfa EXCEPT ![u] = e]
    BY <1>3
  <2>4. ~reused' /\ retired' = retired \cup {Totp(vault[u], s)}
    BY <1>1, <1>3, <2>1 DEF Accept
  <2>5. \A c \in mfa[u].codes : c[1] = "code" /\ c \notin retired /\ c[2] = mfa[u].secret /\ c[3] \in Nat /\ c[3] <= mfa[u].mark
    BY <1>1, CodeShape DEF Booked, Secrecy, CodesAreUnspent
  <2>6. mfa[u].mark \in Nat
    BY <1>1 DEF Enrollment
  <2>7. \A c \in e.codes : c \notin retired \cup {Totp(vault[u], s)} /\ c[2] = e.secret /\ c[3] <= e.mark
    BY <2>1, <2>2, <2>5, <2>6, TotpShape
  <2> HIDE DEF e, u
  <2>8. Own(u, {Totp(vault[u], s)}) /\ MovesOn(u, e, {Totp(vault[u], s)})
    BY <2>1, <2>2, <2>6, <2>7, TotpShape DEF Own, MovesOn
  <2> QED BY <1>1, <1>2, <2>1, <2>2, <2>3, <2>4, <2>8, EntryMovesOn
<1>4. ASSUME NEW c \in mfa[u].codes, Accept({c}),
             mfa' = [mfa EXCEPT ![u].codes = @ \ {c}]
      PROVE  Booked'
  <2> DEFINE e == [mfa[u] EXCEPT !.codes = mfa[u].codes \ {c}]
  <2>1. \A d \in mfa[u].codes : d[1] = "code" /\ d \notin retired /\ d[2] = mfa[u].secret /\ d[3] \in Nat /\ d[3] <= mfa[u].mark
    BY <1>1, CodeShape DEF Booked, Secrecy, CodesAreUnspent
  <2>2. mfa[u].status = "confirmed" /\ mfa[u].secret # 0 /\ vault[u] \in {0, mfa[u].secret}
    BY <1>1, <1>4 DEF Booked, Secrecy, CodesAreUnspent, ConfirmedSecretIsTheUsers
  <2>3. /\ e \in Enrollment /\ e.secret = mfa[u].secret /\ e.status = "confirmed" /\ e.mark = mfa[u].mark
        /\ e.codes = mfa[u].codes \ {c} /\ mfa[u].mark \in Nat
    BY <1>1, <2>2 DEF Enrollment
  <2>4. mfa' = [mfa EXCEPT ![u] = e]
    BY <1>1, <1>4
  <2>5. ~reused' /\ retired' = retired \cup {c}
    BY <1>1, <1>4, <2>1 DEF Accept
  <2>6. \A d \in e.codes : d \notin retired \cup {c} /\ d[2] = e.secret /\ d[3] <= e.mark
    BY <2>1, <2>3
  <2> HIDE DEF e, u
  <2>7. Own(u, {c}) /\ MovesOn(u, e, {c})
    BY <1>4, <2>1, <2>2, <2>3, <2>6 DEF Own, MovesOn
  <2> QED BY <1>1, <1>2, <2>2, <2>3, <2>4, <2>5, <2>7, EntryMovesOn
<1> QED BY <1>3, <1>4 DEF CompleteMfaLogin

LEMMA RegenerateKeepsBooked ==
  ASSUME Booked, Serves, NEW t \in Thread, NEW s \in Window, RegenerateRecoveryCodes(t, s)
  PROVE  Booked'
<1> DEFINE u == request[t].user
           k == vault[u]
           old == mfa[u].codes
           e == [mfa[u] EXCEPT !.mark = s, !.codes = Batch(k, s)]
           S == {Totp(k, s)} \cup old
<1>1. u \in User /\ mfa[u] \in Enrollment /\ ~reused /\ FreshStep(u, s) /\ mfa[u].mark \in Nat
  BY DEF RegenerateRecoveryCodes, Serves, Identified, At, Booked, Secrecy, SecretsAreSpentOnce, Enrollment
<1>2. /\ k = mfa[u].secret /\ k # 0 /\ k \in Nat /\ mfa[u].status = "confirmed"
      /\ s \in Nat /\ s > mfa[u].mark /\ {Totp(k, s)} \cap retired = {} /\ HoldsSecret(u)
  BY <1>1, CodeIsAccepted DEF Booked, FreshStep
<1>3. retired' = retired \cup S /\ ~reused'
  BY <1>1, <1>2 DEF RegenerateRecoveryCodes, AcceptAndReplace
<1>4. UNCHANGED <<vault, tokens, clock, fresh>> /\ vault \in [User -> Nat]
  BY DEF RegenerateRecoveryCodes, Booked, bounds
<1>5. \A c \in old : c[1] = "code" /\ c[2] = k /\ c[3] \in Nat /\ c[3] <= mfa[u].mark
  BY <1>1, <1>2, CodeShape DEF Booked, Secrecy, CodesAreUnspent
<1>6. \A c \in Batch(k, s) : c \in Code /\ c[1] = "code" /\ c[2] = k /\ c[3] = s
  BY <1>2, BatchShape
<1>7. \A c \in Batch(k, s) : c \notin retired
  BY <1>1, <1>2, <1>6, FreshCodeIsUnspent
<1>8. e \in Enrollment /\ e.secret = k /\ e.status = "confirmed" /\ e.mark = s /\ e.codes = Batch(k, s)
  BY <1>1, <1>2, <1>6 DEF Enrollment
<1>9. mfa' = [mfa EXCEPT ![u] = e]
  BY <1>1 DEF RegenerateRecoveryCodes
<1>10. \A x \in S : x[1] \in {"totp", "code"} /\ x[2] = k /\ x[3] \in Nat /\ x[3] <= s
  BY <1>1, <1>2, <1>5, TotpShape
<1>11. \A c \in Batch(k, s) : c \notin S
  BY <1>1, <1>2, <1>5, <1>6, TotpShape
<1> HIDE DEF e, S, k, u, old
<1>12. Own(u, S) /\ MovesOn(u, e, S)
  BY <1>1, <1>2, <1>6, <1>7, <1>8, <1>10, <1>11 DEF Own, MovesOn
<1>13. vault'[u] = e.secret /\ \A v \in User \ {u} : vault'[v] = vault[v]
  BY <1>4, <1>8 DEF k
<1> QED BY <1>1, <1>3, <1>4, <1>8, <1>9, <1>12, <1>13, EntryMovesOn

LEMMA DisableKeepsBooked ==
  ASSUME Booked, Serves, NEW t \in Thread, DisableMfa(t)
  PROVE  Booked'
<1> DEFINE u == request[t].user
<1>1. u \in User /\ ~reused /\ Deleted(u) /\ UNCHANGED <<tokens, clock, fresh>>
  BY DEF DisableMfa, Serves, Identified, At, Booked, Secrecy, SecretsAreSpentOnce, bounds
<1>2. ASSUME NEW s \in Window, FreshStep(u, s), AcceptAndReplace({Totp(vault[u], s)}, mfa[u].codes)
      PROVE  Booked'
  <2>1. /\ vault[u] = mfa[u].secret /\ mfa[u].secret # 0 /\ s \in Nat
        /\ {Totp(vault[u], s)} \cap retired = {}
    BY <1>1, <1>2, CodeIsAccepted
  <2>2. ~reused' /\ retired' = retired \cup ({Totp(vault[u], s)} \cup mfa[u].codes)
    BY <1>1, <1>2, <2>1 DEF AcceptAndReplace
  <2> DEFINE S == {Totp(vault[u], s)} \cup mfa[u].codes
  <2>3. \A x \in S : x \in mfa[u].codes \/ (x[1] = "totp" /\ x[2] = mfa[u].secret /\ mfa[u].secret # 0 /\ x[3] \in Nat)
    BY <2>1, TotpShape
  <2> HIDE DEF u, S
  <2>4. ~reused' /\ retired' = retired \cup S
    BY <2>2 DEF S
  <2> QED BY <1>1, <2>3, <2>4, DeletionKeepsBooked
<1>3. ASSUME NEW c \in mfa[u].codes, AcceptAndReplace({c}, mfa[u].codes) PROVE Booked'
  <2>1. c \notin retired
    BY <1>1, <1>3 DEF Booked, Secrecy, CodesAreUnspent
  <2>2. ~reused' /\ retired' = retired \cup mfa[u].codes
    BY <1>1, <1>3, <2>1 DEF AcceptAndReplace
  <2> HIDE DEF u
  <2> QED BY <1>1, <2>2, DeletionKeepsBooked
<1> QED BY <1>2, <1>3 DEF DisableMfa

LEMMA ExpiryKeepsBooked ==
  ASSUME Booked, NEW u \in User, mfa[u].status = "pending", Deleted(u),
         UNCHANGED <<tokens, clock, fresh, retired, reused>>
  PROVE  Booked'
<1> DEFINE S == {}
<1>1. ~reused' /\ retired' = retired \cup S
  BY DEF Booked, Secrecy, SecretsAreSpentOnce
<1>2. \A x \in S : x \in mfa[u].codes \/ (x[1] = "totp" /\ x[2] = mfa[u].secret /\ mfa[u].secret # 0 /\ x[3] \in Nat)
  OBVIOUS
<1> HIDE DEF S
<1> QED BY <1>1, <1>2, DeletionKeepsBooked

LEMMA ClearKeepsBooked ==
  ASSUME Booked, Serves, NEW t \in Thread, ClearMfa(t)
  PROVE  Booked'
<1> DEFINE u == request[t].user
<1>1. u \in User /\ ~reused' /\ Deleted(u) /\ retired' = retired \cup mfa[u].codes /\ UNCHANGED <<tokens, clock, fresh>>
  BY DEF ClearMfa, Serves, Identified, At, Booked, Secrecy, SecretsAreSpentOnce, bounds
<1> HIDE DEF u
<1> QED BY <1>1, DeletionKeepsBooked

\* A new secret is nobody's yet, and nothing of it was retired.
LEMMA EnrollKeepsBooked ==
  ASSUME Booked, Serves, NEW t \in Thread, Enroll(t)
  PROVE  Booked'
<1> DEFINE u == request[t].user
           e == [mfa[u] EXCEPT !.status = "pending", !.secret = fresh + 1, !.mark = 0]
<1>1. u \in User /\ mfa[u] \in Enrollment /\ mfa[u].status # "confirmed" /\ mfa[u].codes = {}
  BY DEF Enroll, Serves, Identified, At, Booked, Secrecy, CodesAreUnspent
<1>2. fresh' = fresh + 1 /\ fresh \in Nat /\ UNCHANGED <<tokens, clock, retired, reused>>
  BY DEF Enroll, Mint, Booked
<1>3. e \in Enrollment /\ e.status = "pending" /\ e.secret = fresh + 1 /\ e.codes = {}
  <2>1. ASSUME NEW r \in Enrollment, r.codes = {}, NEW k \in Nat
        PROVE  LET d == [r EXCEPT !.status = "pending", !.secret = k, !.mark = 0] IN
               d \in Enrollment /\ d.status = "pending" /\ d.secret = k /\ d.codes = {}
    BY <2>1 DEF Enrollment
  <2>2. fresh + 1 \in Nat
    BY <1>2
  <2> QED BY <1>1, <2>1, <2>2
<1>4. mfa' = [mfa EXCEPT ![u] = e] /\ vault' = [vault EXCEPT ![u] = fresh + 1]
  BY <1>2 DEF Enroll
<1> HIDE DEF u, e
<1>5. /\ mfa' \in [User -> Enrollment] /\ mfa'[u] = e /\ \A v \in User \ {u} : mfa'[v] = mfa[v]
      /\ \A v \in User : mfa[v].secret \in Nat
  BY <1>1, <1>3, <1>4 DEF Booked, Enrollment
<1>6. vault' \in [User -> Nat] /\ \A v \in User \ {u} : vault'[v] = vault[v]
  BY <1>1, <1>2, <1>4 DEF Booked
<1>7. SecretsAreOwn'
  BY <1>2, <1>3, <1>5 DEF Booked, Secrecy, SecretsAreOwn
<1>8. RetiredIsBehind'
  <2>1. ASSUME NEW x \in retired, x[1] \in {"totp", "code"} PROVE x[2] \in 1..fresh'  /\ x[2] # e.secret
    BY <1>2, <1>3, <2>1 DEF Booked, Secrecy, RetiredIsBehind
  <2>2. ASSUME NEW x \in retired, x[1] = "token" PROVE x[3] \in 1..fresh'
    BY <1>2, <2>2 DEF Booked, Secrecy, RetiredIsBehind
  <2> QED BY <1>2, <1>5, <2>1, <2>2 DEF Booked, Secrecy, RetiredIsBehind
<1>9. CodesAreUnspent'
  BY <1>2, <1>3, <1>5 DEF Booked, Secrecy, CodesAreUnspent
<1>10. TokensAreUnspent'
  BY <1>2 DEF Booked, Secrecy, TokensAreUnspent
<1>11. ConfirmedSecretIsTheUsers'
  BY <1>3, <1>5, <1>6 DEF Booked, Secrecy, ConfirmedSecretIsTheUsers
<1> QED
  BY <1>2, <1>5, <1>6, <1>7, <1>8, <1>9, <1>10, <1>11 DEF Booked, Secrecy, SecretsAreSpentOnce

\* What goes wrong between the stores leaves at most a vault entry without a
\* confirmed row, or a confirmed row without an entry.
LEMMA VaultDriftKeepsBooked ==
  ASSUME Booked, NEW u \in User, NEW w \in Nat, vault' = [vault EXCEPT ![u] = w],
         mfa[u].status = "confirmed" => w = 0,
         fresh' \in Nat, fresh <= fresh', UNCHANGED <<mfa, tokens, clock, retired, reused>>
  PROVE  Booked'
<1>1. vault' \in [User -> Nat] /\ fresh \in Nat /\ \A v \in User : mfa[v].secret \in Nat
  BY DEF Booked, Enrollment
<1>2. SecretsAreOwn' /\ CodesAreUnspent'
  BY <1>1 DEF Booked, Secrecy, SecretsAreOwn, CodesAreUnspent
<1>3. RetiredIsBehind'
  <2>1. \A k : k \in 1..fresh => k \in 1..fresh'
    BY <1>1
  <2> QED BY <2>1 DEF Booked, Secrecy, RetiredIsBehind
<1>4. TokensAreUnspent'
  BY <1>1 DEF Booked, Secrecy, TokensAreUnspent
<1>5. ConfirmedSecretIsTheUsers'
  BY DEF Booked, Secrecy, ConfirmedSecretIsTheUsers
<1> QED BY <1>1, <1>2, <1>3, <1>4, <1>5 DEF Booked, Secrecy, SecretsAreSpentOnce

LEMMA TokensMoveOn ==
  ASSUME Booked, NEW S \in SUBSET tokens, NEW N \in SUBSET ResetToken,
         tokens' = (tokens \ S) \cup N, retired' = retired \cup S,
         fresh' \in Nat, fresh <= fresh', \A x \in N : x[3] = fresh + 1 /\ x[3] <= fresh',
         ~reused', UNCHANGED <<mfa, vault, clock>>
  PROVE  Booked'
<1>1. fresh \in Nat /\ \A v \in User : mfa[v].secret \in Nat
  BY DEF Booked, Enrollment
<1>2. \A x \in tokens \cup N : x[1] = "token"
  BY DEF Booked, ResetToken
<1>3. \A u \in User : \A c \in mfa[u].codes : c[1] = "code"
  BY CodeShape
<1>4. \A x \in S : x[3] \in 1..fresh
  BY DEF Booked, Secrecy, TokensAreUnspent
<1>5. SecretsAreOwn' /\ CodesAreUnspent'
  BY <1>1, <1>2, <1>3 DEF Booked, Secrecy, SecretsAreOwn, CodesAreUnspent
<1>6. RetiredIsBehind'
  <2>1. \A k : k \in 1..fresh => k \in 1..fresh'
    BY <1>1
  <2> QED BY <1>2, <1>4, <2>1 DEF Booked, Secrecy, RetiredIsBehind
<1>7. TokensAreUnspent'
  <2>1. ASSUME NEW x \in N PROVE x \notin retired' /\ x[3] \in 1..fresh'
    <3>1. x[3] = fresh + 1 /\ x[1] = "token"
      BY <1>2
    <3>2. x[3] \notin 1..fresh
      BY <1>1, <3>1
    <3>3. x \notin retired
      BY <3>1, <3>2 DEF Booked, Secrecy, RetiredIsBehind
    <3> QED BY <1>1, <1>4, <3>1, <3>2, <3>3
  <2>2. ASSUME NEW x \in tokens \ S PROVE x \notin retired' /\ x[3] \in 1..fresh'
    BY <1>1 DEF Booked, Secrecy, TokensAreUnspent
  <2> QED BY <2>1, <2>2 DEF TokensAreUnspent
<1>8. ConfirmedSecretIsTheUsers'
  BY DEF Booked, Secrecy, ConfirmedSecretIsTheUsers
<1> QED BY <1>5, <1>6, <1>7, <1>8 DEF Booked, Secrecy, SecretsAreSpentOnce

LEMMA NextKeepsBooked ==
  ASSUME Booked, Serves, Next
  PROVE  Booked'
<1>u. limit.users \subseteq User
  BY AuthAssumption DEF Serves
<1>r. ~reused /\ fresh \in Nat /\ clock \in Nat
  BY DEF Booked, Secrecy, SecretsAreSpentOnce
<1>s. ASSUME UNCHANGED <<mfa, vault, tokens, fresh, retired, reused>>, clock' \in Nat PROVE Booked'
  BY <1>s DEF Booked, Secrecy, SecretsAreOwn, RetiredIsBehind, CodesAreUnspent, TokensAreUnspent,
              SecretsAreSpentOnce, ConfirmedSecretIsTheUsers
<1>n. \A t \in Thread : ~At(t, "idle") => request[t].user \in User
  BY DEF At, Serves, Identified
<1>1. ASSUME NEW t \in Thread, Serving(t) PROVE Booked'
  <2>1. CASE \/ \E u \in limit.users, o \in Org : Login(t, u, o) \/ CheckBootstrap(t, o, u)
             \/ \E i \in DOMAIN sessions :
                  \/ \E route \in Allowed(sessions[i].scope) : Resolve(t, i, route)
                  \/ \E o \in Org : SwitchOrganization(t, i, o)
                  \/ \E u \in limit.users : CheckIssue(t, i, u)
             \/ LoginScope(t) \/ Stop(t)
    BY <2>1, <1>r, <1>s DEF Login, CheckBootstrap, Resolve, SwitchOrganization, CheckIssue, LoginScope, Stop,
                      Reading, data, bounds, history
  <2>2. CASE CreateSession(t) \/ Revoke(t)
    BY <2>2, <1>r, <1>s DEF CreateSession, Revoke, bounds, history
  <2>3. CASE BootstrapOwner(t) \/ \E u \in limit.users, clear \in BOOLEAN : ResetOwner(t, u, clear)
    BY <2>3, <1>r, <1>s DEF BootstrapOwner, ResetOwner, bounds, history
  <2>4. CASE EnrollRolledBack(t)
    <3>1. request[t].user \in User
      BY <2>4, <1>n DEF EnrollRolledBack, At
    <3>2. /\ mfa[request[t].user].status # "confirmed"
          /\ fresh' = fresh + 1 /\ vault' = [vault EXCEPT ![request[t].user] = fresh']
          /\ UNCHANGED <<mfa, tokens, clock, retired, reused>>
      BY <2>4 DEF EnrollRolledBack, Mint, history
    <3>3. fresh' \in Nat /\ fresh <= fresh'
      BY <3>2, <1>r
    <3> QED BY <3>1, <3>2, <3>3, VaultDriftKeepsBooked
  <2>5. CASE ConfirmExpired(t)
    <3>1. request[t].user \in User
      BY <2>5, <1>n DEF ConfirmExpired, At
    <3> QED BY <2>5, <3>1, ExpiryKeepsBooked DEF ConfirmExpired, bounds, history
  <2>6. CASE IssueToken(t)
    <3> DEFINE u == request[t].user
               N == {Token(u, fresh + 1)}
    <3>1. u \in User
      BY <2>6, <1>n DEF IssueToken, At
    <3>2. fresh' = fresh + 1
      BY <2>6 DEF IssueToken, Mint
    <3>3. N \in SUBSET ResetToken /\ \A x \in N : x[3] = fresh + 1 /\ x[3] <= fresh'
      BY <3>1, <3>2, <1>r DEF Token, ResetToken
    <3>4. tokens' = (tokens \ Outstanding(u)) \cup N /\ retired' = retired \cup Outstanding(u)
      BY <2>6, <3>2 DEF IssueToken
    <3>5. Outstanding(u) \in SUBSET tokens
      BY DEF Outstanding
    <3>6. ~reused' /\ UNCHANGED <<mfa, vault, clock>>
      BY <2>6, <1>r DEF IssueToken
    <3>7. fresh' \in Nat /\ fresh <= fresh'
      BY <3>2, <1>r
    <3> HIDE DEF N, u
    <3> QED BY <3>3, <3>4, <3>5, <3>6, <3>7, TokensMoveOn
  <2> QED
    BY <1>1, <2>1, <2>2, <2>3, <2>4, <2>5, <2>6, EnrollKeepsBooked, LoginKeepsBooked, DisableKeepsBooked,
       ConfirmKeepsBooked, RegenerateKeepsBooked, ClearKeepsBooked DEF Serving
<1>2. ASSUME NEW u \in limit.users, CreateUser(u) \/ SweepEnrollment(u) \/ DeletionRolledBack(u) PROVE Booked'
  <2>1. CASE CreateUser(u)
    BY <2>1, <1>r, <1>s DEF CreateUser, bounds, history
  <2>2. CASE SweepEnrollment(u)
    BY <2>2, <1>u, ExpiryKeepsBooked DEF SweepEnrollment, bounds, history
  <2>3. CASE DeletionRolledBack(u)
    <3>1. vault' = [vault EXCEPT ![u] = 0] /\ UNCHANGED <<mfa, tokens, clock, fresh, retired, reused>>
      BY <2>3 DEF DeletionRolledBack, bounds, history
    <3>2. u \in User /\ 0 \in Nat /\ fresh' \in Nat /\ fresh <= fresh'
      BY <1>u, <1>r, <3>1
    <3> QED BY <3>1, <3>2, VaultDriftKeepsBooked
  <2> QED BY <1>2, <2>1, <2>2, <2>3
<1>3. ASSUME NEW o, NEW u, NEW r, CreateMembership(o, u, r) \/ SetMembership(o, u, r) PROVE Booked'
  BY <1>3, <1>r, <1>s DEF CreateMembership, SetMembership, bounds, history
<1>4. ASSUME NEW x \in tokens, RedeemPasswordReset(x) \/ ExpireToken(x) PROVE Booked'
  <2>1. x \notin retired
    BY DEF Booked, Secrecy, TokensAreUnspent
  <2>2. tokens' = tokens \ {x} /\ retired' = retired \cup {x} /\ ~reused' /\ UNCHANGED <<mfa, vault, clock, fresh>>
    <3>1. CASE RedeemPasswordReset(x)
      BY <3>1, <1>r, <2>1 DEF RedeemPasswordReset, Accept, bounds
    <3>2. CASE ExpireToken(x)
      BY <3>2, <1>r DEF ExpireToken, bounds
    <3> QED BY <1>4, <3>1, <3>2
  <2> DEFINE N == {}
             S == {x}
  <2>3. N \in SUBSET ResetToken /\ (\A y \in N : y[3] = fresh + 1 /\ y[3] <= fresh') /\ S \in SUBSET tokens
    OBVIOUS
  <2>4. tokens' = (tokens \ S) \cup N /\ retired' = retired \cup S
    BY <2>2
  <2>5. fresh' \in Nat /\ fresh <= fresh'
    BY <1>r, <2>2
  <2> HIDE DEF N, S
  <2> QED BY <2>2, <2>3, <2>4, <2>5, TokensMoveOn
<1>5. ASSUME NEW i, Logout(i) \/ ExpireSession(i) PROVE Booked'
  BY <1>5, <1>r, <1>s DEF Logout, ExpireSession, bounds, history
<1>6. CASE SweepSessions
  BY <1>6, <1>r, <1>s DEF SweepSessions, bounds, history
<1>7. CASE Tick
  BY <1>7, <1>r, <1>s DEF Tick, data, bounds, history
<1> QED BY <1>1, <1>2, <1>3, <1>4, <1>5, <1>6, <1>7 DEF Next, Changing

-----------------------------------------------------------------------------
(* The theorems *)

LEMMA PartsAreWhole == IInv <=> Serves /\ Founding /\ Booked
BY DEF IInv, Typed, Serves, Founding, Booked

LEMMA InitIsInvariant == Init => IInv
<1> SUFFICES ASSUME Init PROVE IInv
  OBVIOUS
<1>1. NoRow \in Enrollment /\ NoRow.secret = 0 /\ NoRow.status = "none" /\ NoRow.codes = {}
  BY DEF NoRow, Enrollment
<1>2. Serves
  BY IdleIsSound DEF Init, Serves, Identified, Sound
<1>3. Founding
  BY DEF Init, Founding, FoundedOnceAndOwned
<1>4. mfa \in [User -> Enrollment] /\ vault \in [User -> Nat]
  BY <1>1 DEF Init
<1>5. Secrecy
  BY <1>1 DEF Init, Secrecy, SecretsAreOwn, RetiredIsBehind, CodesAreUnspent, TokensAreUnspent,
              SecretsAreSpentOnce, ConfirmedSecretIsTheUsers
<1>6. Booked
  BY <1>4, <1>5 DEF Init, Booked
<1> QED BY <1>2, <1>3, <1>6, PartsAreWhole

LEMMA NextKeepsInvariant == IInv /\ [Next]_vars => IInv'
<1> SUFFICES ASSUME IInv, [Next]_vars PROVE IInv'
  OBVIOUS
<1>1. CASE Next
  <2>1. Serves' /\ Founding' /\ Booked'
    BY <1>1, PartsAreWhole, NextKeepsServes, NextKeepsFounding, NextKeepsBooked
  <2> QED BY <2>1 DEF IInv, Typed, Serves, Founding, Booked
<1>2. CASE UNCHANGED vars
  BY <1>2 DEF vars, data, bounds, history, IInv, Typed, Identified, FoundedOnceAndOwned, Owners, Secrecy,
              SecretsAreOwn, RetiredIsBehind, CodesAreUnspent, TokensAreUnspent, SecretsAreSpentOnce,
              ConfirmedSecretIsTheUsers
<1> QED BY <1>1, <1>2

LEMMA AuthInvariant == Spec => []IInv
BY InitIsInvariant, NextKeepsInvariant, PTL DEF Spec

\* However roles change, members go and two bootstraps race, an organization
\* is founded at most once and has an owner from then on.  (bootstrap_owner,
\* update_membership_role, remove_membership)
THEOREM OrganizationsAreFoundedOnceAndOwned == Spec => []FoundedOnceAndOwned
<1>1. IInv => FoundedOnceAndOwned
  BY DEF IInv
<1> QED BY <1>1, AuthInvariant, PTL

\* A one-time code, a recovery code or a reset token is accepted at most once,
\* by whatever routes and threads it is presented, and never after it was
\* replaced, superseded, revoked or expired.
THEOREM NoSecretIsAcceptedTwice == Spec => []SecretsAreSpentOnce
<1>1. IInv => SecretsAreSpentOnce
  BY DEF IInv, Secrecy
<1> QED BY <1>1, AuthInvariant, PTL

\* Whatever is rolled back between the credential store and auth.db, the vault
\* entry of a confirmed second factor is the secret the user confirmed or gone.
THEOREM TheConfirmedSecretStays == Spec => []ConfirmedSecretIsTheUsers
<1>1. IInv => ConfirmedSecretIsTheUsers
  BY DEF IInv, Secrecy
<1> QED BY <1>1, AuthInvariant, PTL
=============================================================================
