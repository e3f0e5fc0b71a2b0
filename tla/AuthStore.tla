------------------------------ MODULE AuthStore ------------------------------
(***************************************************************************)
(* The control-plane database of the multi-user mode (authstore.py) behind *)
(* the request gate of the workbench: organizations and their owners,      *)
(* sessions and their scopes, the second factor, recovery codes and        *)
(* password resets.  A request is a thread: it resolves its session once   *)
(* and works on what it read; each BEGIN IMMEDIATE transaction is one      *)
(* step, and the steps of different requests interleave.                   *)
(*                                                                         *)
(* The second factor lives in two stores.  Its row is in auth.db, its      *)
(* secret in the operating system's credential store, which no rollback    *)
(* reaches.  Passwords, token bytes and the audit log are left out; the    *)
(* rate limiter only refuses, so it is one of the reasons to Stop.         *)
(***************************************************************************)
EXTENDS Integers, Sequences, FiniteSets

CONSTANTS User, Org, Thread,
          Role,          \* the roles in use
          None,
          CodeCount,     \* recovery codes of one batch (10 in the code)
          SessionLimit,  \* open sessions of one user (5 in the code)
          Limits         \* bound: the choices of limit, see the variable

Privileged == {"owner", "admin"}

ASSUME AuthAssumption ==
  /\ "owner" \in Role /\ Role \subseteq {"owner", "admin", "developer", "viewer"}
  /\ {SessionLimit, CodeCount} \subseteq Nat \ {0}
  /\ Limits \subseteq [users : SUBSET User, enrolling : SUBSET User,
                      sessions : Nat, fresh : Nat, time : Nat]
  /\ None \notin User \cup Org \cup Role \cup Nat

VARIABLES
  accounts,  \* rows of table user
  role,      \* table membership: the role of a user in an organization
  sessions,  \* table session_token, in the order of creation
  mfa,       \* table mfa_secret with mfa_recovery_code
  vault,     \* the credential store: the secret of a user, 0 for none
  tokens,    \* password_reset_token: the rows not used, not expired
  request,   \* memory: the request a thread serves
  clock,     \* the TOTP time step
  fresh,     \* secrets and tokens made so far
  limit,     \* bound, chosen once: who takes part and who of them has an
             \* authenticator; how many sessions, secrets and tokens are made;
             \* the last TOTP time step
  founded,   \* history: how often bootstrap-owner succeeded
  retired,   \* history: secrets accepted once, replaced or revoked
  reused     \* history: a retired secret was accepted

data == <<accounts, role, sessions, mfa, vault, tokens>>
history == <<founded, retired, reused>>
bounds == <<fresh, limit>>
vars == <<data, request, clock, bounds, history>>

NoRow == [status |-> "none", secret |-> 0, mark |-> 0, codes |-> {}]
Idle == [pc |-> "idle", user |-> None, org |-> None, scope |-> "NORMAL", session |-> 0]

Init ==
  /\ accounts = {} /\ role = [o \in Org |-> [u \in User |-> None]]
  /\ sessions = <<>> /\ mfa = [u \in User |-> NoRow] /\ vault = [u \in User |-> 0]
  /\ tokens = {} /\ request = [t \in Thread |-> Idle]
  /\ clock = 1 /\ fresh = 0 /\ limit \in Limits
  /\ founded = [o \in Org |-> 0]
  /\ retired = {} /\ reused = FALSE

-----------------------------------------------------------------------------
(* Secrets.  A code of the authenticator is the secret and the time step   *)
(* it was computed for; a recovery code is its place in the batch that was *)
(* made when the code of a step was accepted.                              *)

Totp(secret, step) == <<"totp", secret, step>>
Batch(secret, step) == {<<"code", secret, step, k>> : k \in 1..CodeCount}

Accept(xs) ==
  /\ reused' = (reused \/ xs \cap retired # {})
  /\ retired' = retired \cup xs

AcceptAndReplace(xs, old) ==
  /\ reused' = (reused \/ xs \cap retired # {})
  /\ retired' = retired \cup xs \cup old

Mint == fresh < limit.fresh /\ fresh' = fresh + 1 /\ UNCHANGED limit

\* The time steps a submitted code may match: one each side of now.
Window == {s \in (clock - 1)..(clock + 1) : s >= 1}

\* The user's authenticator holds the secret the enrollment last showed (field
\* secret, which is no column): its codes count if that is the vault's.
HoldsSecret(u) == vault[u] # 0 /\ vault[u] = mfa[u].secret

\* A slip: the watermark itself is accepted again.
AnyStep(u, s) ==
  mfa[u].status = "confirmed" /\ HoldsSecret(u) /\ s \in Window /\ s >= mfa[u].mark

\* A step past the watermark, for a confirmed enrollment.
FreshStep(u, s) ==
  mfa[u].status = "confirmed" /\ HoldsSecret(u) /\ s \in Window /\ s > mfa[u].mark

-----------------------------------------------------------------------------
(* Requests and sessions *)

Serve(t, r) == request' = [request EXCEPT ![t] = r]
Done(t) == Serve(t, Idle)
At(t, pc) == request[t].pc = pc
Goto(t, pc) == Serve(t, [request[t] EXCEPT !.pc = pc])

\* A revoked session is refused wherever it is presented: nothing of it is kept.
Revoked == [user |-> None, org |-> None, scope |-> "NORMAL", state |-> "closed"]
Closed(q, S) == [i \in DOMAIN q |-> IF i \in S THEN Revoked ELSE q[i]]
OfUser(u) == {i \in DOMAIN sessions : sessions[i].user = u}
InOrg(u, o) == {i \in OfUser(u) : sessions[i].org = o}

\* An expired session is refused but still counts against the limit.
Unrevoked(q, u) == {i \in DOMAIN q : q[i].user = u /\ q[i].state # "closed"}
Surplus(q, u) ==
  {i \in Unrevoked(q, u) : Cardinality({j \in Unrevoked(q, u) : j > i}) >= SessionLimit}

\* Insert the new session and revoke the oldest ones over the limit.
CreateSession(t) ==
  LET r == request[t]
      q == Append(sessions, [user |-> r.user, org |-> r.org, scope |-> r.scope, state |-> "open"]) IN
  /\ At(t, "create") /\ Len(sessions) < limit.sessions
  /\ sessions' = Closed(q, Surplus(q, r.user))
  /\ Done(t)
  /\ UNCHANGED <<accounts, role, mfa, vault, tokens, clock, bounds, history>>

\* The session of the request, or every session of its user, is revoked
\* before the new one is issued.
Revoke(t) ==
  /\ \/ At(t, "rotate") /\ sessions' = Closed(sessions, {request[t].session})
     \/ At(t, "renounce") /\ sessions' = Closed(sessions, OfUser(request[t].user))
  /\ Goto(t, "create")
  /\ UNCHANGED <<accounts, role, mfa, vault, tokens, clock, bounds, history>>

\* Everything but a request's own progress stays.
Reading == UNCHANGED <<data, clock, bounds, history>>

\* The password was right; the role decides about mandatory enrollment.
Login(t, u, o) ==
  /\ At(t, "idle") /\ role[o][u] # None
  /\ Serve(t, [pc |-> "scope", user |-> u, org |-> o, session |-> 0,
               scope |-> IF role[o][u] \in Privileged THEN "BOOTSTRAP_MFA" ELSE "NORMAL"])
  /\ Reading

LoginScope(t) ==
  /\ At(t, "scope")
  /\ Serve(t, [request[t] EXCEPT !.pc = "create",
                 !.scope = IF mfa[request[t].user].status = "confirmed" THEN "MFA_PENDING" ELSE @])
  /\ Reading

\* The routes a session of a restricted scope may reach.
Allowed(scope) ==
  CASE scope = "BOOTSTRAP_MFA" -> {"logout", "enroll", "confirm"}
    [] scope = "MFA_PENDING" -> {"logout", "code"}
    [] OTHER -> {"logout", "enroll", "confirm", "disable", "regenerate", "issue", "switch"}

\* The gate: an open session, of a user who is a member now, in its scope.
Gate(i, route) ==
  LET s == sessions[i] IN
  s.state = "open" /\ role[s.org][s.user] # None /\ route \in Allowed(s.scope)

Resolved(i, pc) ==
  [pc |-> pc, user |-> sessions[i].user, org |-> sessions[i].org, session |-> i,
   scope |-> IF pc = "code" THEN "NORMAL" ELSE sessions[i].scope]

Resolve(t, i, route) ==
  /\ At(t, "idle") /\ Gate(i, route)
  /\ route \in {"enroll", "confirm", "code", "disable", "regenerate"}
  /\ sessions[i].user \in limit.enrolling
  /\ Serve(t, Resolved(i, route))
  /\ Reading

\* switch_organization reads once more what the gate has read.
SwitchOrganization(t, i, o) ==
  /\ At(t, "idle") /\ Gate(i, "switch") /\ role[o][sessions[i].user] # None
  /\ Serve(t, [Resolved(i, "rotate") EXCEPT !.org = o])
  /\ Reading

\* Revoking is idempotent, so the gate's read and the write are one step.
Logout(i) ==
  /\ Gate(i, "logout")
  /\ sessions' = Closed(sessions, {i})
  /\ UNCHANGED <<accounts, role, mfa, vault, tokens, request, clock, bounds, history>>

\* Refused, failed, rate-limited or gone with the process.
Stop(t) == ~At(t, "idle") /\ Done(t) /\ Reading

-----------------------------------------------------------------------------
(* The second factor *)

\* The secret goes to the vault inside the transaction of the row.
Enroll(t) ==
  LET u == request[t].user IN
  /\ At(t, "enroll") /\ mfa[u].status # "confirmed" /\ Mint
  /\ vault' = [vault EXCEPT ![u] = fresh']
  /\ mfa' = [mfa EXCEPT ![u] = [@ EXCEPT !.status = "pending", !.secret = fresh', !.mark = 0]]
  /\ Done(t)
  /\ UNCHANGED <<accounts, role, sessions, tokens, clock, founded, retired, reused>>

\* A slip: the secret is stored before the enrollment is looked at.
EnrollUnchecked(t) ==
  /\ At(t, "enroll") /\ Mint
  /\ vault' = [vault EXCEPT ![request[t].user] = fresh']
  /\ Done(t)
  /\ UNCHANGED <<accounts, role, sessions, mfa, tokens, clock, history>>

\* The transaction is rolled back or the process dies after the vault write:
\* the vault keeps a secret nobody was shown.
EnrollRolledBack(t) ==
  /\ At(t, "enroll") /\ mfa[request[t].user].status # "confirmed" /\ Mint
  /\ vault' = [vault EXCEPT ![request[t].user] = fresh']
  /\ Done(t)
  /\ UNCHANGED <<accounts, role, sessions, mfa, tokens, clock, history>>

\* Two codes of consecutive steps confirm; a restricted session graduates.
Confirm(t, s) ==
  LET u == request[t].user IN
  /\ At(t, "confirm") /\ mfa[u].status = "pending" /\ HoldsSecret(u)
  /\ {s, s + 1} \subseteq Window
  /\ mfa' = [mfa EXCEPT ![u] = [status |-> "confirmed", secret |-> vault[u],
                                mark |-> s + 1, codes |-> Batch(vault[u], s + 1)]]
  /\ AcceptAndReplace({Totp(vault[u], s), Totp(vault[u], s + 1)}, mfa[u].codes)
  /\ IF request[t].scope = "BOOTSTRAP_MFA"
     THEN Serve(t, [request[t] EXCEPT !.pc = "rotate", !.scope = "NORMAL"])
     ELSE Done(t)
  /\ UNCHANGED <<accounts, role, sessions, vault, tokens, clock, bounds, founded>>

\* Row and codes are deleted, then the vault entry, then the commit.
Deleted(u) ==
  /\ mfa' = [mfa EXCEPT ![u] = NoRow]
  /\ vault' = [vault EXCEPT ![u] = 0]

\* A confirmation past the deadline, and the sweep of expired enrollments.
ConfirmExpired(t) ==
  /\ At(t, "confirm") /\ mfa[request[t].user].status = "pending"
  /\ Deleted(request[t].user) /\ Done(t)
  /\ UNCHANGED <<accounts, role, sessions, tokens, clock, bounds, history>>

SweepEnrollment(u) ==
  /\ mfa[u].status = "pending" /\ Deleted(u)
  /\ UNCHANGED <<accounts, role, sessions, tokens, request, clock, bounds, history>>

\* A deletion whose transaction is rolled back after the vault entry went.
DeletionRolledBack(u) ==
  /\ mfa[u].status # "none" /\ vault[u] # 0
  /\ \/ mfa[u].status = "pending"
     \/ \E t \in Thread : request[t].user = u /\ request[t].pc \in {"disable", "clear"}
  /\ vault' = [vault EXCEPT ![u] = 0]
  /\ UNCHANGED <<accounts, role, sessions, mfa, tokens, request, clock, bounds, history>>

\* The pending session is exchanged for a normal one with a one-time code,
\* which moves the watermark, or with a recovery code, which is consumed.
CompleteMfaLogin(t) ==
  LET u == request[t].user IN
  /\ At(t, "code")
  /\ \/ \E s \in Window :
          /\ FreshStep(u, s)
          /\ mfa' = [mfa EXCEPT ![u].mark = s]
          /\ Accept({Totp(vault[u], s)})
          /\ Goto(t, "rotate")
     \/ \E c \in mfa[u].codes :
          /\ mfa' = [mfa EXCEPT ![u].codes = @ \ {c}]
          /\ Accept({c})
          /\ Goto(t, "renounce")
  /\ UNCHANGED <<accounts, role, sessions, vault, tokens, clock, bounds, founded>>

RegenerateRecoveryCodes(t, s) ==
  LET u == request[t].user IN
  /\ At(t, "regenerate") /\ FreshStep(u, s)
  /\ mfa' = [mfa EXCEPT ![u] = [@ EXCEPT !.mark = s, !.codes = Batch(vault[u], s)]]
  /\ AcceptAndReplace({Totp(vault[u], s)}, mfa[u].codes)
  /\ Done(t)
  /\ UNCHANGED <<accounts, role, sessions, vault, tokens, clock, bounds, founded>>

\* Password and a code; every session of the user is revoked.
DisableMfa(t) ==
  LET u == request[t].user IN
  /\ At(t, "disable") /\ mfa[u].status = "confirmed"
  /\ \/ \E s \in Window : FreshStep(u, s) /\ AcceptAndReplace({Totp(vault[u], s)}, mfa[u].codes)
     \/ \E c \in mfa[u].codes : AcceptAndReplace({c}, mfa[u].codes)
  /\ Deleted(u)
  /\ sessions' = Closed(sessions, OfUser(u))
  /\ Done(t)
  /\ UNCHANGED <<accounts, role, tokens, clock, bounds, founded>>

-----------------------------------------------------------------------------
(* Password resets *)

MayReset(issuer, target) ==
  \/ issuer = "owner" /\ target \notin {"owner", None}
  \/ issuer = "admin" /\ target \in {"developer", "viewer"}

\* The roles are read before the transaction that makes the token.
CheckIssue(t, i, target) ==
  LET o == sessions[i].org IN
  /\ At(t, "idle") /\ Gate(i, "issue")
  /\ MayReset(role[o][sessions[i].user], role[o][target])
  /\ Serve(t, [Idle EXCEPT !.pc = "token", !.user = target])
  /\ Reading

Token(u, id) == <<"token", u, id>>
Outstanding(u) == {x \in tokens : x[2] = u}

\* One outstanding token per user: issuing again supersedes.
IssueToken(t) ==
  LET u == request[t].user IN
  /\ At(t, "token") /\ Mint
  /\ tokens' = (tokens \ Outstanding(u)) \cup {Token(u, fresh')}
  /\ retired' = retired \cup Outstanding(u)
  /\ Done(t)
  /\ UNCHANGED <<accounts, role, sessions, mfa, vault, clock, founded, reused>>

RedeemPasswordReset(x) ==
  /\ x \in tokens
  /\ tokens' = tokens \ {x}
  /\ Accept({x})
  /\ sessions' = Closed(sessions, OfUser(x[2]))
  /\ UNCHANGED <<accounts, role, mfa, vault, request, clock, bounds, founded>>

\* The host's command line: an owner's sessions go, the enrollment on request.
ResetOwner(t, u, clear) ==
  /\ At(t, "idle") /\ \E o \in Org : role[o][u] = "owner"
  /\ sessions' = Closed(sessions, OfUser(u))
  /\ Serve(t, IF clear THEN [Idle EXCEPT !.pc = "clear", !.user = u] ELSE Idle)
  /\ UNCHANGED <<accounts, role, mfa, vault, tokens, clock, bounds, history>>

ClearMfa(t) ==
  LET u == request[t].user IN
  /\ At(t, "clear")
  /\ Deleted(u) /\ retired' = retired \cup mfa[u].codes
  /\ sessions' = Closed(sessions, OfUser(u))
  /\ Done(t)
  /\ UNCHANGED <<accounts, role, tokens, clock, bounds, founded, reused>>

-----------------------------------------------------------------------------
(* Organizations *)

Owners(o) == {u \in User : role[o][u] = "owner"}

\* bootstrap-owner looks for an owner and looks again in its transaction.
CheckBootstrap(t, o, u) ==
  /\ At(t, "idle") /\ Owners(o) = {}
  /\ Serve(t, [Idle EXCEPT !.pc = "bootstrap", !.user = u, !.org = o])
  /\ Reading

BootstrapOwner(t) ==
  LET r == request[t] IN
  /\ At(t, "bootstrap") /\ Owners(r.org) = {} /\ r.user \notin accounts
  /\ accounts' = accounts \cup {r.user}
  /\ role' = [role EXCEPT ![r.org][r.user] = "owner"]
  /\ founded' = [founded EXCEPT ![r.org] = @ + 1]
  /\ Done(t)
  /\ UNCHANGED <<sessions, mfa, vault, tokens, clock, bounds, retired, reused>>

CreateUser(u) ==
  /\ u \notin accounts /\ accounts' = accounts \cup {u}
  /\ UNCHANGED <<role, sessions, mfa, vault, tokens, request, clock, bounds, history>>

CreateMembership(o, u, r) ==
  /\ u \in accounts /\ role[o][u] = None
  /\ role' = [role EXCEPT ![o][u] = r]
  /\ UNCHANGED <<accounts, sessions, mfa, vault, tokens, request, clock, bounds, history>>

\* A slip: there is an owner, maybe the one who leaves.
KeepsSomeOwner(o, u) == role[o][u] = "owner" => Owners(o) # {}

\* The member stays an owner, or another owner is there.
KeepsAnOwner(o, u) == role[o][u] = "owner" => Owners(o) # {u}

\* A change of role, to None for a removal, in one transaction with its check.
SetMembership(o, u, r) ==
  /\ role[o][u] # None /\ (r # "owner" => KeepsAnOwner(o, u))
  /\ role' = [role EXCEPT ![o][u] = r]
  /\ sessions' = Closed(sessions, InOrg(u, o))
  /\ UNCHANGED <<accounts, mfa, vault, tokens, request, clock, bounds, history>>

-----------------------------------------------------------------------------
(* Time *)

Tick ==
  /\ clock < limit.time /\ clock' = clock + 1
  /\ UNCHANGED <<data, request, bounds, history>>

ExpireSession(i) ==
  /\ sessions[i].state = "open"
  /\ sessions' = [sessions EXCEPT ![i].state = "expired"]
  /\ UNCHANGED <<accounts, role, mfa, vault, tokens, request, clock, bounds, history>>

\* Expired rows are deleted: they no longer count.
SweepSessions ==
  LET S == {i \in DOMAIN sessions : sessions[i].state = "expired"} IN
  /\ S # {} /\ sessions' = Closed(sessions, S)
  /\ UNCHANGED <<accounts, role, mfa, vault, tokens, request, clock, bounds, history>>

ExpireToken(x) ==
  /\ x \in tokens /\ tokens' = tokens \ {x} /\ retired' = retired \cup {x}
  /\ UNCHANGED <<accounts, role, sessions, mfa, vault, request, clock, bounds, founded, reused>>

-----------------------------------------------------------------------------
Serving(t) ==
  \/ \E u \in limit.users, o \in Org : Login(t, u, o) \/ CheckBootstrap(t, o, u)
  \/ \E i \in DOMAIN sessions :
       \/ \E route \in Allowed(sessions[i].scope) : Resolve(t, i, route)
       \/ \E o \in Org : SwitchOrganization(t, i, o)
       \/ \E u \in limit.users : CheckIssue(t, i, u)
  \/ LoginScope(t) \/ CreateSession(t) \/ Revoke(t)
  \/ Enroll(t) \/ EnrollRolledBack(t) \/ ConfirmExpired(t) \/ CompleteMfaLogin(t) \/ DisableMfa(t)
  \/ \E s \in Window : Confirm(t, s) \/ RegenerateRecoveryCodes(t, s)
  \/ \E u \in limit.users, clear \in BOOLEAN : ResetOwner(t, u, clear)
  \/ IssueToken(t) \/ ClearMfa(t) \/ BootstrapOwner(t) \/ Stop(t)

Changing ==
  \/ \E u \in limit.users : CreateUser(u) \/ SweepEnrollment(u) \/ DeletionRolledBack(u)
  \/ \E o \in Org, u \in limit.users : \/ \E r \in Role : CreateMembership(o, u, r)
                                \/ \E r \in Role \cup {None} : SetMembership(o, u, r)
  \/ \E x \in tokens : RedeemPasswordReset(x) \/ ExpireToken(x)
  \/ \E i \in DOMAIN sessions : Logout(i) \/ ExpireSession(i)
  \/ SweepSessions \/ Tick

Next == Changing \/ \E t \in Thread : Serving(t)

Spec == Init /\ [][Next]_vars

-----------------------------------------------------------------------------
(* Properties *)

\* However roles change and members go, an organization that was founded has
\* an owner, and so the host's bootstrap founds it only once, two of them at
\* the same time included.  (update_membership_role, remove_membership,
\* bootstrap_owner)
FoundedOnceAndOwned ==
  \A o \in Org : founded[o] <= 1 /\ (founded[o] = 1 => Owners(o) # {})

\* A one-time code, a recovery code or a reset token is accepted at most once,
\* and never after it was replaced, superseded, revoked or expired, whoever
\* presents it to whatever route at the same time.
SecretsAreSpentOnce == ~reused

\* The two stores agree where it matters: the vault entry behind a confirmed
\* second factor is the secret the user confirmed, or is gone (and the code
\* refuses), whatever was rolled back between the vault and auth.db.
ConfirmedSecretIsTheUsers ==
  \A u \in User : mfa[u].status = "confirmed" => vault[u] \in {0, mfa[u].secret}
=============================================================================
