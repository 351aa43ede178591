--------------------------- MODULE OperatorAccounts ---------------------------
(***************************************************************************)
(* Operator accounts of the directory API: sign-in and sessions, disabling *)
(* and deletion, invitations, Owner role changes, access resets and the    *)
(* emergency recovery of a sole Owner.                                     *)
(*                                                                         *)
(* A request of an Owner is authenticated in one transaction               *)
(* (require_owner) and performed in another, which does not look at the    *)
(* session again.  A transaction that holds the rows it decides on         *)
(* (SELECT ... FOR UPDATE) is one action; it waits for RowFree.            *)
(*                                                                         *)
(* Completing a role change is the exception: it locks the request and the *)
(* target, but decides on the rows of other Owners too, which it does not  *)
(* hold.  It is three actions (BeginComplete, ApplyComplete,               *)
(* CommitComplete) and tx records what it has locked: the target FOR       *)
(* UPDATE from the first, and the completer's row FOR KEY SHARE, taken by  *)
(* the foreign key completed_by, from the second.                          *)
(*                                                                         *)
(* Time is abstracted to states that lapse at any moment.  Operators named *)
(* Fault... are plausible slips in the definition that follows them; they  *)
(* are not part of the specification.                                      *)
(***************************************************************************)
EXTENDS Naturals, FiniteSets

CONSTANTS
  Accounts,          \* usernames; the row of a deleted account keeps its own
  Founders,          \* the Owners at the start
  Hired,             \* the Managers at the start
  Protected,         \* is_protected_brad_account
  Sessions,          \* ids of operator_sessions rows
  Changes,           \* ids of operator_role_change_requests rows
  Links,             \* one-time recovery links, rows of operator_access_resets
  None,
  MaxLoginFailures   \* MAX_LOGIN_FAILURES

ASSUME AccountsAssumption ==
  /\ Founders \subseteq Accounts /\ Founders # {}
  /\ Hired \subseteq Accounts \ Founders
  /\ Protected \subseteq Founders
  /\ None \notin Accounts
ASSUME SecretsAssumption ==
  None \notin Links \cup {"first", "emergency", "owner", "manager", "viewer"}
ASSUME FailuresAssumption == MaxLoginFailures \in Nat \ {0}

VARIABLES
  life,     \* whether the row exists, is active, inactive or deleted
  role,
  pwd,      \* where the password the operator knows comes from; None: must_change_password
  totp,     \* where the authenticator secret comes from; None: not enrolled
  fails,    \* failed_login_count, counted up to the limit
  locked,   \* locked_until lies ahead
  invite,   \* the role offered by the pending invitation for a username
  sess,     \* sessions and what their sign-in was checked against
  chg,      \* role-change requests
  tx,       \* role-change completions in progress
  link,     \* recovery links
  req,      \* Owners with authenticated requests that are not yet performed
  em        \* the Owner the emergency script has picked

loginVars == <<fails, locked>>
acctVars  == <<life, role, pwd, totp>>
vars == <<life, role, pwd, totp, fails, locked, invite, sess, chg, tx, link, req, em>>

-----------------------------------------------------------------------------
Roles   == {"owner", "manager", "viewer"}
Scopes  == {"full", "mobile"}
Modes   == {"password_only", "totp_only", "password_totp"}
Secrets == {"first", "emergency"} \cup Links

SetsPassword(m) == m \in {"password_only", "password_totp"}
SetsTotp(m)     == m \in {"totp_only", "password_totp"}

NoSession == [of |-> None, scope |-> "full", role |-> None, pwd |-> None,
              totp |-> None, state |-> "unused"]
NoChange  == [target |-> None, role |-> None, verified |-> FALSE, state |-> "unused"]
NoTx      == [by |-> None, phase |-> "none"]
NoLink    == [of |-> None, mode |-> None, state |-> "unused"]

\* "aging": not used for a while; "idle": a web session idle for longer than the
\* timeout in force; "expired": past expires_at; neither of them is revoked.
\* "lapsed": still marked pending, but past expires_at.
SessionRows ==
  [of : Accounts, scope : Scopes, role : Roles, pwd : Secrets, totp : Secrets,
   state : {"open", "aging", "idle", "expired", "revoked"}]
ChangeRows ==
  [target : Accounts, role : Roles, verified : BOOLEAN,
   state : {"pending", "lapsed", "completed", "cancelled", "expired"}]
LinkRows ==
  [of : Accounts, mode : Modes, state : {"open", "expired", "used", "revoked"}]

TypeOK ==
  /\ life   \in [Accounts -> {"none", "active", "disabled", "deleted"}]
  /\ role   \in [Accounts -> Roles \cup {None}]
  /\ pwd    \in [Accounts -> Secrets \cup {None}]
  /\ totp   \in [Accounts -> Secrets \cup {None}]
  /\ fails  \in [Accounts -> 0 .. MaxLoginFailures]
  /\ locked \in [Accounts -> BOOLEAN]
  /\ invite \in [Accounts -> {"none", "manager", "viewer"}]
  /\ sess   \in [Sessions -> SessionRows \cup {NoSession}]
  /\ chg    \in [Changes -> ChangeRows \cup {NoChange}]
  /\ tx     \in [Changes -> [by : Accounts, phase : {"locked", "applied"}] \cup {NoTx}]
  /\ link   \in [Links -> LinkRows \cup {NoLink}]
  /\ req    \subseteq Accounts
  /\ em     \in Accounts \cup {None}
  /\ \A a \in Accounts : /\ life[a] # "none" <=> role[a] \in Roles
                         /\ locked[a] => fails[a] = MaxLoginFailures
  /\ \A c \in Changes : tx[c].phase # "none" =>
       chg[c].state \in {"pending", "lapsed"} /\ life[chg[c].target] = "active"

Init ==
  /\ life   = [a \in Accounts |-> IF a \in Founders \cup Hired THEN "active" ELSE "none"]
  /\ role   = [a \in Accounts |-> IF a \in Founders THEN "owner"
                                  ELSE IF a \in Hired THEN "manager" ELSE None]
  /\ pwd    = [a \in Accounts |-> IF a \in Founders \cup Hired THEN "first" ELSE None]
  /\ totp   = [a \in Accounts |-> IF a \in Founders \cup Hired THEN "first" ELSE None]
  /\ fails  = [a \in Accounts |-> 0]
  /\ locked = [a \in Accounts |-> FALSE]
  /\ invite = [a \in Accounts |-> "none"]
  /\ sess   = [s \in Sessions |-> NoSession]
  /\ chg    = [c \in Changes |-> NoChange]
  /\ tx     = [c \in Changes |-> NoTx]
  /\ link   = [l \in Links |-> NoLink]
  /\ req    = {}
  /\ em     = None

-----------------------------------------------------------------------------
(* What the handlers look at                                                *)

IsOwner(a) == life[a] = "active" /\ role[a] = "owner"
Exists(a)  == life[a] \in {"active", "disabled"}
HasBoth(a) == pwd[a] # None /\ totp[a] # None

\* A row that can be locked FOR UPDATE: no completion holds it, neither as
\* its target nor, by the foreign key, as its completer.
RowFree(a) ==
  \A c \in Changes : /\ tx[c].phase # "none" => chg[c].target # a
                     /\ tx[c].phase = "applied" => tx[c].by # a

\* verify_owner_reauthentication: the Owner's own row, locked, with the
\* password and the code of the authenticator it has now.
Reauthenticates(a) == RowFree(a) /\ IsOwner(a) /\ HasBoth(a)

Unrevoked(s) == sess[s].state \in {"open", "aging", "idle", "expired"}

\* UPDATE operator_sessions SET revoked_at ... WHERE account_id = a.
SessionsEnded(a) ==
  [s \in Sessions |-> IF sess[s].of = a /\ Unrevoked(s)
                      THEN [sess[s] EXCEPT !.state = "revoked"] ELSE sess[s]]

\* UPDATE operator_access_resets SET revoked_at ... of every unused link of a.
LinksRevoked(a) ==
  [l \in Links |-> IF link[l].of = a /\ link[l].state \in {"open", "expired"}
                   THEN [link[l] EXCEPT !.state = "revoked"] ELSE link[l]]

\* Lapsed requests become expired before a new one is inserted.
LapsedExpired ==
  [c \in Changes |-> IF chg[c].state = "lapsed"
                     THEN [chg[c] EXCEPT !.state = "expired"] ELSE chg[c]]

\* What require_operator and refresh ask of a session.
Usable(s) == sess[s].state \in {"open", "aging"} /\ life[sess[s].of] = "active"

-----------------------------------------------------------------------------
(* Sign-in and sessions                                                     *)

\* _perform_login with the right password and code.
Login(a, s, scope) ==
  /\ RowFree(a) /\ life[a] = "active" /\ ~locked[a] /\ HasBoth(a)
  /\ sess[s].state = "unused"
  /\ sess' = [sess EXCEPT ![s] = [of |-> a, scope |-> scope, role |-> role[a],
                                  pwd |-> pwd[a], totp |-> totp[a], state |-> "open"]]
  /\ fails' = [fails EXCEPT ![a] = 0]
  /\ UNCHANGED <<acctVars, locked, invite, chg, tx, link, req, em>>

\* _perform_login with a wrong password or code, or before the authenticator
\* of a reset account is enrolled again.
FailLogin(a) ==
  /\ RowFree(a) /\ life[a] = "active" /\ ~locked[a]
  /\ fails' = [fails EXCEPT ![a] = IF @ < MaxLoginFailures THEN @ + 1 ELSE @]
  /\ locked' = [locked EXCEPT ![a] = IF fails[a] + 1 >= MaxLoginFailures THEN TRUE ELSE FALSE]
  /\ UNCHANGED <<acctVars, invite, sess, chg, tx, link, req, em>>

LockLapses(a) ==
  /\ locked[a]
  /\ locked' = [locked EXCEPT ![a] = FALSE]
  /\ UNCHANGED <<acctVars, fails, invite, sess, chg, tx, link, req, em>>

\* Time passes on a session that is not used; in the end a web session idles
\* past the timeout, and any session reaches expires_at.
SessionAges(s) ==
  /\ sess[s].state = "open"
  /\ sess' = [sess EXCEPT ![s].state = "aging"]
  /\ UNCHANGED <<acctVars, loginVars, invite, chg, tx, link, req, em>>

SessionIdles(s) ==
  /\ sess[s].state = "aging" /\ sess[s].scope = "full"
  /\ sess' = [sess EXCEPT ![s].state = "idle"]
  /\ UNCHANGED <<acctVars, loginVars, invite, chg, tx, link, req, em>>

SessionExpires(s) ==
  /\ sess[s].state \in {"open", "aging", "idle"}
  /\ sess' = [sess EXCEPT ![s].state = "expired"]
  /\ UNCHANGED <<acctVars, loginVars, invite, chg, tx, link, req, em>>

FaultRefresh(s) ==
  /\ Unrevoked(s) /\ life[sess[s].of] = "active"
  /\ sess' = [sess EXCEPT ![s].state = "open"]
  /\ UNCHANGED <<acctVars, loginVars, invite, chg, tx, link, req, em>>

\* refresh: new tokens, and last_seen_at, for a session that still counts; a
\* mobile session's expires_at moves too.  The scope stays.
Refresh(s) ==
  /\ Usable(s)
  /\ sess' = [sess EXCEPT ![s].state = "open"]
  /\ UNCHANGED <<acctVars, loginVars, invite, chg, tx, link, req, em>>

\* logout, and the dashboard's revoke_session, which asks for no valid session.
Logout(s) ==
  /\ Unrevoked(s)
  /\ sess' = [sess EXCEPT ![s].state = "revoked"]
  /\ UNCHANGED <<acctVars, loginVars, invite, chg, tx, link, req, em>>

\* revoke_idle_operator_sessions, when an operator list is shown; expired
\* sessions and those of the mobile app are left alone.
RevokeIdle(S) ==
  /\ S # {} /\ \A s \in S : sess[s].state = "idle" /\ sess[s].scope = "full"
  /\ sess' = [s \in Sessions |-> IF s \in S THEN [sess[s] EXCEPT !.state = "revoked"]
                                 ELSE sess[s]]
  /\ UNCHANGED <<acctVars, loginVars, invite, chg, tx, link, req, em>>

\* require_owner: a usable web session of an account that is an Owner now and
\* has set its password.  last_seen_at is written.
RequireOwner(s) ==
  /\ Usable(s) /\ sess[s].scope = "full"
  /\ role[sess[s].of] = "owner" /\ pwd[sess[s].of] # None
  /\ req' = req \cup {sess[s].of}
  /\ sess' = [sess EXCEPT ![s].state = "open"]
  /\ UNCHANGED <<acctVars, loginVars, invite, chg, tx, link, em>>

\* set_security_settings, for the protected account only.  Every check compares
\* with the timeout in force, so that raising it makes sessions count again
\* that were idle and not yet revoked; lowering it makes sessions idle earlier.
SetIdleTimeout(b, S) ==
  /\ b \in req \cap Protected
  /\ S # {} /\ \A s \in S : sess[s].state = "idle" /\ sess[s].scope = "full"
  /\ sess' = [s \in Sessions |-> IF s \in S THEN [sess[s] EXCEPT !.state = "aging"]
                                 ELSE sess[s]]
  /\ UNCHANGED <<acctVars, loginVars, invite, chg, tx, link, req, em>>

\* The last request of an Owner ends: performed, refused or lost.
RequestEnds(b) ==
  /\ req' = req \ {b}
  /\ UNCHANGED <<acctVars, loginVars, invite, sess, chg, tx, link, em>>

-----------------------------------------------------------------------------
(* Account management by an Owner b whose request is authenticated          *)

\* The target of disable, enable and delete, its row locked.
Manageable(b, a) ==
  b \in req /\ RowFree(a) /\ Exists(a) /\ a \notin Protected /\ role[a] # "owner"

\* disable_operator_account.
Disable(b, a) ==
  /\ Manageable(b, a) /\ life[a] = "active"
  /\ life' = [life EXCEPT ![a] = "disabled"]
  /\ sess' = SessionsEnded(a)
  /\ UNCHANGED <<role, pwd, totp, loginVars, invite, chg, tx, link, req, em>>

\* enable_operator_account.
Enable(b, a) ==
  /\ Manageable(b, a) /\ life[a] = "disabled"
  /\ life' = [life EXCEPT ![a] = "active"]
  /\ UNCHANGED <<role, pwd, totp, loginVars, invite, sess, chg, tx, link, req, em>>

FaultDelete(b, a) ==
  /\ Manageable(b, a) /\ life[a] = "disabled"
  /\ life' = [life EXCEPT ![a] = "deleted"]
  /\ sess' = SessionsEnded(a)
  /\ link' = LinksRevoked(a)
  /\ UNCHANGED <<role, pwd, totp, loginVars, invite, chg, tx, req, em>>

\* delete_operator_account, of an account that is disabled already.
Delete(b, a) ==
  /\ Manageable(b, a) /\ life[a] = "disabled"
  /\ life' = [life EXCEPT ![a] = "deleted"]
  /\ sess' = SessionsEnded(a)
  /\ link' = LinksRevoked(a)
  /\ chg' = [c \in Changes |-> IF chg[c].target = a /\ chg[c].state \in {"pending", "lapsed"}
                               THEN [chg[c] EXCEPT !.state = "cancelled"] ELSE chg[c]]
  /\ UNCHANGED <<role, pwd, totp, loginVars, invite, tx, req, em>>

\* unlock_operator_account.
Unlock(b, a) ==
  /\ b \in req /\ RowFree(a) /\ Exists(a)
  /\ fails' = [fails EXCEPT ![a] = 0]
  /\ locked' = [locked EXCEPT ![a] = FALSE]
  /\ UNCHANGED <<acctVars, invite, sess, chg, tx, link, req, em>>

\* revoke_operator_sessions; it does not lock the account.
RevokeSessions(b, a) ==
  /\ b \in req /\ Exists(a)
  /\ sess' = SessionsEnded(a)
  /\ UNCHANGED <<acctVars, loginVars, invite, chg, tx, link, req, em>>

\* create_operator_invitation, for a username that no row, deleted or not, has.
Invite(b, a, r) ==
  /\ b \in req /\ life[a] = "none" /\ invite[a] = "none"
  /\ r \in {"manager", "viewer"}
  /\ invite' = [invite EXCEPT ![a] = r]
  /\ UNCHANGED <<acctVars, loginVars, sess, chg, tx, link, req, em>>

\* revoke_operator_invitation, or the invitation expires.
Uninvite(a) ==
  /\ invite[a] # "none"
  /\ invite' = [invite EXCEPT ![a] = "none"]
  /\ UNCHANGED <<acctVars, loginVars, sess, chg, tx, link, req, em>>

\* accept_operator_invitation: password and authenticator are set at once.
AcceptInvitation(a) ==
  /\ invite[a] # "none" /\ life[a] = "none"
  /\ life'   = [life EXCEPT ![a] = "active"]
  /\ role'   = [role EXCEPT ![a] = invite[a]]
  /\ pwd'    = [pwd EXCEPT ![a] = "first"]
  /\ totp'   = [totp EXCEPT ![a] = "first"]
  /\ invite' = [invite EXCEPT ![a] = "none"]
  /\ UNCHANGED <<loginVars, sess, chg, tx, link, req, em>>

-----------------------------------------------------------------------------
(* Role changes                                                             *)

\* A change from or to Owner needs the requester's password and code.
Sensitive(a, r) == "owner" \in {role[a], r}

\* What create_operator_role_change_request asks before it inserts, with the
\* trigger on the insert, which reads the requester's row as it is now.
MayRequest(b, a, r) ==
  /\ b \in req /\ a # b /\ RowFree(a)
  /\ life[a] = "active" /\ a \notin Protected /\ role[a] # r
  /\ r = "owner" => HasBoth(a)
  /\ IsOwner(b)
  /\ Sensitive(a, r) => Reauthenticates(b)

FaultRequestChange(b, a, r, c) ==
  /\ MayRequest(b, a, r) /\ chg[c].state = "unused"
  /\ \A d \in Changes : chg[d].state = "lapsed" => tx[d].phase = "none"
  /\ chg' = [LapsedExpired EXCEPT ![c] =
               [target |-> a, role |-> r, verified |-> Sensitive(a, r), state |-> "pending"]]
  /\ UNCHANGED <<acctVars, loginVars, invite, sess, tx, link, req, em>>

\* create_operator_role_change_request.  A partial unique index allows one
\* pending request per target.
RequestChange(b, a, r, c) ==
  /\ MayRequest(b, a, r) /\ chg[c].state = "unused"
  /\ \A d \in Changes : /\ chg[d].state = "pending" => chg[d].target # a
                        /\ chg[d].state = "lapsed" => tx[d].phase = "none"
  /\ chg' = [LapsedExpired EXCEPT ![c] =
               [target |-> a, role |-> r, verified |-> Sensitive(a, r), state |-> "pending"]]
  /\ UNCHANGED <<acctVars, loginVars, invite, sess, tx, link, req, em>>

\* expires_at passes.
ChangeLapses(c) ==
  /\ chg[c].state = "pending"
  /\ chg' = [chg EXCEPT ![c].state = "lapsed"]
  /\ UNCHANGED <<acctVars, loginVars, invite, sess, tx, link, req, em>>

\* The handlers that meet a lapsed request mark it expired.
ExpireChange(c) ==
  /\ chg[c].state = "lapsed" /\ tx[c].phase = "none"
  /\ chg' = [chg EXCEPT ![c].state = "expired"]
  /\ UNCHANGED <<acctVars, loginVars, invite, sess, tx, link, req, em>>

\* cancel_operator_role_change_request.
CancelChange(b, c) ==
  /\ b \in req /\ chg[c].state = "pending" /\ tx[c].phase = "none"
  /\ chg' = [chg EXCEPT ![c].state = "cancelled"]
  /\ UNCHANGED <<acctVars, loginVars, invite, sess, tx, link, req, em>>

\* complete_operator_role_change_request up to its UPDATE: request and target
\* are locked, the handler's checks pass.
BeginComplete(b, c) ==
  LET a == chg[c].target IN
  /\ b \in req /\ tx[c].phase = "none" /\ chg[c].state = "pending"
  /\ a # b /\ RowFree(a)
  /\ life[a] = "active" /\ a \notin Protected /\ role[a] # chg[c].role
  /\ chg[c].role = "owner" => chg[c].verified /\ HasBoth(a)
  /\ tx' = [tx EXCEPT ![c] = [by |-> b, phase |-> "locked"]]
  /\ UNCHANGED <<acctVars, loginVars, invite, sess, chg, link, req, em>>

\* The apply trigger's and the last-Owner trigger's reading of other rows, as
\* committed at that moment.
TriggersPass(c) ==
  /\ IsOwner(tx[c].by)
  /\ role[chg[c].target] = "owner" =>
       \E o \in Accounts \ {chg[c].target} : IsOwner(o)

FaultApplyComplete(c) ==
  /\ tx[c].phase = "locked" /\ TriggersPass(c)
  /\ tx' = [tx EXCEPT ![c].phase = "applied"]
  /\ UNCHANGED <<acctVars, loginVars, invite, sess, chg, link, req, em>>

\* The UPDATE of the request: the foreign key waits until no other completion
\* has the completer's row FOR UPDATE and keeps it shared; then the triggers
\* read, and the role is written, uncommitted.
ApplyComplete(c) ==
  /\ tx[c].phase = "locked"
  /\ \A d \in Changes \ {c} : tx[d].phase # "none" => chg[d].target # tx[c].by
  /\ TriggersPass(c)
  /\ tx' = [tx EXCEPT ![c].phase = "applied"]
  /\ UNCHANGED <<acctVars, loginVars, invite, sess, chg, link, req, em>>

\* The sessions of the target end in the same transaction.
CommitComplete(c) ==
  /\ tx[c].phase = "applied"
  /\ role' = [role EXCEPT ![chg[c].target] = chg[c].role]
  /\ chg' = [chg EXCEPT ![c].state = "completed"]
  /\ sess' = SessionsEnded(chg[c].target)
  /\ tx' = [tx EXCEPT ![c] = NoTx]
  /\ UNCHANGED <<life, pwd, totp, loginVars, invite, link, req, em>>

\* Rollback: a trigger raised, the database broke a deadlock, the worker died.
AbortComplete(c) ==
  /\ tx[c].phase # "none"
  /\ tx' = [tx EXCEPT ![c] = NoTx]
  /\ UNCHANGED <<acctVars, loginVars, invite, sess, chg, link, req, em>>

-----------------------------------------------------------------------------
(* Access resets and emergency recovery                                     *)

\* create_reset: an Owner's reset takes the old credentials away at once.
CreateReset(b, a, l, m) ==
  /\ b \in req /\ a # b /\ RowFree(a) /\ Exists(a) /\ Reauthenticates(b)
  /\ link[l].state = "unused"
  /\ link' = [LinksRevoked(a) EXCEPT ![l] = [of |-> a, mode |-> m, state |-> "open"]]
  /\ pwd'  = [pwd EXCEPT ![a] = IF SetsPassword(m) THEN None ELSE @]
  /\ totp' = [totp EXCEPT ![a] = IF SetsTotp(m) THEN None ELSE @]
  /\ fails' = [fails EXCEPT ![a] = 0]
  /\ locked' = [locked EXCEPT ![a] = FALSE]
  /\ sess' = SessionsEnded(a)
  /\ UNCHANGED <<life, role, invite, chg, tx, req, em>>

FaultSelfReset(a, l, m) ==
  /\ RowFree(a) /\ life[a] = "active" /\ HasBoth(a) /\ link[l].state = "unused"
  /\ link' = [link EXCEPT ![l] = [of |-> a, mode |-> m, state |-> "open"]]
  /\ UNCHANGED <<acctVars, loginVars, invite, sess, chg, tx, req, em>>

\* create_self_reset: the operator gives password and code again; nothing
\* changes until the link is used.  The session is not looked at again.
SelfReset(a, l, m) ==
  /\ RowFree(a) /\ life[a] = "active" /\ HasBoth(a) /\ link[l].state = "unused"
  /\ link' = [LinksRevoked(a) EXCEPT ![l] = [of |-> a, mode |-> m, state |-> "open"]]
  /\ UNCHANGED <<acctVars, loginVars, invite, sess, chg, tx, req, em>>

FaultAcceptReset(l) ==
  LET a == link[l].of
      m == link[l].mode IN
  /\ link[l].state = "open" /\ Exists(a) /\ RowFree(a)
  /\ SetsTotp(m) \/ totp[a] # None
  /\ pwd'  = [pwd EXCEPT ![a] = IF SetsPassword(m) THEN l ELSE @]
  /\ totp' = [totp EXCEPT ![a] = IF SetsTotp(m) THEN l ELSE @]
  /\ fails' = [fails EXCEPT ![a] = 0]
  /\ locked' = [locked EXCEPT ![a] = FALSE]
  /\ link' = [link EXCEPT ![l].state = "used"]
  /\ UNCHANGED <<life, role, invite, sess, chg, tx, req, em>>

\* operator_access_reset_accept.  The new authenticator secret is derived from
\* the link; a link for the password alone asks for the old authenticator.
AcceptReset(l) ==
  LET a == link[l].of
      m == link[l].mode IN
  /\ link[l].state = "open" /\ Exists(a) /\ RowFree(a)
  /\ SetsTotp(m) \/ totp[a] # None
  /\ pwd'  = [pwd EXCEPT ![a] = IF SetsPassword(m) THEN l ELSE @]
  /\ totp' = [totp EXCEPT ![a] = IF SetsTotp(m) THEN l ELSE @]
  /\ fails' = [fails EXCEPT ![a] = 0]
  /\ locked' = [locked EXCEPT ![a] = FALSE]
  /\ link' = [link EXCEPT ![l].state = "used"]
  /\ sess' = SessionsEnded(a)
  /\ UNCHANGED <<life, role, invite, chg, tx, req, em>>

LinkLapses(l) ==
  /\ link[l].state = "open"
  /\ link' = [link EXCEPT ![l].state = "expired"]
  /\ UNCHANGED <<acctVars, loginVars, invite, sess, chg, tx, req, em>>

\* rustdesk-owner-emergency-recovery counts the Owner rows and, if there is
\* one, asks its questions about that account...
EmergencyPick(a) ==
  /\ em = None /\ {o \in Accounts : role[o] = "owner"} = {a}
  /\ em' = a
  /\ UNCHANGED <<acctVars, loginVars, invite, sess, chg, tx, link, req>>

\* ... and later updates the row if it is still an Owner's.
EmergencyApply ==
  LET a == em
      still == em # None /\ role[em] = "owner" IN
  /\ a # None /\ \A c \in Changes : tx[c].phase # "none" => chg[c].target # a
  /\ life'   = IF still THEN [life EXCEPT ![a] = "active"] ELSE life
  /\ pwd'    = IF still THEN [pwd EXCEPT ![a] = "emergency"] ELSE pwd
  /\ totp'   = IF still THEN [totp EXCEPT ![a] = "emergency"] ELSE totp
  /\ fails'  = IF still THEN [fails EXCEPT ![a] = 0] ELSE fails
  /\ locked' = IF still THEN [locked EXCEPT ![a] = FALSE] ELSE locked
  /\ sess' = SessionsEnded(a)
  /\ em' = None
  /\ UNCHANGED <<role, invite, chg, tx, link, req>>

-----------------------------------------------------------------------------
SessionStep ==
  \/ \E a \in Accounts : FailLogin(a) \/ LockLapses(a)
  \/ \E a \in Accounts, s \in Sessions, scope \in Scopes : Login(a, s, scope)
  \/ \E s \in Sessions : \/ SessionAges(s) \/ SessionIdles(s) \/ SessionExpires(s)
                         \/ Refresh(s) \/ Logout(s) \/ RequireOwner(s)
  \/ \E S \in SUBSET Sessions : RevokeIdle(S) \/ \E b \in req : SetIdleTimeout(b, S)
  \/ \E b \in req : RequestEnds(b)

AccountStep ==
  \/ \E b \in req, a \in Accounts :
       \/ Disable(b, a) \/ Enable(b, a) \/ Delete(b, a)
       \/ Unlock(b, a) \/ RevokeSessions(b, a)
       \/ \E r \in Roles : Invite(b, a, r)
  \/ \E a \in Accounts : Uninvite(a) \/ AcceptInvitation(a)

ChangeStep ==
  \/ \E b \in req, a \in Accounts, r \in Roles, c \in Changes : RequestChange(b, a, r, c)
  \/ \E b \in req, c \in Changes : CancelChange(b, c) \/ BeginComplete(b, c)
  \/ \E c \in Changes : \/ ChangeLapses(c) \/ ExpireChange(c)
                        \/ ApplyComplete(c) \/ CommitComplete(c) \/ AbortComplete(c)

ResetStep ==
  \/ \E b \in req, a \in Accounts, l \in Links, m \in Modes : CreateReset(b, a, l, m)
  \/ \E a \in Accounts, l \in Links, m \in Modes : SelfReset(a, l, m)
  \/ \E l \in Links : AcceptReset(l) \/ LinkLapses(l)
  \/ \E a \in Accounts : EmergencyPick(a)
  \/ EmergencyApply

Next == SessionStep \/ AccountStep \/ ChangeStep \/ ResetStep

Spec == Init /\ [][Next]_vars

-----------------------------------------------------------------------------
(* Properties                                                               *)

\* "At least one active Owner must remain", for Owners who demote each other
\* at the same time: the trigger reads rows it does not hold.
OwnerRemains == \E a \in Accounts : IsOwner(a)

\* An account becomes or ceases to be an Owner only by a request made with an
\* Owner's password and code.  complete_operator_role_change_request does not
\* ask for them when it takes the role away: that no unverified request is
\* pending for an account that has become an Owner since rests on the index.
OwnerChangesVerified ==
  [][\A a \in Accounts :
       role'[a] # role[a] /\ "owner" \in {role[a], role'[a]} =>
         \E c \in Changes : /\ tx[c].phase = "applied" /\ chg[c].verified
                            /\ chg[c].target = a /\ chg[c].role = role'[a]]_vars

\* A session that is not revoked belongs to an active account and was opened
\* with the password, the authenticator and the role the account has now:
\* whatever replaces one of them, or disables the account, ends the sessions.
SessionsCurrent ==
  \A s \in Sessions : Unrevoked(s) =>
    LET a == sess[s].of IN
    /\ life[a] = "active" /\ role[a] = sess[s].role
    /\ pwd[a] = sess[s].pwd /\ totp[a] = sess[s].totp

\* A session that is expired, revoked or of a disabled account never counts
\* again, whatever is refreshed or enabled; one that is merely idle counts again
\* only when the protected account raises the idle timeout, which every check
\* reads afresh.  Scope and account are the ones it was opened with.
NoRevival ==
  [][\A s \in Sessions : sess[s].state # "unused" =>
       /\ Usable(s)' => \/ Usable(s)
                        \/ /\ sess[s].state = "idle" /\ life[sess[s].of] = "active"
                           /\ \E b \in req, S \in SUBSET Sessions : s \in S /\ SetIdleTimeout(b, S)
       /\ sess'[s].scope = sess[s].scope /\ sess'[s].of = sess[s].of]_vars

\* A deleted account stays deleted and keeps nothing that could act for it:
\* no session, no recovery link, no role change waiting to be completed.
DeletedIsInert ==
  \A a \in Accounts : life[a] = "deleted" =>
    /\ \A s \in Sessions : sess[s].of = a => ~Unrevoked(s)
    /\ \A l \in Links : link[l].of = a => link[l].state \notin {"open", "expired"}
    /\ \A c \in Changes : chg[c].target = a =>
         chg[c].state \notin {"pending", "lapsed"} /\ tx[c].phase = "none"

\* A newer reset of an account, by whomever, makes the older link useless.
OneOpenLink ==
  \A k, l \in Links :
    link[k].state = "open" /\ link[l].state = "open" /\ link[k].of = link[l].of => k = l

\* "That account must finish the reset's one-time /ops/recover link, which
\* enrolls the new authenticator": the open link of an account without an
\* authenticator does enroll one.
LinkEnrolls ==
  \A l \in Links :
    link[l].state = "open" /\ totp[link[l].of] = None => SetsTotp(link[l].mode)

\* "Use normal Owner-to-Owner access recovery when multiple Owners exist": one
\* of several Owners has a password and an authenticator to do so, or at least
\* a recovery link that is still good.
OwnerToOwnerRecovery ==
  LET owners == {a \in Accounts : IsOwner(a)} IN
  Cardinality(owners) > 1 =>
    \/ \E a \in owners : HasBoth(a)
    \/ \E l \in Links : link[l].state = "open" /\ link[l].of \in owners

=============================================================================
