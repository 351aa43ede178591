----------------------- MODULE OperatorAccountsProofs -----------------------
(***************************************************************************)
(* What holds of OperatorAccounts for any accounts, any number of          *)
(* sessions, role changes and recovery links, and any lockout limit.       *)
(***************************************************************************)
EXTENDS OperatorAccounts, TLAPS

USE DEF vars, loginVars, acctVars

-----------------------------------------------------------------------------
(* Types                                                                    *)

LEMMA TypeInit == Init => TypeOK
BY AccountsAssumption, SecretsAssumption, FailuresAssumption
DEF Init, TypeOK, Roles, Secrets, NoTx

\* Revoking a set of sessions, or all of an account's, leaves rows.
LEMMA SessionsEndedType ==
  ASSUME sess \in [Sessions -> SessionRows \cup {NoSession}], NEW a
  PROVE  SessionsEnded(a) \in [Sessions -> SessionRows \cup {NoSession}]
<1>1. ASSUME NEW s \in Sessions, Unrevoked(s)
      PROVE  [sess[s] EXCEPT !.state = "revoked"] \in SessionRows
  BY <1>1 DEF SessionRows, NoSession, Unrevoked
<1> QED BY <1>1 DEF SessionsEnded

LEMMA SessionStateType ==
  ASSUME sess \in [Sessions -> SessionRows \cup {NoSession}], NEW s \in Sessions,
         Unrevoked(s), NEW x \in {"open", "aging", "idle", "expired", "revoked"},
         sess' = [sess EXCEPT ![s].state = x]
  PROVE  sess' \in [Sessions -> SessionRows \cup {NoSession}]
<1>1. [sess[s] EXCEPT !.state = x] \in SessionRows
  BY DEF SessionRows, NoSession, Unrevoked
<1> QED BY <1>1

LEMMA ChangeStateType ==
  ASSUME chg \in [Changes -> ChangeRows \cup {NoChange}], NEW c \in Changes,
         chg[c].state # "unused",
         NEW x \in {"pending", "lapsed", "completed", "cancelled", "expired"},
         chg' = [chg EXCEPT ![c].state = x]
  PROVE  chg' \in [Changes -> ChangeRows \cup {NoChange}]
<1>1. [chg[c] EXCEPT !.state = x] \in ChangeRows
  BY DEF ChangeRows, NoChange
<1> QED BY <1>1

LEMMA LinksRevokedType ==
  ASSUME link \in [Links -> LinkRows \cup {NoLink}], NEW a
  PROVE  LinksRevoked(a) \in [Links -> LinkRows \cup {NoLink}]
<1>1. ASSUME NEW l \in Links, link[l].state \in {"open", "expired"}
      PROVE  [link[l] EXCEPT !.state = "revoked"] \in LinkRows
  BY <1>1 DEF LinkRows, NoLink
<1> QED BY <1>1 DEF LinksRevoked

\* Issuing a link for an account and using one keep the table of links.
LEMMA LinkIssuedType ==
  ASSUME link \in [Links -> LinkRows \cup {NoLink}], NEW a \in Accounts, NEW l \in Links,
         NEW m \in Modes,
         link' = [LinksRevoked(a) EXCEPT ![l] = [of |-> a, mode |-> m, state |-> "open"]]
  PROVE  link' \in [Links -> LinkRows \cup {NoLink}]
<1>1. [of |-> a, mode |-> m, state |-> "open"] \in LinkRows
  BY DEF LinkRows
<1> QED BY <1>1, LinksRevokedType

LEMMA LinkStateType ==
  ASSUME link \in [Links -> LinkRows \cup {NoLink}], NEW l \in Links,
         link[l].state = "open", NEW x \in {"used", "expired"},
         link' = [link EXCEPT ![l].state = x]
  PROVE  link' \in [Links -> LinkRows \cup {NoLink}] /\ link[l].of \in Accounts
<1>1. [link[l] EXCEPT !.state = x] \in LinkRows /\ link[l].of \in Accounts
  BY DEF LinkRows, NoLink
<1> QED BY <1>1

LEMMA FailLoginType ==
  ASSUME fails \in [Accounts -> 0 .. MaxLoginFailures], locked \in [Accounts -> BOOLEAN],
         \A x \in Accounts : locked[x] => fails[x] = MaxLoginFailures,
         NEW a \in Accounts, FailLogin(a)
  PROVE  /\ fails' \in [Accounts -> 0 .. MaxLoginFailures]
         /\ locked' \in [Accounts -> BOOLEAN]
         /\ \A x \in Accounts : locked'[x] => fails'[x] = MaxLoginFailures
<1>1. fails[a] < MaxLoginFailures => fails[a] + 1 \in 0 .. MaxLoginFailures
  BY FailuresAssumption
<1>2. /\ fails' \in [Accounts -> 0 .. MaxLoginFailures]
      /\ locked' \in [Accounts -> BOOLEAN]
  BY <1>1 DEF FailLogin
<1>3. locked'[a] => fails'[a] = MaxLoginFailures
  BY FailuresAssumption DEF FailLogin
<1>4. \A x \in Accounts \ {a} : locked'[x] = locked[x] /\ fails'[x] = fails[x]
  BY DEF FailLogin
<1> QED BY <1>2, <1>3, <1>4

LEMMA TypeSession == ASSUME TypeOK, SessionStep PROVE TypeOK'
<1> USE DEF TypeOK
<1>1. ASSUME NEW a \in Accounts, FailLogin(a) PROVE TypeOK'
  BY <1>1, FailLoginType DEF FailLogin
<1>2. ASSUME NEW a \in Accounts, LockLapses(a) PROVE TypeOK'
  BY <1>2 DEF LockLapses
<1>3. ASSUME NEW a \in Accounts, NEW s \in Sessions, NEW scope \in Scopes, Login(a, s, scope)
      PROVE  TypeOK'
  <2>1. [of |-> a, scope |-> scope, role |-> role[a], pwd |-> pwd[a], totp |-> totp[a],
         state |-> "open"] \in SessionRows
    BY <1>3 DEF Login, HasBoth, SessionRows
  <2>2. sess' \in [Sessions -> SessionRows \cup {NoSession}]
    BY <1>3, <2>1 DEF Login
  <2> QED BY <1>3, <2>2, FailuresAssumption DEF Login
<1>4. ASSUME NEW s \in Sessions,
             \/ SessionAges(s) \/ SessionIdles(s) \/ SessionExpires(s)
             \/ Refresh(s) \/ Logout(s) \/ RequireOwner(s)
      PROVE  TypeOK'
  <2>1. Unrevoked(s)
    BY <1>4 DEF SessionAges, SessionIdles, SessionExpires, Refresh, Logout, RequireOwner, Usable, Unrevoked
  <2>2. sess' \in [Sessions -> SessionRows \cup {NoSession}]
    BY <1>4, <2>1, SessionStateType
    DEF SessionAges, SessionIdles, SessionExpires, Refresh, Logout, RequireOwner
  <2>3. sess[s].of \in Accounts
    BY <2>1 DEF Unrevoked, SessionRows, NoSession
  <2> QED BY <1>4, <2>2, <2>3 DEF SessionAges, SessionIdles, SessionExpires, Refresh, Logout, RequireOwner
<1>5. ASSUME NEW S \in SUBSET Sessions, RevokeIdle(S) PROVE TypeOK'
  <2>1. \A s \in S : [sess[s] EXCEPT !.state = "revoked"] \in SessionRows
    BY <1>5 DEF RevokeIdle, SessionRows, NoSession
  <2> QED BY <1>5, <2>1 DEF RevokeIdle
<1>7. ASSUME NEW S \in SUBSET Sessions, NEW b \in req, SetIdleTimeout(b, S) PROVE TypeOK'
  <2>1. \A s \in S : [sess[s] EXCEPT !.state = "aging"] \in SessionRows
    BY <1>7 DEF SetIdleTimeout, SessionRows, NoSession
  <2> QED BY <1>7, <2>1 DEF SetIdleTimeout
<1>6. ASSUME NEW b \in req, RequestEnds(b) PROVE TypeOK'
  BY <1>6 DEF RequestEnds
<1> QED BY <1>1, <1>2, <1>3, <1>4, <1>5, <1>6, <1>7 DEF SessionStep

LEMMA TypeAccount == ASSUME TypeOK, AccountStep PROVE TypeOK'
<1> USE SecretsAssumption DEF TypeOK
<1>1. ASSUME NEW b \in req, NEW a \in Accounts, Disable(b, a) PROVE TypeOK'
  BY <1>1, SessionsEndedType DEF Disable, Manageable, Exists, RowFree
<1>2. ASSUME NEW b \in req, NEW a \in Accounts, Enable(b, a) PROVE TypeOK'
  BY <1>2 DEF Enable, Manageable, Exists
<1>3. ASSUME NEW b \in req, NEW a \in Accounts, Delete(b, a) PROVE TypeOK'
  <2>1. \A c \in Changes : chg[c].state \in {"pending", "lapsed"} =>
          [chg[c] EXCEPT !.state = "cancelled"] \in ChangeRows
    BY DEF ChangeRows, NoChange
  <2>2. chg' \in [Changes -> ChangeRows \cup {NoChange}]
    BY <1>3, <2>1 DEF Delete
  <2>3. \A c \in Changes : tx'[c].phase # "none" =>
          chg'[c].state \in {"pending", "lapsed"} /\ life'[chg'[c].target] = "active"
    <3>1. \A c \in Changes : tx[c].phase # "none" =>
            chg[c].target # a /\ chg[c].target \in Accounts
      BY <1>3 DEF Delete, Manageable, RowFree, ChangeRows, NoChange
    <3> QED BY <1>3, <3>1 DEF Delete
  <2> QED BY <1>3, <2>2, <2>3, SessionsEndedType, LinksRevokedType DEF Delete, Manageable, Exists
<1>4. ASSUME NEW b \in req, NEW a \in Accounts, Unlock(b, a) PROVE TypeOK'
  BY <1>4, FailuresAssumption DEF Unlock
<1>5. ASSUME NEW b \in req, NEW a \in Accounts, RevokeSessions(b, a) PROVE TypeOK'
  BY <1>5, SessionsEndedType DEF RevokeSessions
<1>6. ASSUME NEW b \in req, NEW a \in Accounts, NEW r \in Roles, Invite(b, a, r) PROVE TypeOK'
  BY <1>6 DEF Invite
<1>7. ASSUME NEW a \in Accounts, Uninvite(a) PROVE TypeOK'
  BY <1>7 DEF Uninvite
<1>8. ASSUME NEW a \in Accounts, AcceptInvitation(a) PROVE TypeOK'
  BY <1>8 DEF AcceptInvitation, Roles, Secrets
<1> QED BY <1>1, <1>2, <1>3, <1>4, <1>5, <1>6, <1>7, <1>8 DEF AccountStep

LEMMA TypeChange == ASSUME TypeOK, ChangeStep PROVE TypeOK'
<1> USE DEF TypeOK
<1>1. ASSUME NEW b \in req, NEW a \in Accounts, NEW r \in Roles, NEW c \in Changes,
             RequestChange(b, a, r, c)
      PROVE  TypeOK'
  <2>1. \A d \in Changes : chg[d].state = "lapsed" =>
          [chg[d] EXCEPT !.state = "expired"] \in ChangeRows
    BY DEF ChangeRows, NoChange
  <2>2. LapsedExpired \in [Changes -> ChangeRows \cup {NoChange}]
    BY <2>1 DEF LapsedExpired
  <2>3. [target |-> a, role |-> r, verified |-> Sensitive(a, r), state |-> "pending"] \in ChangeRows
    BY DEF ChangeRows, Sensitive
  <2>4. chg' \in [Changes -> ChangeRows \cup {NoChange}]
    BY <1>1, <2>2, <2>3 DEF RequestChange
  <2>5. \A d \in Changes : tx[d].phase # "none" => chg'[d] = chg[d]
    BY <1>1 DEF RequestChange, LapsedExpired
  <2> QED BY <1>1, <2>4, <2>5 DEF RequestChange
<1>2. ASSUME NEW b \in req, NEW c \in Changes, CancelChange(b, c) PROVE TypeOK'
  BY <1>2, ChangeStateType DEF CancelChange
<1>3. ASSUME NEW b \in req, NEW c \in Changes, BeginComplete(b, c) PROVE TypeOK'
  BY <1>3 DEF BeginComplete
<1>4. ASSUME NEW c \in Changes, ChangeLapses(c) PROVE TypeOK'
  <2>1. chg' \in [Changes -> ChangeRows \cup {NoChange}]
    BY <1>4, ChangeStateType DEF ChangeLapses
  <2>2. \A d \in Changes : /\ chg'[d].target = chg[d].target
                           /\ chg'[d].state = chg[d].state \/ chg'[d].state = "lapsed"
    BY <1>4 DEF ChangeLapses, ChangeRows, NoChange
  <2> QED BY <1>4, <2>1, <2>2 DEF ChangeLapses
<1>5. ASSUME NEW c \in Changes, ExpireChange(c) PROVE TypeOK'
  BY <1>5, ChangeStateType DEF ExpireChange
<1>6. ASSUME NEW c \in Changes, ApplyComplete(c) PROVE TypeOK'
  <2>1. [tx[c] EXCEPT !.phase = "applied"] \in [by : Accounts, phase : {"locked", "applied"}]
    BY <1>6 DEF ApplyComplete, NoTx
  <2> QED BY <1>6, <2>1 DEF ApplyComplete
<1>7. ASSUME NEW c \in Changes, CommitComplete(c) PROVE TypeOK'
  <2>1. chg[c] \in ChangeRows /\ chg[c].state # "unused"
    BY <1>7 DEF CommitComplete, NoChange
  <2>2. chg[c].target \in Accounts /\ chg[c].role \in Roles
    BY <2>1 DEF ChangeRows
  <2>3. chg' \in [Changes -> ChangeRows \cup {NoChange}]
    BY <1>7, <2>1, ChangeStateType DEF CommitComplete
  <2>4. life[chg[c].target] # "none"
    BY <1>7 DEF CommitComplete
  <2> QED BY <1>7, <2>2, <2>3, <2>4, SessionsEndedType DEF CommitComplete, NoTx
<1>8. ASSUME NEW c \in Changes, AbortComplete(c) PROVE TypeOK'
  BY <1>8 DEF AbortComplete, NoTx
<1> QED BY <1>1, <1>2, <1>3, <1>4, <1>5, <1>6, <1>7, <1>8 DEF ChangeStep

LEMMA TypeReset == ASSUME TypeOK, ResetStep PROVE TypeOK'
<1> USE FailuresAssumption DEF TypeOK, Secrets
<1>1. ASSUME NEW b \in req, NEW a \in Accounts, NEW l \in Links, NEW m \in Modes,
             CreateReset(b, a, l, m)
      PROVE  TypeOK'
  <2>1. link' \in [Links -> LinkRows \cup {NoLink}]
    BY <1>1, LinkIssuedType DEF CreateReset
  <2>2. sess' \in [Sessions -> SessionRows \cup {NoSession}]
    BY <1>1, SessionsEndedType DEF CreateReset
  <2>3. /\ pwd' \in [Accounts -> Secrets \cup {None}]
        /\ totp' \in [Accounts -> Secrets \cup {None}]
    BY <1>1 DEF CreateReset
  <2> QED BY <1>1, <2>1, <2>2, <2>3 DEF CreateReset
<1>2. ASSUME NEW a \in Accounts, NEW l \in Links, NEW m \in Modes, SelfReset(a, l, m)
      PROVE  TypeOK'
  BY <1>2, LinkIssuedType DEF SelfReset
<1>3. ASSUME NEW l \in Links, AcceptReset(l) PROVE TypeOK'
  <2>1. link' \in [Links -> LinkRows \cup {NoLink}] /\ link[l].of \in Accounts
    BY <1>3, LinkStateType DEF AcceptReset
  <2>2. sess' \in [Sessions -> SessionRows \cup {NoSession}]
    BY <1>3, SessionsEndedType DEF AcceptReset
  <2>3. /\ pwd' \in [Accounts -> Secrets \cup {None}]
        /\ totp' \in [Accounts -> Secrets \cup {None}]
    BY <1>3 DEF AcceptReset
  <2> QED BY <1>3, <2>1, <2>2, <2>3 DEF AcceptReset
<1>4. ASSUME NEW l \in Links, LinkLapses(l) PROVE TypeOK'
  BY <1>4, LinkStateType DEF LinkLapses
<1>5. ASSUME NEW a \in Accounts, EmergencyPick(a) PROVE TypeOK'
  BY <1>5 DEF EmergencyPick
<1>6. CASE EmergencyApply
  BY <1>6, SessionsEndedType DEF EmergencyApply, Roles
<1> QED BY <1>1, <1>2, <1>3, <1>4, <1>5, <1>6 DEF ResetStep

\* For every instance the tables keep their form; in particular an account is
\* locked only at the limit of failures, and a completion in progress works on
\* a request that nobody has completed, cancelled or expired meanwhile.
THEOREM AccountTypes == Spec => []TypeOK
<1>1. ASSUME TypeOK, [Next]_vars PROVE TypeOK'
  <2>1. CASE UNCHANGED vars BY <1>1, <2>1 DEF TypeOK
  <2> QED BY <1>1, <2>1, TypeSession, TypeAccount, TypeChange, TypeReset DEF Next
<1> QED BY TypeInit, <1>1, PTL DEF Spec

-----------------------------------------------------------------------------
(* Owners and role changes                                                  *)

\* The steps that touch accounts, roles, role changes or completions.
LEMMA RoleSteps ==
  ASSUME [Next]_vars
  PROVE  \/ UNCHANGED <<life, role, chg, tx>>
         \/ \E b \in req, a \in Accounts : Disable(b, a) \/ Enable(b, a) \/ Delete(b, a)
         \/ \E a \in Accounts : AcceptInvitation(a)
         \/ \E b \in req, a \in Accounts, r \in Roles, c \in Changes : RequestChange(b, a, r, c)
         \/ \E b \in req, c \in Changes : CancelChange(b, c) \/ BeginComplete(b, c)
         \/ \E c \in Changes : \/ ChangeLapses(c) \/ ExpireChange(c)
                               \/ ApplyComplete(c) \/ CommitComplete(c) \/ AbortComplete(c)
         \/ EmergencyApply
<1>1. SessionStep => UNCHANGED <<life, role, chg, tx>>
  BY DEF SessionStep, FailLogin, LockLapses, Login, SessionAges, SessionIdles, SessionExpires, Refresh, Logout,
         RequireOwner, RevokeIdle, SetIdleTimeout, RequestEnds
<1>2. ASSUME NEW b \in req, NEW a \in Accounts,
             Unlock(b, a) \/ RevokeSessions(b, a) \/ (\E r \in Roles : Invite(b, a, r))
      PROVE  UNCHANGED <<life, role, chg, tx>>
  BY <1>2 DEF Unlock, RevokeSessions, Invite
<1>3. ASSUME NEW a \in Accounts, Uninvite(a) \/ EmergencyPick(a)
      PROVE  UNCHANGED <<life, role, chg, tx>>
  BY <1>3 DEF Uninvite, EmergencyPick
<1>4. (\E b \in req, a \in Accounts, l \in Links, m \in Modes : CreateReset(b, a, l, m))
        => UNCHANGED <<life, role, chg, tx>>
  BY DEF CreateReset
<1>5. (\E a \in Accounts, l \in Links, m \in Modes : SelfReset(a, l, m))
        => UNCHANGED <<life, role, chg, tx>>
  BY DEF SelfReset
<1>6. ASSUME NEW l \in Links, AcceptReset(l) \/ LinkLapses(l)
      PROVE  UNCHANGED <<life, role, chg, tx>>
  BY <1>6 DEF AcceptReset, LinkLapses
<1> QED BY <1>1, <1>2, <1>3, <1>4, <1>5, <1>6 DEF Next, AccountStep, ChangeStep, ResetStep

\* Completions in progress: nobody completes a change of his own role; the
\* completer of an applied one is an Owner whose row nobody else is changing.
LocksSound ==
  \A c \in Changes :
    /\ tx[c].phase # "none" => tx[c].by # chg[c].target
    /\ tx[c].phase = "applied" =>
         /\ IsOwner(tx[c].by)
         /\ \A d \in Changes : tx[d].phase # "none" => chg[d].target # tx[c].by

OpenChange(c) == chg[c].state \in {"pending", "lapsed"}

\* At most one request per target is open, and an unverified one is about an
\* account that is not, and will not become, an Owner.
ChangesSound ==
  \A c \in Changes : OpenChange(c) =>
    /\ \A d \in Changes : OpenChange(d) /\ chg[d].target = chg[c].target => c = d
    /\ ~chg[c].verified => chg[c].role # "owner" /\ role[chg[c].target] # "owner"

\* Locked rows and open requests are rows of the tables.
LEMMA OpenRows ==
  ASSUME TypeOK, NEW c \in Changes
  PROVE  /\ OpenChange(c) => chg[c] \in ChangeRows
         /\ tx[c].phase # "none" => OpenChange(c) /\ tx[c].by \in Accounts
                                     /\ chg[c].target \in Accounts
                                     /\ tx[c].phase \in {"locked", "applied"}
<1>1. OpenChange(c) => chg[c] \in ChangeRows
  BY DEF TypeOK, OpenChange, NoChange
<1>2. tx[c].phase # "none" => OpenChange(c)
  BY DEF TypeOK, OpenChange
<1>3. tx[c].phase # "none" => tx[c].by \in Accounts /\ tx[c].phase \in {"locked", "applied"}
  BY DEF TypeOK, NoTx
<1> QED BY <1>1, <1>2, <1>3 DEF ChangeRows

LEMMA LocksStep == ASSUME TypeOK, LocksSound, [Next]_vars PROVE LocksSound'
<1> USE DEF LocksSound
<1>1. CASE UNCHANGED <<life, role, chg, tx>>
  BY <1>1 DEF IsOwner
<1>2. ASSUME NEW b \in req, NEW a \in Accounts, Disable(b, a) \/ Enable(b, a) \/ Delete(b, a)
      PROVE  LocksSound'
  <2>1. UNCHANGED <<role, tx>> /\ \A o \in Accounts \ {a} : life'[o] = life[o]
    BY <1>2 DEF Disable, Enable, Delete, TypeOK
  <2>2. \A c \in Changes : chg'[c].target = chg[c].target
    BY <1>2 DEF Disable, Enable, Delete, TypeOK, ChangeRows, NoChange
  <2>3. \A c \in Changes : tx[c].phase = "applied" => tx[c].by # a
    BY <1>2 DEF Disable, Enable, Delete, Manageable, RowFree
  <2> QED BY <2>1, <2>2, <2>3, OpenRows DEF IsOwner
<1>3. ASSUME NEW a \in Accounts, AcceptInvitation(a) PROVE LocksSound'
  <2>1. \A o \in Accounts : IsOwner(o) => IsOwner(o)'
    BY <1>3 DEF AcceptInvitation, IsOwner, TypeOK
  <2> QED BY <1>3, <2>1, OpenRows DEF AcceptInvitation
<1>4. ASSUME NEW b \in req, NEW a \in Accounts, NEW r \in Roles, NEW c \in Changes,
             RequestChange(b, a, r, c)
      PROVE  LocksSound'
  <2>1. \A d \in Changes : tx[d].phase # "none" => chg'[d] = chg[d]
    BY <1>4, OpenRows DEF RequestChange, LapsedExpired, TypeOK, OpenChange
  <2> QED BY <1>4, <2>1 DEF RequestChange, IsOwner
<1>5. ASSUME NEW c \in Changes,
             ChangeLapses(c) \/ ExpireChange(c) \/ (\E b \in req : CancelChange(b, c))
      PROVE  LocksSound'
  <2>1. UNCHANGED <<life, role, tx>> /\ \A d \in Changes : chg'[d].target = chg[d].target
    BY <1>5 DEF ChangeLapses, ExpireChange, CancelChange, TypeOK, ChangeRows, NoChange
  <2> QED BY <2>1 DEF IsOwner
<1>6. ASSUME NEW b \in req, NEW c \in Changes, BeginComplete(b, c) PROVE LocksSound'
  <2>1. /\ UNCHANGED <<life, role, chg>>
        /\ tx'[c] = [by |-> b, phase |-> "locked"]
        /\ \A d \in Changes \ {c} : tx'[d] = tx[d]
    BY <1>6 DEF BeginComplete, TypeOK
  <2>2. b # chg[c].target /\ RowFree(chg[c].target)
    BY <1>6 DEF BeginComplete
  <2> QED BY <2>1, <2>2 DEF IsOwner, RowFree
<1>7. ASSUME NEW c \in Changes, ApplyComplete(c) PROVE LocksSound'
  <2>1. /\ UNCHANGED <<life, role, chg>>
        /\ tx'[c].by = tx[c].by /\ tx[c].phase = "locked"
        /\ \A d \in Changes \ {c} : tx'[d] = tx[d]
    BY <1>7 DEF ApplyComplete, TypeOK, NoTx
  <2>2. IsOwner(tx[c].by)
    BY <1>7 DEF ApplyComplete, TriggersPass
  <2>3. \A d \in Changes : tx[d].phase # "none" => chg[d].target # tx[c].by
    BY <1>7, <2>1 DEF ApplyComplete
  <2> QED BY <2>1, <2>2, <2>3 DEF IsOwner
<1>8. ASSUME NEW c \in Changes, CommitComplete(c) PROVE LocksSound'
  <2>1. /\ UNCHANGED life
        /\ \A o \in Accounts \ {chg[c].target} : role'[o] = role[o]
        /\ tx'[c] = NoTx /\ tx[c].phase = "applied"
        /\ \A d \in Changes \ {c} : tx'[d] = tx[d] /\ chg'[d] = chg[d]
    BY <1>8 DEF CommitComplete, TypeOK
  <2>2. \A d \in Changes \ {c} : tx[d].phase = "applied" => IsOwner(tx[d].by)'
    BY <2>1, OpenRows DEF IsOwner
  <2> QED BY <2>1, <2>2 DEF NoTx
<1>9. ASSUME NEW c \in Changes, AbortComplete(c) PROVE LocksSound'
  BY <1>9 DEF AbortComplete, NoTx, IsOwner, TypeOK
<1>10. CASE EmergencyApply
  <2>1. UNCHANGED <<role, chg, tx>> /\ \A o \in Accounts : life'[o] \in {life[o], "active"}
    BY <1>10 DEF EmergencyApply, TypeOK
  <2> QED BY <2>1, OpenRows DEF IsOwner
<1> QED BY <1>1, <1>2, <1>3, <1>4, <1>5, <1>6, <1>7, <1>8, <1>9, <1>10, RoleSteps

LEMMA ChangesStep == ASSUME TypeOK, ChangesSound, [Next]_vars PROVE ChangesSound'
<1> USE DEF ChangesSound
<1>1. CASE UNCHANGED <<life, role, chg, tx>>
  BY <1>1 DEF OpenChange
<1>2. ASSUME NEW b \in req, NEW a \in Accounts, Disable(b, a) \/ Enable(b, a) \/ Delete(b, a)
      PROVE  ChangesSound'
  <2>1. UNCHANGED role
    BY <1>2 DEF Disable, Enable, Delete
  <2>2. \A c \in Changes : OpenChange(c)' => OpenChange(c) /\ chg'[c] = chg[c]
    BY <1>2 DEF Disable, Enable, Delete, TypeOK, ChangeRows, NoChange, OpenChange
  <2> QED BY <2>1, <2>2
<1>3. ASSUME NEW a \in Accounts, AcceptInvitation(a) PROVE ChangesSound'
  <2>1. \A o \in Accounts : role'[o] = role[o] \/ role'[o] # "owner"
    BY <1>3 DEF AcceptInvitation, TypeOK
  <2> QED BY <1>3, <2>1, OpenRows DEF AcceptInvitation, OpenChange, ChangeRows
<1>4. ASSUME NEW b \in req, NEW a \in Accounts, NEW r \in Roles, NEW c \in Changes,
             RequestChange(b, a, r, c)
      PROVE  ChangesSound'
  <2>1. UNCHANGED role
    BY <1>4 DEF RequestChange
  <2>2. \A d \in Changes \ {c} :
          OpenChange(d)' => OpenChange(d) /\ chg'[d] = chg[d] /\ chg[d].target # a
    BY <1>4 DEF RequestChange, LapsedExpired, TypeOK, ChangeRows, NoChange, OpenChange
  <2>3. chg'[c] = [target |-> a, role |-> r, verified |-> Sensitive(a, r), state |-> "pending"]
    BY <1>4 DEF RequestChange, LapsedExpired
  <2>4. ~chg'[c].verified => r # "owner" /\ role[a] # "owner"
    <3>1. chg'[c].verified = Sensitive(a, r)
      BY <2>3
    <3>2. ~Sensitive(a, r) => r # "owner" /\ role[a] # "owner"
      BY DEF Sensitive
    <3> QED BY <3>1, <3>2, Zenon
  <2> QED BY <2>1, <2>2, <2>3, <2>4
<1>5. ASSUME NEW c \in Changes,
             ChangeLapses(c) \/ ExpireChange(c) \/ (\E b \in req : CancelChange(b, c))
      PROVE  ChangesSound'
  <2>1. UNCHANGED role
    BY <1>5 DEF ChangeLapses, ExpireChange, CancelChange
  <2>2. \A d \in Changes : /\ OpenChange(d)' => OpenChange(d)
                           /\ chg'[d].target = chg[d].target /\ chg'[d].role = chg[d].role
                           /\ chg'[d].verified = chg[d].verified
    BY <1>5 DEF ChangeLapses, ExpireChange, CancelChange, TypeOK, ChangeRows, NoChange, OpenChange
  <2> QED BY <2>1, <2>2
<1>6. ASSUME NEW c \in Changes,
             \/ (\E b \in req : BeginComplete(b, c)) \/ ApplyComplete(c) \/ AbortComplete(c)
      PROVE  ChangesSound'
  BY <1>6 DEF BeginComplete, ApplyComplete, AbortComplete, OpenChange
<1>7. ASSUME NEW c \in Changes, CommitComplete(c) PROVE ChangesSound'
  <2>1. OpenChange(c)
    BY <1>7, OpenRows DEF CommitComplete
  <2>2. /\ \A o \in Accounts \ {chg[c].target} : role'[o] = role[o]
        /\ \A d \in Changes \ {c} : chg'[d] = chg[d]
        /\ ~OpenChange(c)'
    BY <1>7 DEF CommitComplete, TypeOK, OpenChange, ChangeRows, NoChange
  <2>3. \A d \in Changes : OpenChange(d)' =>
          OpenChange(d) /\ chg'[d] = chg[d] /\ chg[d].target \in Accounts \ {chg[c].target}
    BY <2>1, <2>2, OpenRows DEF OpenChange, ChangeRows
  <2> QED BY <2>2, <2>3
<1>8. CASE EmergencyApply
  BY <1>8 DEF EmergencyApply, OpenChange
<1> QED BY <1>1, <1>2, <1>3, <1>4, <1>5, <1>6, <1>7, <1>8, RoleSteps

LEMMA ChangesInit == Init => LocksSound /\ ChangesSound
BY DEF Init, LocksSound, ChangesSound, OpenChange, NoChange, NoTx

LEMMA RoleInvariants == Spec => [](TypeOK /\ LocksSound /\ ChangesSound)
BY AccountTypes, ChangesInit, LocksStep, ChangesStep, PTL DEF Spec

LEMMA OwnerStep == ASSUME TypeOK, LocksSound, OwnerRemains, [Next]_vars PROVE OwnerRemains'
<1> PICK o \in Accounts : IsOwner(o)
  BY DEF OwnerRemains
<1>1. ASSUME NEW c \in Changes, CommitComplete(c) PROVE OwnerRemains'
  <2>1. /\ tx[c].phase = "applied" /\ UNCHANGED life
        /\ \A x \in Accounts \ {chg[c].target} : role'[x] = role[x]
    BY <1>1 DEF CommitComplete, TypeOK
  <2>2. tx[c].by \in Accounts /\ tx[c].by # chg[c].target /\ IsOwner(tx[c].by)
    BY <2>1, OpenRows DEF LocksSound
  <2> QED BY <2>1, <2>2 DEF OwnerRemains, IsOwner
<1>2. ASSUME NEW b \in req, NEW a \in Accounts, Disable(b, a) \/ Enable(b, a) \/ Delete(b, a)
      PROVE  IsOwner(o)'
  BY <1>2 DEF Disable, Enable, Delete, Manageable, IsOwner, TypeOK
<1>3. ASSUME NEW a \in Accounts, AcceptInvitation(a) PROVE IsOwner(o)'
  BY <1>3 DEF AcceptInvitation, IsOwner, TypeOK
<1>4. CASE EmergencyApply
  BY <1>4 DEF EmergencyApply, IsOwner, TypeOK, OwnerRemains
<1>5. CASE UNCHANGED <<life, role>>
  BY <1>5 DEF IsOwner, OwnerRemains
<1>6. ASSUME NEW c \in Changes,
             \/ (\E b \in req : CancelChange(b, c) \/ BeginComplete(b, c))
             \/ ChangeLapses(c) \/ ExpireChange(c) \/ ApplyComplete(c) \/ AbortComplete(c)
             \/ (\E b \in req, a \in Accounts, r \in Roles : RequestChange(b, a, r, c))
      PROVE  UNCHANGED <<life, role>>
  BY <1>6 DEF CancelChange, BeginComplete, ChangeLapses, ExpireChange, ApplyComplete,
              AbortComplete, RequestChange
<1> QED BY <1>1, <1>2, <1>3, <1>4, <1>5, <1>6, RoleSteps DEF OwnerRemains

\* For every instance an active Owner remains, whoever demotes whom at the same
\* time: an applied completion shares the row of its completer, who is an
\* Owner, so no other completion can take that role away before it commits.
THEOREM OwnerAlwaysRemains == Spec => []OwnerRemains
<1>1. Init => OwnerRemains
  BY AccountsAssumption DEF Init, OwnerRemains, IsOwner
<1> QED BY <1>1, OwnerStep, RoleInvariants, PTL DEF Spec

\* For every instance only a verified request makes or unmakes an Owner.
THEOREM OwnersChangeVerified == Spec => OwnerChangesVerified
<1> DEFINE Step == \A a \in Accounts :
       role'[a] # role[a] /\ "owner" \in {role[a], role'[a]} =>
         \E c \in Changes : /\ tx[c].phase = "applied" /\ chg[c].verified
                            /\ chg[c].target = a /\ chg[c].role = role'[a]
<1>1. ASSUME TypeOK, ChangesSound, [Next]_vars PROVE [Step]_vars
  <2>1. ASSUME NEW c \in Changes, CommitComplete(c) PROVE Step
    <3>1. /\ tx[c].phase = "applied" /\ OpenChange(c) /\ chg[c] \in ChangeRows
          /\ chg[c].target \in Accounts
      BY <1>1, <2>1, OpenRows DEF CommitComplete
    <3>2. role' = [role EXCEPT ![chg[c].target] = chg[c].role]
      BY <2>1 DEF CommitComplete
    <3>3. chg[c].verified \/ "owner" \notin {role[chg[c].target], chg[c].role}
      BY <1>1, <3>1 DEF ChangesSound, ChangeRows
    <3> QED BY <1>1, <3>1, <3>2, <3>3 DEF TypeOK
  <2>2. ASSUME NEW a \in Accounts, AcceptInvitation(a) PROVE Step
    BY <1>1, <2>2, SecretsAssumption DEF AcceptInvitation, TypeOK, Roles
  <2>3. CASE UNCHANGED role
    BY <2>3
  <2>4. ASSUME NEW b \in req, NEW a \in Accounts, Disable(b, a) \/ Enable(b, a) \/ Delete(b, a)
        PROVE  UNCHANGED role
    BY <2>4 DEF Disable, Enable, Delete
  <2>5. CASE EmergencyApply
    BY <2>5 DEF EmergencyApply
  <2>6. ASSUME NEW c \in Changes,
               \/ (\E b \in req : CancelChange(b, c) \/ BeginComplete(b, c))
               \/ ChangeLapses(c) \/ ExpireChange(c) \/ ApplyComplete(c) \/ AbortComplete(c)
               \/ (\E b \in req, a \in Accounts, r \in Roles : RequestChange(b, a, r, c))
        PROVE  UNCHANGED role
    BY <2>6 DEF CancelChange, BeginComplete, ChangeLapses, ExpireChange, ApplyComplete,
                AbortComplete, RequestChange
  <2> QED BY <1>1, <2>1, <2>2, <2>3, <2>4, <2>5, <2>6, RoleSteps
<1> QED BY RoleInvariants, <1>1, PTL DEF Spec, OwnerChangesVerified

-----------------------------------------------------------------------------
(* Sessions                                                                 *)

LEMMA UnrevokedRows ==
  ASSUME TypeOK, NEW s \in Sessions, sess[s].state # "unused"
  PROVE  sess[s] \in SessionRows /\ sess[s].of \in Accounts
<1>1. sess[s] \in SessionRows
  BY DEF TypeOK, NoSession
<1> QED BY <1>1 DEF SessionRows

\* Ending the sessions of an account allows any change of that account.
LEMMA EndedCurrent ==
  ASSUME TypeOK, SessionsCurrent, NEW a, sess' = SessionsEnded(a),
         \A o \in Accounts \ {a} : /\ life'[o] = life[o] /\ role'[o] = role[o]
                                   /\ pwd'[o] = pwd[o] /\ totp'[o] = totp[o]
  PROVE  SessionsCurrent'
<1>1. \A s \in Sessions : Unrevoked(s)' =>
        sess'[s] = sess[s] /\ Unrevoked(s) /\ sess[s].of \in Accounts \ {a}
  BY UnrevokedRows DEF SessionsEnded, Unrevoked, SessionRows
<1> QED BY <1>1 DEF SessionsCurrent

\* What a step can do to a session that was opened before.
LEMMA EndedMoves ==
  ASSUME TypeOK, NEW a, NEW s \in Sessions, sess[s].state # "unused"
  PROVE  /\ SessionsEnded(a)[s].of = sess[s].of /\ SessionsEnded(a)[s].scope = sess[s].scope
         /\ SessionsEnded(a)[s].state \in {sess[s].state, "revoked"}
BY UnrevokedRows DEF SessionsEnded, SessionRows

\* The step raises the idle timeout above the idle time of session s.
Raised(s) ==
  /\ sess[s].state = "idle"
  /\ \E b \in req, S \in SUBSET Sessions : s \in S /\ SetIdleTimeout(b, S)

LEMMA SessionMoves ==
  ASSUME TypeOK, [Next]_vars, NEW s \in Sessions, sess[s].state # "unused"
  PROVE  /\ sess'[s].of = sess[s].of /\ sess'[s].scope = sess[s].scope
         /\ sess'[s].state \in {"open", "aging"} => \/ sess[s].state \in {"open", "aging"}
                                                   \/ Raised(s)
<1> DEFINE Moves == /\ sess'[s].of = sess[s].of /\ sess'[s].scope = sess[s].scope
                    /\ sess'[s].state \in {"open", "aging"} => \/ sess[s].state \in {"open", "aging"}
                                                              \/ Raised(s)
<1>1. CASE UNCHANGED sess
  BY <1>1
<1>2. ASSUME NEW a, sess' = SessionsEnded(a) PROVE Moves
  BY <1>2, EndedMoves
<1>3. ASSUME NEW a \in Accounts, NEW t \in Sessions, NEW scope \in Scopes, Login(a, t, scope)
      PROVE  Moves
  BY <1>3 DEF Login, TypeOK
<1>4. ASSUME NEW t \in Sessions,
             \/ SessionAges(t) \/ SessionIdles(t) \/ SessionExpires(t)
             \/ Refresh(t) \/ Logout(t) \/ RequireOwner(t)
      PROVE  Moves
  BY <1>4, UnrevokedRows
  DEF SessionAges, SessionIdles, SessionExpires, Refresh, Logout, RequireOwner, Usable, SessionRows, TypeOK
<1>5. ASSUME NEW S \in SUBSET Sessions, RevokeIdle(S) PROVE Moves
  BY <1>5, UnrevokedRows DEF RevokeIdle, SessionRows
<1>10. ASSUME NEW S \in SUBSET Sessions, NEW b \in req, SetIdleTimeout(b, S) PROVE Moves
  <2>1. CASE s \in S
    <3>1. Raised(s)
      BY <1>10, <2>1 DEF SetIdleTimeout, Raised
    <3> QED BY <1>10, <3>1, UnrevokedRows DEF SetIdleTimeout, SessionRows
  <2>2. CASE s \notin S
    BY <1>10, <2>2 DEF SetIdleTimeout
  <2> QED BY <2>1, <2>2
<1>6. SessionStep => Moves
  <2>1. ASSUME NEW a \in Accounts, FailLogin(a) \/ LockLapses(a) PROVE UNCHANGED sess
    BY <2>1 DEF FailLogin, LockLapses
  <2>2. ASSUME NEW b \in req, RequestEnds(b) PROVE UNCHANGED sess
    BY <2>2 DEF RequestEnds
  <2> QED BY <1>1, <1>3, <1>4, <1>5, <1>10, <2>1, <2>2 DEF SessionStep
<1>7. AccountStep => UNCHANGED sess \/ \E a \in Accounts : sess' = SessionsEnded(a)
  BY DEF AccountStep, Disable, Enable, Delete, Unlock, RevokeSessions, Invite, Uninvite,
         AcceptInvitation
<1>8. ChangeStep => UNCHANGED sess \/ \E c \in Changes : sess' = SessionsEnded(chg[c].target)
  BY DEF ChangeStep, RequestChange, CancelChange, BeginComplete, ChangeLapses, ExpireChange,
         ApplyComplete, CommitComplete, AbortComplete
<1>9. ResetStep => \/ UNCHANGED sess \/ sess' = SessionsEnded(em)
                   \/ \E a \in Accounts : sess' = SessionsEnded(a)
                   \/ \E l \in Links : sess' = SessionsEnded(link[l].of)
  BY DEF ResetStep, CreateReset, SelfReset, AcceptReset, LinkLapses, EmergencyPick, EmergencyApply
<1> QED BY <1>1, <1>2, <1>6, <1>7, <1>8, <1>9 DEF Next

LEMMA CurrentStep == ASSUME TypeOK, SessionsCurrent, [Next]_vars PROVE SessionsCurrent'
<1>1. CASE UNCHANGED <<life, role, pwd, totp, sess>>
  BY <1>1 DEF SessionsCurrent, Unrevoked
<1>2. ASSUME NEW a \in Accounts, NEW s \in Sessions, NEW scope \in Scopes, Login(a, s, scope)
      PROVE  SessionsCurrent'
  <2>1. /\ UNCHANGED <<life, role, pwd, totp>> /\ life[a] = "active"
        /\ sess'[s] = [of |-> a, scope |-> scope, role |-> role[a], pwd |-> pwd[a],
                       totp |-> totp[a], state |-> "open"]
        /\ \A t \in Sessions \ {s} : sess'[t] = sess[t]
    BY <1>2 DEF Login, TypeOK
  <2> QED BY <2>1 DEF SessionsCurrent, Unrevoked
<1>3. ASSUME NEW s \in Sessions,
             \/ SessionAges(s) \/ SessionIdles(s) \/ SessionExpires(s)
             \/ Refresh(s) \/ Logout(s) \/ RequireOwner(s)
      PROVE  SessionsCurrent'
  <2>1. /\ UNCHANGED <<life, role, pwd, totp>> /\ Unrevoked(s)
        /\ \A t \in Sessions \ {s} : sess'[t] = sess[t]
    BY <1>3 DEF SessionAges, SessionIdles, SessionExpires, Refresh, Logout, RequireOwner, Usable, Unrevoked, TypeOK
  <2>2. /\ sess'[s].of = sess[s].of /\ sess'[s].role = sess[s].role
        /\ sess'[s].pwd = sess[s].pwd /\ sess'[s].totp = sess[s].totp
    BY <1>3, <2>1, UnrevokedRows
    DEF SessionAges, SessionIdles, SessionExpires, Refresh, Logout, RequireOwner, SessionRows, Unrevoked, TypeOK
  <2> QED BY <2>1, <2>2 DEF SessionsCurrent, Unrevoked
<1>4. ASSUME NEW S \in SUBSET Sessions, RevokeIdle(S) PROVE SessionsCurrent'
  <2>1. \A s \in Sessions : Unrevoked(s)' => sess'[s] = sess[s]
    BY <1>4, UnrevokedRows DEF RevokeIdle, Unrevoked, SessionRows
  <2> QED BY <1>4, <2>1 DEF SessionsCurrent, Unrevoked, RevokeIdle
<1>16. ASSUME NEW S \in SUBSET Sessions, NEW b \in req, SetIdleTimeout(b, S) PROVE SessionsCurrent'
  <2>1. \A s \in Sessions : Unrevoked(s)' =>
          /\ Unrevoked(s) /\ sess'[s].of = sess[s].of /\ sess'[s].role = sess[s].role
          /\ sess'[s].pwd = sess[s].pwd /\ sess'[s].totp = sess[s].totp
    BY <1>16, UnrevokedRows DEF SetIdleTimeout, Unrevoked, SessionRows
  <2>2. UNCHANGED <<life, role, pwd, totp>>
    BY <1>16 DEF SetIdleTimeout
  <2> QED BY <2>1, <2>2 DEF SessionsCurrent
<1>5. ASSUME NEW b \in req, NEW a \in Accounts,
             Disable(b, a) \/ Delete(b, a) \/ RevokeSessions(b, a)
      PROVE  SessionsCurrent'
  BY <1>5, EndedCurrent DEF Disable, Delete, RevokeSessions, TypeOK
<1>6. ASSUME NEW b \in req, NEW a \in Accounts, Enable(b, a) PROVE SessionsCurrent'
  BY <1>6, UnrevokedRows DEF Enable, SessionsCurrent, Unrevoked, TypeOK
<1>7. ASSUME NEW a \in Accounts, AcceptInvitation(a) PROVE SessionsCurrent'
  <2>1. \A s \in Sessions : Unrevoked(s) => sess[s].of # a
    BY <1>7 DEF AcceptInvitation, SessionsCurrent
  <2> QED BY <1>7, <2>1, UnrevokedRows DEF AcceptInvitation, SessionsCurrent, Unrevoked, TypeOK
<1>8. ASSUME NEW c \in Changes, CommitComplete(c) PROVE SessionsCurrent'
  BY <1>8, EndedCurrent DEF CommitComplete, TypeOK
<1>9. ASSUME NEW b \in req, NEW a \in Accounts, NEW l \in Links, NEW m \in Modes,
             CreateReset(b, a, l, m)
      PROVE  SessionsCurrent'
  BY <1>9, EndedCurrent DEF CreateReset, TypeOK
<1>10. ASSUME NEW l \in Links, AcceptReset(l) PROVE SessionsCurrent'
  BY <1>10, EndedCurrent DEF AcceptReset, TypeOK
<1>11. CASE EmergencyApply
  BY <1>11, EndedCurrent DEF EmergencyApply, TypeOK
<1>12. SessionStep => SessionsCurrent'
  <2>1. ASSUME NEW a \in Accounts, FailLogin(a) \/ LockLapses(a)
        PROVE  UNCHANGED <<life, role, pwd, totp, sess>>
    BY <2>1 DEF FailLogin, LockLapses
  <2>2. ASSUME NEW b \in req, RequestEnds(b) PROVE UNCHANGED <<life, role, pwd, totp, sess>>
    BY <2>2 DEF RequestEnds
  <2> QED BY <1>1, <1>2, <1>3, <1>4, <1>16, <2>1, <2>2 DEF SessionStep
<1>13. AccountStep => SessionsCurrent'
  <2>1. ASSUME NEW b \in req, NEW a \in Accounts,
               Unlock(b, a) \/ (\E r \in Roles : Invite(b, a, r)) \/ Uninvite(a)
        PROVE  UNCHANGED <<life, role, pwd, totp, sess>>
    BY <2>1 DEF Unlock, Invite, Uninvite
  <2>2. ASSUME NEW a \in Accounts, Uninvite(a) PROVE UNCHANGED <<life, role, pwd, totp, sess>>
    BY <2>2 DEF Uninvite
  <2> QED BY <1>1, <1>5, <1>6, <1>7, <2>1, <2>2 DEF AccountStep
<1>14. ChangeStep => SessionsCurrent'
  <2>1. ChangeStep => \/ UNCHANGED <<life, role, pwd, totp, sess>>
                      \/ \E c \in Changes : CommitComplete(c)
    BY DEF ChangeStep, RequestChange, CancelChange, BeginComplete, ChangeLapses, ExpireChange,
           ApplyComplete, AbortComplete
  <2> QED BY <1>1, <1>8, <2>1
<1>15. ResetStep => SessionsCurrent'
  <2>1. ASSUME NEW a \in Accounts, EmergencyPick(a) PROVE UNCHANGED <<life, role, pwd, totp, sess>>
    BY <2>1 DEF EmergencyPick
  <2>2. ASSUME NEW l \in Links, LinkLapses(l) PROVE UNCHANGED <<life, role, pwd, totp, sess>>
    BY <2>2 DEF LinkLapses
  <2>3. ASSUME NEW a \in Accounts, NEW l \in Links, NEW m \in Modes, SelfReset(a, l, m)
        PROVE  UNCHANGED <<life, role, pwd, totp, sess>>
    BY <2>3 DEF SelfReset
  <2> QED BY <1>1, <1>9, <1>10, <1>11, <2>1, <2>2, <2>3 DEF ResetStep
<1> QED BY <1>1, <1>12, <1>13, <1>14, <1>15 DEF Next

\* For every instance an unrevoked session matches its account as it is now.
THEOREM SessionsStayCurrent == Spec => []SessionsCurrent
<1>1. Init => SessionsCurrent
  BY DEF Init, SessionsCurrent, Unrevoked, NoSession
<1> QED BY <1>1, CurrentStep, AccountTypes, PTL DEF Spec

\* For every instance a session that is expired, revoked or of a disabled
\* account never counts again, and an idle one only by a change of the timeout
\* that every check reads (operator_idle_timeout).
THEOREM SessionsNeverRevive == Spec => NoRevival
<1> DEFINE Step == \A s \in Sessions : sess[s].state # "unused" =>
       /\ Usable(s)' => \/ Usable(s)
                        \/ /\ sess[s].state = "idle" /\ life[sess[s].of] = "active"
                           /\ \E b \in req, S \in SUBSET Sessions : s \in S /\ SetIdleTimeout(b, S)
       /\ sess'[s].scope = sess[s].scope /\ sess'[s].of = sess[s].of
<1>1. ASSUME TypeOK, SessionsCurrent, [Next]_vars PROVE [Step]_vars
  BY <1>1, SessionMoves DEF Usable, SessionsCurrent, Unrevoked, Raised
<1> QED BY SessionsStayCurrent, AccountTypes, <1>1, PTL DEF Spec, NoRevival

-----------------------------------------------------------------------------
(* Links, and what a deleted account leaves behind                          *)

\* How the table of links changes: not at all, by a new link for an account
\* that exists, by a link that is used or lapses, or by a deletion.
LinkIssued(a, l, m) ==
  /\ Exists(a) /\ UNCHANGED life
  /\ link' = [LinksRevoked(a) EXCEPT ![l] = [of |-> a, mode |-> m, state |-> "open"]]

LinkEnds(l) ==
  /\ link[l].state = "open" /\ UNCHANGED life
  /\ \E x \in {"used", "expired"} : link' = [link EXCEPT ![l].state = x]

LEMMA LinkMoves ==
  ASSUME [Next]_vars
  PROVE  \/ UNCHANGED link
         \/ \E a \in Accounts, l \in Links, m \in Modes : LinkIssued(a, l, m)
         \/ \E l \in Links : LinkEnds(l)
         \/ \E b \in req, a \in Accounts : Delete(b, a)
<1>1. SessionStep => UNCHANGED link
  BY DEF SessionStep, FailLogin, LockLapses, Login, SessionAges, SessionIdles, SessionExpires, Refresh, Logout,
         RequireOwner, RevokeIdle, SetIdleTimeout, RequestEnds
<1>2. AccountStep => UNCHANGED link \/ \E b \in req, a \in Accounts : Delete(b, a)
  BY DEF AccountStep, Disable, Enable, Unlock, RevokeSessions, Invite, Uninvite, AcceptInvitation
<1>3. ChangeStep => UNCHANGED link
  BY DEF ChangeStep, RequestChange, CancelChange, BeginComplete, ChangeLapses, ExpireChange,
         ApplyComplete, CommitComplete, AbortComplete
<1>4. ASSUME NEW b \in req, NEW a \in Accounts, NEW l \in Links, NEW m \in Modes,
             CreateReset(b, a, l, m)
      PROVE  LinkIssued(a, l, m)
  BY <1>4 DEF CreateReset, LinkIssued
<1>5. ASSUME NEW a \in Accounts, NEW l \in Links, NEW m \in Modes, SelfReset(a, l, m)
      PROVE  LinkIssued(a, l, m)
  BY <1>5 DEF SelfReset, LinkIssued, Exists
<1>6. ASSUME NEW l \in Links, AcceptReset(l) \/ LinkLapses(l) PROVE LinkEnds(l)
  BY <1>6 DEF AcceptReset, LinkLapses, LinkEnds
<1>7. (EmergencyApply \/ \E a \in Accounts : EmergencyPick(a)) => UNCHANGED link
  BY DEF EmergencyApply, EmergencyPick
<1> QED BY <1>1, <1>2, <1>3, <1>4, <1>5, <1>6, <1>7 DEF Next, ResetStep

\* For every instance a newer link of an account makes the older useless.
THEOREM LinksReplaceEachOther == Spec => []OneOpenLink
<1>1. Init => OneOpenLink
  BY DEF Init, OneOpenLink, NoLink
<1>2. ASSUME TypeOK, OneOpenLink, [Next]_vars PROVE OneOpenLink'
  <2> USE DEF OneOpenLink
  <2>1. CASE UNCHANGED link
    BY <1>2, <2>1
  <2>2. ASSUME NEW a \in Accounts, NEW l \in Links, NEW m \in Modes, LinkIssued(a, l, m)
        PROVE  OneOpenLink'
    <3>1. link'[l].state = "open" /\ link'[l].of = a
      BY <1>2, <2>2 DEF LinkIssued, LinksRevoked
    <3>2. ASSUME NEW k \in Links \ {l}, link'[k].state = "open"
          PROVE  link[k].of # a /\ link'[k] = link[k]
      BY <1>2, <2>2, <3>2 DEF LinkIssued, LinksRevoked, TypeOK, LinkRows, NoLink
    <3> QED BY <1>2, <3>1, <3>2
  <2>3. ASSUME NEW l \in Links, LinkEnds(l) PROVE OneOpenLink'
    <3>1. link'[l].state # "open"
      BY <1>2, <2>3 DEF LinkEnds, TypeOK, LinkRows, NoLink
    <3>2. \A k \in Links \ {l} : link'[k] = link[k]
      BY <1>2, <2>3 DEF LinkEnds, TypeOK
    <3> QED BY <1>2, <3>1, <3>2
  <2>4. ASSUME NEW b \in req, NEW a \in Accounts, Delete(b, a) PROVE OneOpenLink'
    <3>1. ASSUME NEW k \in Links, link'[k].state = "open" PROVE link'[k] = link[k]
      BY <1>2, <2>4, <3>1 DEF Delete, LinksRevoked, TypeOK, LinkRows, NoLink
    <3> QED BY <1>2, <3>1
  <2> QED BY <1>2, <2>1, <2>2, <2>3, <2>4, LinkMoves
<1> QED BY <1>1, <1>2, AccountTypes, PTL DEF Spec

\* A link that could still be used, and a request that could still be
\* completed, belong to an account that has not been deleted.
LiveOwners ==
  /\ \A l \in Links : link[l].state \in {"open", "expired"} => Exists(link[l].of)
  /\ \A c \in Changes : chg[c].state \in {"pending", "lapsed"} => Exists(chg[c].target)

LEMMA AccountsStay ==
  ASSUME TypeOK, [Next]_vars, NEW a \in Accounts, Exists(a)
  PROVE  Exists(a)' \/ \E b \in req : Delete(b, a)
<1> USE DEF TypeOK, Exists
<1>1. SessionStep => UNCHANGED life
  BY DEF SessionStep, FailLogin, LockLapses, Login, SessionAges, SessionIdles, SessionExpires, Refresh, Logout,
         RequireOwner, RevokeIdle, SetIdleTimeout, RequestEnds
<1>2. AccountStep => Exists(a)' \/ \E b \in req : Delete(b, a)
  BY DEF AccountStep, Disable, Enable, Delete, Unlock, RevokeSessions, Invite, Uninvite,
         AcceptInvitation
<1>3. ChangeStep => UNCHANGED life
  BY DEF ChangeStep, RequestChange, CancelChange, BeginComplete, ChangeLapses, ExpireChange,
         ApplyComplete, CommitComplete, AbortComplete
<1>4. ResetStep => Exists(a)'
  BY DEF ResetStep, CreateReset, SelfReset, AcceptReset, LinkLapses, EmergencyPick, EmergencyApply
<1> QED BY <1>1, <1>2, <1>3, <1>4 DEF Next

\* An open request was open before, for the same account, or is a new one for
\* an active account; a deletion leaves none for the account it deletes.
LEMMA OpenChanges ==
  ASSUME TypeOK, [Next]_vars, NEW c \in Changes, OpenChange(c)'
  PROVE  \/ OpenChange(c) /\ chg'[c].target = chg[c].target
         \/ chg'[c].target \in Accounts /\ life[chg'[c].target] = "active" /\ UNCHANGED life
<1> USE DEF OpenChange
<1>1. CASE UNCHANGED chg
  BY <1>1
<1>2. ASSUME NEW b \in req, NEW a \in Accounts, Delete(b, a)
      PROVE  OpenChange(c) /\ chg'[c].target = chg[c].target
  BY <1>2 DEF Delete, TypeOK, ChangeRows, NoChange
<1>3. ASSUME NEW b \in req, NEW a \in Accounts, NEW r \in Roles, NEW d \in Changes,
             RequestChange(b, a, r, d)
      PROVE  \/ OpenChange(c) /\ chg'[c].target = chg[c].target
             \/ chg'[c].target = a /\ life[a] = "active" /\ UNCHANGED life
  <2>1. CASE c = d
    BY <1>3, <2>1 DEF RequestChange, MayRequest, LapsedExpired
  <2>2. CASE c # d
    BY <1>3, <2>2 DEF RequestChange, LapsedExpired, TypeOK, ChangeRows, NoChange
  <2> QED BY <2>1, <2>2
<1>4. ASSUME NEW d \in Changes,
             \/ ChangeLapses(d) \/ ExpireChange(d) \/ CommitComplete(d)
             \/ (\E b \in req : CancelChange(b, d))
      PROVE  OpenChange(c) /\ chg'[c].target = chg[c].target
  BY <1>4, OpenRows
  DEF ChangeLapses, ExpireChange, CommitComplete, CancelChange, TypeOK, ChangeRows, NoChange
<1>5. SessionStep => UNCHANGED chg
  BY DEF SessionStep, FailLogin, LockLapses, Login, SessionAges, SessionIdles, SessionExpires, Refresh, Logout,
         RequireOwner, RevokeIdle, SetIdleTimeout, RequestEnds
<1>6. AccountStep => UNCHANGED chg \/ \E b \in req, a \in Accounts : Delete(b, a)
  BY DEF AccountStep, Disable, Enable, Unlock, RevokeSessions, Invite, Uninvite, AcceptInvitation
<1>7. (\E b \in req, d \in Changes : BeginComplete(b, d))
        \/ (\E d \in Changes : ApplyComplete(d) \/ AbortComplete(d)) => UNCHANGED chg
  BY DEF BeginComplete, ApplyComplete, AbortComplete
<1>8. ResetStep => UNCHANGED chg
  BY DEF ResetStep, CreateReset, SelfReset, AcceptReset, LinkLapses, EmergencyPick, EmergencyApply
<1>9. ChangeStep => \/ OpenChange(c) /\ chg'[c].target = chg[c].target
                    \/ chg'[c].target \in Accounts /\ life[chg'[c].target] = "active"
                         /\ UNCHANGED life
  BY <1>1, <1>3, <1>4, <1>7 DEF ChangeStep
<1> QED BY <1>1, <1>2, <1>5, <1>6, <1>8, <1>9 DEF Next

LEMMA LiveStep == ASSUME TypeOK, LiveOwners, [Next]_vars PROVE LiveOwners'
<1> DEFINE Waiting(l) == link[l].state \in {"open", "expired"}
<1>1. \A c \in Changes : OpenChange(c) => chg[c].target \in Accounts
  BY OpenRows DEF ChangeRows
<1>2. \A l \in Links : Waiting(l) => link[l].of \in Accounts
  BY DEF TypeOK, LinkRows, NoLink
<1>3. ASSUME NEW c \in Changes, OpenChange(c)' PROVE Exists(chg[c].target)'
  <2>1. CASE life[chg'[c].target] = "active" /\ UNCHANGED life
    BY <2>1 DEF Exists
  <2>2. CASE OpenChange(c) /\ chg'[c].target = chg[c].target
    <3>1. \A b \in req : ~Delete(b, chg[c].target)
      BY <1>3, <2>2 DEF Delete, OpenChange, TypeOK, ChangeRows, NoChange
    <3>2. Exists(chg[c].target)
      BY <2>2 DEF LiveOwners, OpenChange
    <3> QED BY <1>1, <2>2, <3>1, <3>2, AccountsStay DEF Exists
  <2> QED BY <1>3, <2>1, <2>2, OpenChanges
<1>4. ASSUME NEW l \in Links, Waiting(l)' PROVE Exists(link[l].of)'
  <2>1. CASE UNCHANGED link
    <3>1. \A b \in req : ~Delete(b, link[l].of)
      BY <1>4, <2>1 DEF Delete, LinksRevoked, TypeOK, LinkRows, NoLink
    <3> QED BY <1>2, <1>4, <2>1, <3>1, AccountsStay DEF Exists, LiveOwners
  <2>2. ASSUME NEW a \in Accounts, NEW k \in Links, NEW m \in Modes, LinkIssued(a, k, m)
        PROVE  Exists(link[l].of)'
    <3>1. link'[l].of = a \/ (Waiting(l) /\ link'[l].of = link[l].of)
      BY <1>4, <2>2 DEF LinkIssued, LinksRevoked, TypeOK, LinkRows, NoLink
    <3> QED BY <2>2, <3>1 DEF LinkIssued, Exists, LiveOwners
  <2>3. ASSUME NEW k \in Links, LinkEnds(k) PROVE Exists(link[l].of)'
    <3>1. Waiting(l) /\ link'[l].of = link[l].of
      BY <1>4, <2>3 DEF LinkEnds, TypeOK, LinkRows, NoLink
    <3> QED BY <2>3, <3>1 DEF LinkEnds, Exists, LiveOwners
  <2>4. ASSUME NEW b \in req, NEW a \in Accounts, Delete(b, a) PROVE Exists(link[l].of)'
    <3>1. Waiting(l) /\ link'[l].of = link[l].of /\ link[l].of # a
      BY <1>4, <2>4 DEF Delete, LinksRevoked, TypeOK, LinkRows, NoLink
    <3> QED BY <1>2, <2>4, <3>1 DEF Delete, Exists, LiveOwners, TypeOK
  <2> QED BY <2>1, <2>2, <2>3, <2>4, LinkMoves
<1> QED BY <1>3, <1>4 DEF LiveOwners, OpenChange

\* For every instance a deleted account keeps no session, link or open request.
THEOREM DeletionIsFinal == Spec => []DeletedIsInert
<1>1. Init => LiveOwners
  BY DEF Init, LiveOwners, NoLink, NoChange
<1>2. ASSUME TypeOK, SessionsCurrent, LiveOwners PROVE DeletedIsInert
  <2>1. \A a \in Accounts : life[a] = "deleted" => ~Exists(a)
    BY DEF Exists
  <2> QED BY <1>2, <2>1 DEF DeletedIsInert, LiveOwners, SessionsCurrent, TypeOK
<1> QED BY <1>1, <1>2, LiveStep, SessionsStayCurrent, AccountTypes, PTL DEF Spec

=============================================================================
