--------------------------- MODULE DeviceLifecycle ---------------------------
(***************************************************************************)
(* Managed devices of the directory API: enrollment, operator decisions,   *)
(* Owner-authorized re-enrollment, device credentials and relay leases.    *)
(*                                                                         *)
(* A request is served in at least two database transactions: one that     *)
(* authenticates the caller (require_operator, validate_device_credential) *)
(* and, later, the one that acts.  Requests between the two are kept in    *)
(* opReq and devReq.  The acting transaction holds the device row          *)
(* (SELECT ... FOR UPDATE), so each one is a single action; triggers and   *)
(* unique indexes, which abort it, are guards.  A refused or aborted       *)
(* request, or one whose worker died, is dropped without effect.           *)
(*                                                                         *)
(* Time is abstracted to "still valid" flags that expire at any moment.    *)
(*                                                                         *)
(* Operators named Fault... are plausible slips in the definition that     *)
(* follows them, used to see that the properties notice; they are not part *)
(* of the specification.                                                   *)
(***************************************************************************)
EXTENDS Naturals, FiniteSets

CONSTANTS
  Devices,      \* ids of managed_devices rows; an id is never used twice
  Rids,         \* RustDesk ids
  Keys,         \* device public keys
  Names,        \* friendly names, up to case and surrounding blanks
  None,         \* no name, no key, no id
  Operators,    \* operator accounts
  FirstOwner,   \* the account that bootstrapped the directory
  MaxSerial,    \* bound on credentials issued per device
  MaxUses,      \* max_uses of the enrollment secret
  MaxOpReq,     \* bound on operator requests in flight
  MaxDevReq     \* bound on device requests in flight

ASSUME NoneAssumption == None \notin Rids \cup Keys \cup Names
ASSUME OwnerAssumption == FirstOwner \in Operators
ASSUME BoundAssumption ==
  {MaxSerial, MaxUses, MaxOpReq, MaxDevReq} \subseteq Nat

VARIABLES
  status,    \* managed_devices.status; "absent" before INSERT, "deleted" after
  rid,       \* managed_devices.rustdesk_id
  key,       \* managed_devices.device_public_key
  name,      \* managed_devices.friendly_name
  poll,      \* the poll token: the key it was issued to, known to a client?, unexpired?
  issued,    \* number of credentials ever issued to the device
  live,      \* serials of its unrevoked credentials
  signed,    \* signed credentials (JWTs) that left the server
  leases,    \* unrevoked relay leases
  auths,     \* unconsumed, unrevoked re-enrollment authorizations
  request,   \* the device's re-enrollment request: none, open or expired
  secret,    \* the enrollment secret
  account,   \* role and is_active of each operator account
  opReq,     \* operator requests authenticated and not yet performed
  devReq     \* device requests authenticated and not yet performed

deviceVars == <<status, rid, key, name, poll>>
credVars   == <<issued, live, signed>>
reVars     == <<auths, request>>
reqVars    == <<opReq, devReq>>
vars == <<status, rid, key, name, poll, issued, live, signed, leases, auths,
          request, secret, account, opReq, devReq>>

-----------------------------------------------------------------------------
Rows     == {"pending", "approved", "denied", "blocked", "revoked"}
Statuses == Rows \cup {"absent", "deleted"}
Serials  == 1 .. MaxSerial
Roles    == {"owner", "manager", "viewer"}

ManagerKinds == {"approve", "dashboard_approve", "deny", "block", "revoke"}
OwnerKinds   == {"authorize", "delete"}
OpKinds      == ManagerKinds \cup OwnerKinds \cup {"dashboard_checked"}
DevKinds     == {"lease", "heartbeat"}

PollTokens == [key : Keys \cup {None}, held : BOOLEAN, fresh : BOOLEAN]
NoToken    == [key |-> None, held |-> FALSE, fresh |-> FALSE]

TypeOK ==
  /\ status  \in [Devices -> Statuses]
  /\ rid     \in [Devices -> Rids \cup {None}]
  /\ key     \in [Devices -> Keys \cup {None}]
  /\ name    \in [Devices -> Names \cup {None}]
  /\ poll    \in [Devices -> PollTokens]
  /\ issued  \in [Devices -> 0 .. MaxSerial]
  /\ live    \in [Devices -> SUBSET Serials]
  /\ signed  \subseteq [dev : Devices, serial : Serials, key : Keys]
  /\ leases  \subseteq [dev : Devices, serial : Serials, fresh : BOOLEAN]
  /\ auths   \subseteq [dev : Devices, by : Operators, for : Rows, fresh : BOOLEAN]
  /\ request \in [Devices -> {"none", "open", "expired"}]
  /\ secret  \in [open : BOOLEAN, uses : 0 .. MaxUses]
  /\ account \in [Operators -> [role : Roles, active : BOOLEAN]]
  /\ opReq   \subseteq [kind : OpKinds, op : Operators, dev : Devices]
  /\ devReq  \subseteq [kind : DevKinds, dev : Devices, serial : Serials]
  /\ \A d \in Devices : status[d] \in Rows => rid[d] \in Rids /\ key[d] \in Keys

Init ==
  /\ status  = [d \in Devices |-> "absent"]
  /\ rid     = [d \in Devices |-> None]
  /\ key     = [d \in Devices |-> None]
  /\ name    = [d \in Devices |-> None]
  /\ poll    = [d \in Devices |-> NoToken]
  /\ issued  = [d \in Devices |-> 0]
  /\ live    = [d \in Devices |-> {}]
  /\ signed  = {}
  /\ leases  = {}
  /\ auths   = {}
  /\ request = [d \in Devices |-> "none"]
  /\ secret  = [open |-> TRUE, uses |-> 0]
  /\ account = [o \in Operators |->
                  [role |-> IF o = FirstOwner THEN "owner" ELSE "manager",
                   active |-> TRUE]]
  /\ opReq   = {}
  /\ devReq  = {}

-----------------------------------------------------------------------------
(* Operators of the model                                                   *)

Present == {d \in Devices : status[d] \in Rows}

MayManage(o) == account[o].active /\ account[o].role \in {"owner", "manager"}
IsOwner(o)   == account[o].active /\ account[o].role = "owner"

FaultReservingStatuses == {"pending", "approved"}

\* Statuses whose friendly name is taken; denied and revoked rows release it.
ReservingStatuses == {"pending", "approved", "blocked"}

\* ensure_friendly_name_available, backed by a unique index.
NameFree(n, d) ==
  n # None => \A e \in Devices \ {d} :
                ~(name[e] = n /\ status[e] \in ReservingStatuses)

NewName(n, d) == IF n = None THEN name[d] ELSE n

FaultUsable(a) == a.fresh

\* An authorization that a returning device may consume: unexpired, and its
\* requester is an active Owner now.
Usable(a) == a.fresh /\ IsOwner(a.by)

\* The statuses from which a known identity may enroll again.
RecoverableStatuses == {"pending", "denied", "blocked"}

NewToken(k, got) == [key |-> k, held |-> got, fresh |-> TRUE]

\* What is left of a device's unrevoked credentials when its status becomes s:
\* the handler's own UPDATE and the trigger guard_managed_device_status.
Surviving(d, s) == IF s = "approved" THEN live[d] ELSE {}

SignedFor(d, n) == [dev |-> d, serial |-> n, key |-> key[d]]

\* validate_device_credential: the row is approved, the serial unrevoked and
\* the key on file the one the credential was signed for.
Validates(t) ==
  /\ status[t.dev] = "approved"
  /\ t.serial \in live[t.dev]
  /\ key[t.dev] = t.key

-----------------------------------------------------------------------------
(* Enrollment by clients: no account, only the secret and the poll token.   *)

FaultSecretAccepts == secret.open /\ secret.uses <= MaxUses

\* The enrollment secret accepts one more use.
SecretAccepts == secret.open /\ secret.uses < MaxUses

UseSecret == secret' = [secret EXCEPT !.uses = @ + 1]

Duplicates(i, k) == {d \in Present : rid[d] = i \/ key[d] = k}

\* enroll_device for an identity no row knows: a new row, Pending Approval.
\* got tells whether the answer, with the poll token, reaches the client.
EnrollNew(d, i, k, n, got) ==
  /\ SecretAccepts
  /\ Duplicates(i, k) = {}
  /\ status[d] = "absent"
  /\ NameFree(n, d)
  /\ status' = [status EXCEPT ![d] = "pending"]
  /\ rid'    = [rid EXCEPT ![d] = i]
  /\ key'    = [key EXCEPT ![d] = k]
  /\ name'   = [name EXCEPT ![d] = n]
  /\ poll'   = [poll EXCEPT ![d] = NewToken(k, got)]
  /\ UseSecret
  /\ UNCHANGED <<credVars, leases, reVars, account, reqVars>>

FaultKeepsGrant(d, k, n, a, got) ==
  /\ status'  = [status EXCEPT ![d] = "pending"]
  /\ key'     = [key EXCEPT ![d] = k]
  /\ name'    = [name EXCEPT ![d] = NewName(n, d)]
  /\ poll'    = [poll EXCEPT ![d] = NewToken(k, got)]
  /\ live'    = [live EXCEPT ![d] = Surviving(d, "pending")]
  /\ leases'  = {l \in leases : l.dev # d}
  /\ request' = [request EXCEPT ![d] = "none"]
  /\ UNCHANGED <<rid, issued, signed, auths, account, reqVars>>

\* Revoke what the device had, consume the authorization, answer its request,
\* and put the row back to pending under the key and name just presented.
ReturnToPending(d, k, n, a, got) ==
  /\ status'  = [status EXCEPT ![d] = "pending"]
  /\ key'     = [key EXCEPT ![d] = k]
  /\ name'    = [name EXCEPT ![d] = NewName(n, d)]
  /\ poll'    = [poll EXCEPT ![d] = NewToken(k, got)]
  /\ live'    = [live EXCEPT ![d] = Surviving(d, "pending")]
  /\ leases'  = {l \in leases : l.dev # d}
  /\ auths'   = auths \ {a}
  /\ request' = [request EXCEPT ![d] = "none"]
  /\ UNCHANGED <<rid, issued, signed, account, reqVars>>

\* enroll_device for a known identity.  The row is the one with this id and
\* key, or a pending one with this id whose key was lost; no other row may
\* hold the key.  Outside pending the client must also know the poll token
\* (whose expiry this handler does not look at).
EnrollAgain(d, k, n, a, got) ==
  /\ SecretAccepts
  /\ d \in Present
  /\ Duplicates(rid[d], k) = {d}
  /\ key[d] = k \/ status[d] = "pending"
  /\ status[d] \in RecoverableStatuses
  /\ status[d] # "pending" => poll[d].held
  /\ a.dev = d /\ Usable(a)
  /\ NameFree(NewName(n, d), d)
  /\ ReturnToPending(d, k, n, a, got)
  /\ UseSecret

\* The poll token is known to the client and unexpired.
PollAccepted(d) == d \in Present /\ poll[d].held /\ poll[d].fresh

\* request_device_reenrollment: slide the poll window, close an expired
\* request and leave exactly one open.
request_device_reenrollment(d) ==
  /\ PollAccepted(d)
  /\ status[d] \in {"denied", "blocked"}
  /\ request[d] # "open"
  /\ request' = [request EXCEPT ![d] = "open"]
  /\ UNCHANGED <<deviceVars, credVars, leases, auths, secret, account, reqVars>>

\* complete_device_reenrollment: no enrollment secret, any key that no other
\* row holds.
complete_device_reenrollment(d, k, n, a, got) ==
  /\ PollAccepted(d)
  /\ status[d] \in {"denied", "blocked"}
  /\ \A e \in Present \ {d} : key[e] # k
  /\ a.dev = d /\ Usable(a)
  /\ NameFree(NewName(n, d), d)
  /\ ReturnToPending(d, k, n, a, got)
  /\ UNCHANGED secret

\* enrollment_status of an approved device hands it its signed credential;
\* for any other status it only slides the poll window.
enrollment_status(d) ==
  /\ PollAccepted(d)
  /\ status[d] = "approved"
  /\ \E n \in live[d] : signed' = signed \cup {SignedFor(d, n)}
  /\ UNCHANGED <<deviceVars, issued, live, leases, reVars, secret, account, reqVars>>

-----------------------------------------------------------------------------
(* Operators: a request is authenticated first and performed later.         *)

\* require_device_manager, require_owner and their dashboard twins: the role
\* and activity of the account are those of this moment.
OperatorRequest(kind, o, d) ==
  /\ Cardinality(opReq) < MaxOpReq
  /\ kind \in ManagerKinds => MayManage(o)
  /\ kind \in OwnerKinds => IsOwner(o)
  /\ opReq' = opReq \cup {[kind |-> kind, op |-> o, dev |-> d]}
  /\ UNCHANGED <<deviceVars, credVars, leases, reVars, secret, account, devReq>>

\* The dashboard's approve reads the status in a transaction of its own, and
\* only goes on for a pending device.
DashboardApproveCheck(r) ==
  /\ r.kind = "dashboard_approve"
  /\ status[r.dev] = "pending"
  /\ opReq' = (opReq \ {r}) \cup {[r EXCEPT !.kind = "dashboard_checked"]}
  /\ UNCHANGED <<deviceVars, credVars, leases, reVars, secret, account, devReq>>

\* What approve_device does not refuse.
ApprovableStatuses == {"pending", "denied", "approved"}

FaultApprovalReuses(d) == IF issued[d] = 0 THEN {1} ELSE {issued[d]}

\* The credential an approval signs: the unrevoked one if there is one, else
\* a new one.
ApprovalSerials(d) ==
  IF live[d] = {} THEN Serials \cap {issued[d] + 1} ELSE live[d]

\* approve_device.  The dashboard strips the signed credential from the
\* answer, the API and the mobile app return it.
approve_device(r, n) ==
  LET d == r.dev IN
  /\ r.kind \in {"approve", "dashboard_checked"}
  /\ status[d] \in ApprovableStatuses
  /\ status[d] # "approved" => MayManage(r.op)
  /\ NameFree(NewName(n, d), d)
  /\ status' = [status EXCEPT ![d] = "approved"]
  /\ name'   = [name EXCEPT ![d] = NewName(n, d)]
  /\ \E serial \in ApprovalSerials(d) :
       /\ issued' = [issued EXCEPT ![d] = IF serial > @ THEN serial ELSE @]
       /\ live'   = [live EXCEPT ![d] = @ \cup {serial}]
       /\ signed' = IF r.kind = "approve" THEN signed \cup {SignedFor(d, serial)}
                    ELSE signed
  /\ opReq'  = opReq \ {r}
  /\ UNCHANGED <<rid, key, poll, leases, reVars, secret, account, devReq>>

FaultDecidedFrom(s) == CASE s = "denied"  -> {"pending"}
                         [] s = "blocked" -> {"approved", "pending", "revoked"}
                         [] s = "revoked" -> {"approved"}

\* change_device_status: the statuses from which each decision is taken.
DecidedFrom(s) == CASE s = "denied"  -> {"pending"}
                    [] s = "blocked" -> {"approved", "pending"}
                    [] s = "revoked" -> {"approved"}

FaultTerminal == {"revoked"}
\* The decisions that also withdraw every authorization, request and lease.
Terminal == {"blocked", "revoked"}

Decision(kind) == CASE kind = "deny"   -> "denied"
                    [] kind = "block"  -> "blocked"
                    [] kind = "revoke" -> "revoked"

change_device_status(r) ==
  LET d == r.dev
      s == Decision(r.kind)
      final == s \in Terminal
  IN
  /\ r.kind \in {"deny", "block", "revoke"}
  /\ status[d] \in DecidedFrom(s)
  /\ MayManage(r.op)
  /\ status'  = [status EXCEPT ![d] = s]
  /\ live'    = [live EXCEPT ![d] = Surviving(d, s)]
  /\ leases'  = IF final THEN {l \in leases : l.dev # d} ELSE leases
  /\ auths'   = IF final THEN {a \in auths : a.dev # d} ELSE auths
  /\ request' = IF final THEN [request EXCEPT ![d] = "none"] ELSE request
  /\ opReq'   = opReq \ {r}
  /\ UNCHANGED <<rid, key, name, poll, issued, signed, secret, account, devReq>>

\* The new authorization replaces every unconsumed one of the device.
AuthsAfter(d, a) == {b \in auths : b.dev # d} \cup {a}

\* authorize_device_reenrollment.  Outside pending the poll window is
\* extended, so that the client's old token is accepted again.
authorize_device_reenrollment(r) ==
  LET d == r.dev
      a == [dev |-> d, by |-> r.op, for |-> status[d], fresh |-> TRUE]
  IN
  /\ r.kind = "authorize"
  /\ status[d] \in {"pending", "denied", "blocked"}
  /\ auths' = AuthsAfter(d, a)
  /\ poll'  = IF status[d] = "pending" THEN poll
              ELSE [poll EXCEPT ![d].fresh = TRUE]
  /\ opReq' = opReq \ {r}
  /\ UNCHANGED <<status, rid, key, name, credVars, leases, request, secret, account, devReq>>

\* The dashboard's delete: the row and everything that references it.
DeleteDevice(r) ==
  LET d == r.dev IN
  /\ r.kind = "delete"
  /\ status[d] \in {"blocked", "revoked"}
  /\ status'  = [status EXCEPT ![d] = "deleted"]
  /\ rid'     = [rid EXCEPT ![d] = None]
  /\ key'     = [key EXCEPT ![d] = None]
  /\ name'    = [name EXCEPT ![d] = None]
  /\ poll'    = [poll EXCEPT ![d] = NoToken]
  /\ live'    = [live EXCEPT ![d] = {}]
  /\ leases'  = {l \in leases : l.dev # d}
  /\ auths'   = {a \in auths : a.dev # d}
  /\ request' = [request EXCEPT ![d] = "none"]
  /\ opReq'   = opReq \ {r}
  /\ UNCHANGED <<issued, signed, secret, account, devReq>>

\* revoke_enrollment_secret, or the secret's own expiry.
CloseSecret ==
  /\ secret.open
  /\ secret' = [secret EXCEPT !.open = FALSE]
  /\ UNCHANGED <<deviceVars, credVars, leases, reVars, account, reqVars>>

-----------------------------------------------------------------------------
(* Operator accounts                                                        *)

OtherOwner(o) == \E p \in Operators \ {o} : IsOwner(p)

\* disable_operator_account and enable_operator_account refuse Owners.
SetActive(o, b) ==
  /\ account[o].role # "owner"
  /\ account[o].active # b
  /\ account' = [account EXCEPT ![o].active = b]
  /\ UNCHANGED <<deviceVars, credVars, leases, reVars, secret, reqVars>>

\* A completed role change: of an active account, by another active Owner; the
\* last active Owner stays.
ChangeRole(o, role) ==
  /\ account[o].active
  /\ role # account[o].role
  /\ OtherOwner(o)
  /\ account' = [account EXCEPT ![o].role = role]
  /\ UNCHANGED <<deviceVars, credVars, leases, reVars, secret, reqVars>>

-----------------------------------------------------------------------------
(* Requests of approved devices                                             *)

\* require_device: authenticated in a transaction of its own.
DeviceRequest(t, kind) ==
  /\ Cardinality(devReq) < MaxDevReq
  /\ Validates(t)
  /\ devReq' = devReq \cup {[kind |-> kind, dev |-> t.dev, serial |-> t.serial]}
  /\ UNCHANGED <<deviceVars, credVars, leases, reVars, secret, account, opReq>>

\* device_relay_lease: replaces the device's leases; nothing about the device
\* is checked again but that its row still exists.
device_relay_lease(q) ==
  /\ q.kind = "lease"
  /\ q.dev \in Present
  /\ leases' = {l \in leases : l.dev # q.dev}
                 \cup {[dev |-> q.dev, serial |-> q.serial, fresh |-> TRUE]}
  /\ devReq' = devReq \ {q}
  /\ UNCHANGED <<deviceVars, credVars, reVars, secret, account, opReq>>

\* device_heartbeat: slides the poll window and renames the device unless the
\* name is taken.
device_heartbeat(q, n) ==
  /\ q.kind = "heartbeat"
  /\ q.dev \in Present
  /\ poll' = [poll EXCEPT ![q.dev].fresh = TRUE]
  /\ name' = IF NameFree(n, q.dev) THEN [name EXCEPT ![q.dev] = NewName(n, q.dev)]
             ELSE name
  /\ devReq' = devReq \ {q}
  /\ UNCHANGED <<status, rid, key, credVars, leases, reVars, secret, account, opReq>>

-----------------------------------------------------------------------------
(* Refusals, lost workers and the passing of time                           *)

DropOperatorRequest(r) ==
  /\ opReq' = opReq \ {r}
  /\ UNCHANGED <<deviceVars, credVars, leases, reVars, secret, account, devReq>>

DropDeviceRequest(q) ==
  /\ devReq' = devReq \ {q}
  /\ UNCHANGED <<deviceVars, credVars, leases, reVars, secret, account, opReq>>

ExpirePoll(d) ==
  /\ poll[d].fresh
  /\ poll' = [poll EXCEPT ![d].fresh = FALSE]
  /\ UNCHANGED <<status, rid, key, name, credVars, leases, reVars, secret, account, reqVars>>

ExpireAuthorization(a) ==
  /\ a.fresh
  /\ auths' = (auths \ {a}) \cup {[a EXCEPT !.fresh = FALSE]}
  /\ UNCHANGED <<deviceVars, credVars, leases, request, secret, account, reqVars>>

ExpireRequest(d) ==
  /\ request[d] = "open"
  /\ request' = [request EXCEPT ![d] = "expired"]
  /\ UNCHANGED <<deviceVars, credVars, leases, auths, secret, account, reqVars>>

ExpireLease(l) ==
  /\ l.fresh
  /\ leases' = (leases \ {l}) \cup {[l EXCEPT !.fresh = FALSE]}
  /\ UNCHANGED <<deviceVars, credVars, reVars, secret, account, reqVars>>

-----------------------------------------------------------------------------
ClientStep ==
  \/ \E d \in Devices, i \in Rids, k \in Keys, n \in Names \cup {None}, got \in BOOLEAN :
       EnrollNew(d, i, k, n, got)
  \/ \E d \in Devices, k \in Keys, n \in Names \cup {None}, a \in auths, got \in BOOLEAN :
       EnrollAgain(d, k, n, a, got)
  \/ \E d \in Devices : request_device_reenrollment(d)
  \/ \E d \in Devices, k \in Keys, n \in Names \cup {None}, a \in auths, got \in BOOLEAN :
       complete_device_reenrollment(d, k, n, a, got)
  \/ \E d \in Devices : enrollment_status(d)
  \/ \E t \in signed, kind \in DevKinds : DeviceRequest(t, kind)
  \/ \E q \in devReq : device_relay_lease(q)
  \/ \E q \in devReq, n \in Names \cup {None} : device_heartbeat(q, n)

OperatorStep ==
  \/ \E kind \in ManagerKinds \cup OwnerKinds, o \in Operators, d \in Present :
       OperatorRequest(kind, o, d)
  \/ \E r \in opReq : DashboardApproveCheck(r)
  \/ \E r \in opReq, n \in Names \cup {None} : approve_device(r, n)
  \/ \E r \in opReq : change_device_status(r)
  \/ \E r \in opReq : authorize_device_reenrollment(r)
  \/ \E r \in opReq : DeleteDevice(r)
  \/ CloseSecret
  \/ \E o \in Operators, b \in BOOLEAN : SetActive(o, b)
  \/ \E o \in Operators, role \in Roles : ChangeRole(o, role)

EnvironmentStep ==
  \/ \E r \in opReq : DropOperatorRequest(r)
  \/ \E q \in devReq : DropDeviceRequest(q)
  \/ \E d \in Devices : ExpirePoll(d)
  \/ \E a \in auths : ExpireAuthorization(a)
  \/ \E d \in Devices : ExpireRequest(d)
  \/ \E l \in leases : ExpireLease(l)

Next == ClientStep \/ OperatorStep \/ EnvironmentStep

Spec == Init /\ [][Next]_vars

-----------------------------------------------------------------------------
(* Properties                                                               *)

\* A device has exactly one unrevoked credential while it is approved and none
\* otherwise, so approve_device never meets the unique index on unrevoked
\* credentials and a decision leaves nothing to authenticate with.
ApprovedIffCredentialed ==
  \A d \in Devices :
    /\ status[d] = "approved" => live[d] = {issued[d]}
    /\ status[d] # "approved" => live[d] = {}

\* Every credential ever signed carries a serial that was issued and, while the
\* serial is unrevoked, names the key on file: re-enrollment never changes the
\* key under a live credential and no serial is used twice.
CredentialBoundToKey ==
  \A t \in signed :
    /\ t.serial <= issued[t.dev]
    /\ t.serial \in live[t.dev] => t.key = key[t.dev]

\* The poll token of a row was handed out for the key on file, so a client
\* polling enrollment_status is never given a credential for another key.
PollTokenBoundToKey ==
  \A d \in Present : poll[d].key = key[d]

\* Credentials, keys and poll tokens belong together, through every decision,
\* re-enrollment and late request.
CredentialsConsistent == ApprovedIffCredentialed /\ CredentialBoundToKey /\ PollTokenBoundToKey

\* Every open authorization of a blocked device was granted after the block:
\* an authorization issued earlier cannot undo it.
BlockOutlivesOlderGrants ==
  \A a \in auths : status[a.dev] = "blocked" => a.for = "blocked"

\* A device never has two open authorizations, so one Owner decision admits at
\* most one return.
OneOpenAuthorization ==
  \A a, b \in auths : a.dev = b.dev => a = b

\* A revoked or deleted device has neither an open authorization nor an open
\* request: "no path may create" one and revoking withdraws the rest.
RevokedHasNoWayBack ==
  /\ \A a \in auths : status[a.dev] \in Rows \ {"revoked"}
  /\ \A d \in Devices : status[d] = "revoked" => request[d] = "none"

\* An authorization admits one return, and no decision made after it is undone
\* by it.
GrantsConsistent == BlockOutlivesOlderGrants /\ OneOpenAuthorization /\ RevokedHasNoWayBack

\* No two rows share a RustDesk id, a public key or a reserved name.
UniqueIdentities ==
  \A d, e \in Present : d # e =>
    /\ rid[d] # rid[e]
    /\ key[d] # key[e]
    /\ {status[d], status[e]} \subseteq {"pending", "approved", "blocked"} /\ name[d] # None
         => name[d] # name[e]

\* A revoked device only ever stays revoked or is deleted, whatever request
\* authenticated earlier is performed now.
RevokedIsTerminal ==
  [][\A d \in Devices : status[d] = "revoked" => status'[d] \in {"revoked", "deleted"}]_vars

\* A device comes back from denied or blocked only in a step that consumes an
\* authorization of an account that is an active Owner at that very step.
ReturnConsumesOwnerGrant ==
  [][\A d \in Devices :
       status[d] \in {"denied", "blocked"} /\ status'[d] = "pending" =>
         \E a \in auths \ auths' : a.dev = d /\ a.fresh /\ IsOwner(a.by)]_vars

\* "Denied clients cannot be approved directly": no approval that passed the
\* dashboard's check turns a denied device into an approved one.
DashboardNeverApprovesDenied ==
  [][\A r \in opReq \ opReq' :
       r.kind = "dashboard_checked" /\ status[r.dev] = "denied" =>
         status'[r.dev] # "approved"]_vars

-----------------------------------------------------------------------------
(* The abstract specification this module implements                        *)

CanAuthenticate == [d \in Devices |-> status[d] = "approved" /\ live[d] # {}]
HasOpenGrant    == [d \in Devices |-> \E a \in auths : a.dev = d]

Promise == INSTANCE ManagedAccess
             WITH st <- status, access <- CanAuthenticate, grant <- HasOpenGrant

\* Every behaviour of the handlers, triggers and clock is one of ManagedAccess:
\* access exactly while approved, back from denied or blocked only by using up a
\* grant, and no grant survives a block, a revocation or its own use.
KeepsPromise == Promise!Spec

=============================================================================
