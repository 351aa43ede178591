----------------------- MODULE DeviceLifecycleProofs -----------------------
(***************************************************************************)
(* Proofs about DeviceLifecycle, and about RelayGuard on top of it, for any*)
(* devices, ids, keys, names, operators and bounds.                        *)
(***************************************************************************)
EXTENDS RelayGuard, TLAPS

USE DEF Rows, Statuses, Roles, PollTokens, DevKinds, ManagerKinds, OwnerKinds, OpKinds

LEMMA TypeInit == Init => TypeOK
  BY NoneAssumption, OwnerAssumption, BoundAssumption
  DEF Init, TypeOK, NoToken, Serials

LEMMA PollUpdate ==
  ASSUME poll \in [Devices -> PollTokens], NEW d \in Devices, NEW b \in BOOLEAN,
         poll' = [poll EXCEPT ![d].fresh = b]
  PROVE  poll' \in [Devices -> PollTokens]
<1>1. [poll[d] EXCEPT !.fresh = b] \in PollTokens
  OBVIOUS
<1> QED BY <1>1

LEMMA TypeReturn ==
  ASSUME TypeOK, NEW d \in Devices, NEW k \in Keys, NEW n \in Names \cup {None},
         NEW a \in auths, NEW got \in BOOLEAN, d \in Present, ReturnToPending(d, k, n, a, got),
         secret' \in [open : BOOLEAN, uses : 0 .. MaxUses]
  PROVE  TypeOK'
<1> USE BoundAssumption DEF TypeOK, Serials
<1>1. poll' \in [Devices -> PollTokens]
  BY DEF ReturnToPending, NewToken
<1>2. name' \in [Devices -> Names \cup {None}]
  BY DEF ReturnToPending, NewName
<1>3. live' \in [Devices -> SUBSET Serials]
  BY DEF ReturnToPending, Surviving
<1>4. leases' \subseteq leases /\ auths' \subseteq auths
  BY DEF ReturnToPending
<1>5. /\ status' \in [Devices -> Statuses]
      /\ key' \in [Devices -> Keys \cup {None}]
      /\ request' \in [Devices -> {"none", "open", "expired"}]
      /\ UNCHANGED <<rid, issued, signed, account, opReq, devReq>>
      /\ \A e \in Devices : status'[e] \in Rows => rid'[e] \in Rids /\ key'[e] \in Keys
  BY DEF ReturnToPending, reqVars, Present
<1> QED BY <1>1, <1>2, <1>3, <1>4, <1>5

\* Every step of a client keeps the types of the tables it writes.
LEMMA TypeClient == ASSUME TypeOK, ClientStep PROVE TypeOK'
<1>1. ASSUME NEW d \in Devices, NEW i \in Rids, NEW k \in Keys,
             NEW n \in Names \cup {None}, NEW got \in BOOLEAN,
             EnrollNew(d, i, k, n, got)
      PROVE  TypeOK'
  BY <1>1, BoundAssumption
  DEF TypeOK, EnrollNew, NewToken, UseSecret, SecretAccepts, credVars, reVars, reqVars
<1>2. ASSUME NEW d \in Devices, NEW k \in Keys, NEW n \in Names \cup {None},
             NEW a \in auths, NEW got \in BOOLEAN, EnrollAgain(d, k, n, a, got)
      PROVE  TypeOK'
  <2>1. secret' \in [open : BOOLEAN, uses : 0 .. MaxUses]
    BY <1>2, BoundAssumption DEF TypeOK, EnrollAgain, SecretAccepts, UseSecret
  <2>2. d \in Present /\ ReturnToPending(d, k, n, a, got)
    BY <1>2 DEF EnrollAgain
  <2> QED BY <2>1, <2>2, TypeReturn
<1>3. ASSUME NEW d \in Devices, request_device_reenrollment(d)
      PROVE  TypeOK'
  BY <1>3 DEF TypeOK, request_device_reenrollment, deviceVars, credVars, reqVars
<1>4. ASSUME NEW d \in Devices, NEW k \in Keys, NEW n \in Names \cup {None},
             NEW a \in auths, NEW got \in BOOLEAN,
             complete_device_reenrollment(d, k, n, a, got)
      PROVE  TypeOK'
  <2>1. d \in Present /\ ReturnToPending(d, k, n, a, got)
    BY <1>4 DEF complete_device_reenrollment, PollAccepted
  <2>2. secret' \in [open : BOOLEAN, uses : 0 .. MaxUses]
    BY <1>4 DEF TypeOK, complete_device_reenrollment
  <2> QED BY <2>1, <2>2, TypeReturn
<1>5. ASSUME NEW d \in Devices, enrollment_status(d)
      PROVE  TypeOK'
  BY <1>5 DEF TypeOK, enrollment_status, SignedFor, deviceVars, reVars, reqVars
<1>6. ASSUME NEW t \in signed, NEW kind \in DevKinds, DeviceRequest(t, kind)
      PROVE  TypeOK'
  <2>1. [kind |-> kind, dev |-> t.dev, serial |-> t.serial]
           \in [kind : DevKinds, dev : Devices, serial : Serials]
    <3>1. t.dev \in Devices /\ t.serial \in Serials
      BY DEF TypeOK
    <3> QED BY <3>1
  <2> QED BY <1>6, <2>1 DEF TypeOK, DeviceRequest, deviceVars, credVars, reVars
<1>7. ASSUME NEW q \in devReq, device_relay_lease(q)
      PROVE  TypeOK'
  <2>1. [dev |-> q.dev, serial |-> q.serial, fresh |-> TRUE]
           \in [dev : Devices, serial : Serials, fresh : BOOLEAN]
    <3>1. q.dev \in Devices /\ q.serial \in Serials
      BY DEF TypeOK
    <3> QED BY <3>1
  <2>2. leases' \subseteq [dev : Devices, serial : Serials, fresh : BOOLEAN]
    BY <1>7, <2>1 DEF TypeOK, device_relay_lease
  <2> QED BY <1>7, <2>2 DEF TypeOK, device_relay_lease, deviceVars, credVars, reVars
<1>8. ASSUME NEW q \in devReq, NEW n \in Names \cup {None}, device_heartbeat(q, n)
      PROVE  TypeOK'
  <2>1. poll' \in [Devices -> PollTokens]
    BY <1>8, PollUpdate DEF TypeOK, device_heartbeat
  <2>2. name' \in [Devices -> Names \cup {None}]
    BY <1>8 DEF TypeOK, device_heartbeat, NewName
  <2> QED BY <1>8, <2>1, <2>2 DEF TypeOK, device_heartbeat, credVars, reVars
<1> QED BY <1>1, <1>2, <1>3, <1>4, <1>5, <1>6, <1>7, <1>8 DEF ClientStep

\* Every step of an operator keeps the types of the tables it writes.
LEMMA TypeOperator == ASSUME TypeOK, OperatorStep PROVE TypeOK'
<1>1. ASSUME NEW kind \in ManagerKinds \cup OwnerKinds, NEW o \in Operators,
             NEW d \in Present, OperatorRequest(kind, o, d)
      PROVE  TypeOK'
  BY <1>1 DEF TypeOK, OperatorRequest, Present, deviceVars, credVars, reVars
<1>2. ASSUME NEW r \in opReq, DashboardApproveCheck(r)
      PROVE  TypeOK'
  BY <1>2 DEF TypeOK, DashboardApproveCheck, deviceVars, credVars, reVars
<1>3. ASSUME NEW r \in opReq, NEW n \in Names \cup {None}, approve_device(r, n)
      PROVE  TypeOK'
  <2>1. PICK serial \in ApprovalSerials(r.dev) :
          /\ issued' = [issued EXCEPT ![r.dev] = IF serial > @ THEN serial ELSE @]
          /\ live'   = [live EXCEPT ![r.dev] = @ \cup {serial}]
          /\ signed' = IF r.kind = "approve" THEN signed \cup {SignedFor(r.dev, serial)}
                       ELSE signed
    BY <1>3 DEF approve_device
  <2>2. serial \in Serials /\ r.dev \in Devices
    BY DEF TypeOK, ApprovalSerials
  <2>3. /\ issued' \in [Devices -> 0 .. MaxSerial]
        /\ live' \in [Devices -> SUBSET Serials]
    BY <2>1, <2>2, BoundAssumption DEF TypeOK, Serials
  <2>4. key[r.dev] \in Keys
    BY <1>3 DEF TypeOK, approve_device, ApprovableStatuses
  <2>5. signed' \subseteq [dev : Devices, serial : Serials, key : Keys]
    BY <2>1, <2>2, <2>4 DEF TypeOK, SignedFor
  <2>6. /\ status' \in [Devices -> Statuses]
        /\ name' \in [Devices -> Names \cup {None}]
    BY <1>3 DEF TypeOK, approve_device, NewName
  <2>7. \A d \in Devices : status'[d] \in Rows => rid'[d] \in Rids /\ key'[d] \in Keys
    BY <1>3, <2>2 DEF TypeOK, approve_device, ApprovableStatuses
  <2>8. /\ opReq' \subseteq opReq
        /\ UNCHANGED <<rid, key, poll, leases, auths, request, secret, account, devReq>>
    BY <1>3 DEF approve_device, reVars
  <2> QED BY <2>3, <2>5, <2>6, <2>7, <2>8 DEF TypeOK
<1>4. ASSUME NEW r \in opReq, change_device_status(r)
      PROVE  TypeOK'
  <2>1. /\ Decision(r.kind) \in Rows
        /\ status[r.dev] \in Rows
        /\ r.dev \in Devices
    BY <1>4 DEF TypeOK, change_device_status, Decision, DecidedFrom
  <2>2. live' \in [Devices -> SUBSET Serials]
    BY <1>4 DEF TypeOK, change_device_status, Surviving
  <2> QED BY <1>4, <2>1, <2>2 DEF TypeOK, change_device_status
<1>5. ASSUME NEW r \in opReq, authorize_device_reenrollment(r)
      PROVE  TypeOK'
  <2>1. r.dev \in Devices /\ r.op \in Operators /\ status[r.dev] \in Rows
    BY <1>5 DEF TypeOK, authorize_device_reenrollment
  <2>2. poll' \in [Devices -> PollTokens]
    <3>1. \/ poll' = poll
          \/ poll' = [poll EXCEPT ![r.dev].fresh = TRUE]
      BY <1>5 DEF authorize_device_reenrollment
    <3> QED BY <2>1, <3>1, PollUpdate DEF TypeOK
  <2>3. [dev |-> r.dev, by |-> r.op, for |-> status[r.dev], fresh |-> TRUE]
           \in [dev : Devices, by : Operators, for : Rows, fresh : BOOLEAN]
    BY <2>1
  <2>4. auths' \subseteq [dev : Devices, by : Operators, for : Rows, fresh : BOOLEAN]
    BY <1>5, <2>3 DEF TypeOK, authorize_device_reenrollment, AuthsAfter
  <2>5. /\ opReq' \subseteq opReq
        /\ UNCHANGED <<status, rid, key, name, issued, live, signed, leases, request,
                       secret, account, devReq>>
    BY <1>5 DEF authorize_device_reenrollment, credVars
  <2> QED BY <2>2, <2>4, <2>5 DEF TypeOK
<1>6. ASSUME NEW r \in opReq, DeleteDevice(r)
      PROVE  TypeOK'
  BY <1>6 DEF TypeOK, DeleteDevice, NoToken
<1>7. CASE CloseSecret
  BY <1>7 DEF TypeOK, CloseSecret, deviceVars, credVars, reVars, reqVars
<1>8. ASSUME NEW o \in Operators, NEW b \in BOOLEAN, SetActive(o, b)
      PROVE  TypeOK'
  BY <1>8 DEF TypeOK, SetActive, deviceVars, credVars, reVars, reqVars
<1>9. ASSUME NEW o \in Operators, NEW role \in Roles, ChangeRole(o, role)
      PROVE  TypeOK'
  BY <1>9 DEF TypeOK, ChangeRole, deviceVars, credVars, reVars, reqVars
<1> QED BY <1>1, <1>2, <1>3, <1>4, <1>5, <1>6, <1>7, <1>8, <1>9 DEF OperatorStep

LEMMA TypeEnvironment == ASSUME TypeOK, EnvironmentStep PROVE TypeOK'
<1>1. ASSUME NEW r \in opReq, DropOperatorRequest(r) PROVE TypeOK'
  BY <1>1 DEF TypeOK, DropOperatorRequest, deviceVars, credVars, reVars
<1>2. ASSUME NEW q \in devReq, DropDeviceRequest(q) PROVE TypeOK'
  BY <1>2 DEF TypeOK, DropDeviceRequest, deviceVars, credVars, reVars
<1>3. ASSUME NEW d \in Devices, ExpirePoll(d) PROVE TypeOK'
  <2>1. poll' \in [Devices -> PollTokens]
    BY <1>3, PollUpdate DEF TypeOK, ExpirePoll
  <2> QED BY <1>3, <2>1 DEF TypeOK, ExpirePoll, credVars, reVars, reqVars
<1>4. ASSUME NEW a \in auths, ExpireAuthorization(a) PROVE TypeOK'
  BY <1>4 DEF TypeOK, ExpireAuthorization, deviceVars, credVars, reqVars
<1>5. ASSUME NEW d \in Devices, ExpireRequest(d) PROVE TypeOK'
  BY <1>5 DEF TypeOK, ExpireRequest, deviceVars, credVars, reqVars
<1>6. ASSUME NEW l \in leases, ExpireLease(l) PROVE TypeOK'
  BY <1>6 DEF TypeOK, ExpireLease, deviceVars, credVars, reVars, reqVars
<1> QED BY <1>1, <1>2, <1>3, <1>4, <1>5, <1>6 DEF EnvironmentStep

\* Whatever clients, operators and time do, every table keeps its type, and a
\* row that exists has an id and a key.
THEOREM TypeCorrect == Spec => []TypeOK
<1>1. TypeOK /\ UNCHANGED vars => TypeOK'
  BY DEF TypeOK, vars
<1>2. TypeOK /\ [Next]_vars => TypeOK'
  BY <1>1, TypeClient, TypeOperator, TypeEnvironment DEF Next
<1> QED BY TypeInit, <1>2, PTL DEF Spec

-----------------------------------------------------------------------------
(* Credentials                                                              *)

\* CredentialsConsistent is inductive: a key can change only under a device
\* without unrevoked credentials, and a new serial is larger than every serial
\* signed before.

LEMMA CredentialReturn ==
  ASSUME TypeOK, CredentialsConsistent, NEW d \in Devices, NEW k \in Keys,
         NEW n \in Names \cup {None}, NEW a \in auths, NEW got \in BOOLEAN,
         d \in Present, ReturnToPending(d, k, n, a, got)
  PROVE  CredentialsConsistent'
<1>1. /\ status' = [status EXCEPT ![d] = "pending"]
      /\ key' = [key EXCEPT ![d] = k]
      /\ live' = [live EXCEPT ![d] = {}]
      /\ poll' = [poll EXCEPT ![d] = [key |-> k, held |-> got, fresh |-> TRUE]]
      /\ UNCHANGED <<issued, signed>>
  BY DEF ReturnToPending, Surviving, NewToken
<1>2. ApprovedIffCredentialed'
  BY <1>1 DEF TypeOK, CredentialsConsistent, ApprovedIffCredentialed
<1>3. CredentialBoundToKey'
  BY <1>1 DEF TypeOK, CredentialsConsistent, CredentialBoundToKey
<1>4. PollTokenBoundToKey'
  BY <1>1 DEF TypeOK, CredentialsConsistent, PollTokenBoundToKey, Present
<1> QED BY <1>2, <1>3, <1>4 DEF CredentialsConsistent

LEMMA CredentialStep == ASSUME TypeOK, CredentialsConsistent, [Next]_vars PROVE CredentialsConsistent'
<1> USE DEF CredentialsConsistent
<1>1. ASSUME NEW d \in Devices, NEW i \in Rids, NEW k \in Keys,
             NEW n \in Names \cup {None}, NEW got \in BOOLEAN,
             EnrollNew(d, i, k, n, got)
      PROVE  CredentialsConsistent'
  BY <1>1 DEF TypeOK, EnrollNew, NewToken, credVars, ApprovedIffCredentialed,
              CredentialBoundToKey, PollTokenBoundToKey, Present
<1>2. ASSUME NEW d \in Devices, NEW k \in Keys, NEW n \in Names \cup {None},
             NEW a \in auths, NEW got \in BOOLEAN,
             \/ EnrollAgain(d, k, n, a, got)
             \/ complete_device_reenrollment(d, k, n, a, got)
      PROVE  CredentialsConsistent'
  <2>1. d \in Present /\ ReturnToPending(d, k, n, a, got)
    BY <1>2 DEF EnrollAgain, complete_device_reenrollment, PollAccepted
  <2> QED BY <2>1, CredentialReturn
<1>3. ASSUME NEW d \in Devices, enrollment_status(d)
      PROVE  CredentialsConsistent'
  <2>1. PICK n \in live[d] : signed' = signed \cup {SignedFor(d, n)}
    BY <1>3 DEF enrollment_status
  <2>2. n = issued[d] /\ n \in Nat
    BY <1>3, BoundAssumption DEF TypeOK, ApprovedIffCredentialed, enrollment_status, Serials
  <2> QED BY <1>3, <2>1, <2>2
          DEF TypeOK, enrollment_status, SignedFor, deviceVars, ApprovedIffCredentialed,
              CredentialBoundToKey, PollTokenBoundToKey, Present
<1>4. ASSUME NEW r \in opReq, NEW n \in Names \cup {None}, approve_device(r, n)
      PROVE  CredentialsConsistent'
  <2> DEFINE d == r.dev
  <2>1. PICK serial \in ApprovalSerials(d) :
          /\ issued' = [issued EXCEPT ![d] = IF serial > @ THEN serial ELSE @]
          /\ live'   = [live EXCEPT ![d] = @ \cup {serial}]
          /\ signed' = IF r.kind = "approve" THEN signed \cup {SignedFor(d, serial)}
                       ELSE signed
    BY <1>4 DEF approve_device
  <2>2. d \in Devices /\ issued[d] \in Nat /\ serial \in Nat
    BY BoundAssumption DEF TypeOK, ApprovalSerials, Serials
  <2>3. /\ status' = [status EXCEPT ![d] = "approved"]
        /\ status[d] \in Rows
        /\ UNCHANGED <<key, poll>>
    BY <1>4 DEF approve_device, ApprovableStatuses
  <2>4. /\ issued'[d] = serial
        /\ live'[d] = {serial}
        /\ issued[d] <= serial
        /\ serial # issued[d] => live[d] = {} /\ serial = issued[d] + 1
        /\ serial = issued[d] => live[d] = {serial}
    <3>1. CASE live[d] = {}
      BY <2>1, <2>2, <3>1 DEF TypeOK, ApprovalSerials, Serials
    <3>2. CASE live[d] # {}
      BY <2>1, <2>2, <3>2 DEF TypeOK, ApprovalSerials, ApprovedIffCredentialed
    <3> QED BY <3>1, <3>2
  <2>5. ApprovedIffCredentialed'
    BY <2>1, <2>2, <2>3, <2>4 DEF TypeOK, ApprovedIffCredentialed
  <2>6. PollTokenBoundToKey'
    BY <2>2, <2>3 DEF TypeOK, PollTokenBoundToKey, Present
  <2>7. CredentialBoundToKey'
    <3> SUFFICES ASSUME NEW t \in signed'
                 PROVE  /\ t.serial <= issued'[t.dev]
                        /\ t.serial \in live'[t.dev] => t.key = key'[t.dev]
      BY DEF CredentialBoundToKey
    <3>1. CASE t \in signed /\ t.dev = d
      <4>1. t.serial \in Nat /\ t.serial <= issued[d]
        BY <3>1, BoundAssumption DEF TypeOK, CredentialBoundToKey, Serials
      <4> QED BY <2>2, <2>3, <2>4, <3>1, <4>1 DEF CredentialBoundToKey
    <3>2. CASE t \in signed /\ t.dev # d
      BY <2>1, <2>2, <2>3, <3>2 DEF TypeOK, CredentialBoundToKey
    <3>3. CASE t = SignedFor(d, serial)
      BY <2>2, <2>3, <2>4, <3>3 DEF SignedFor
    <3> QED BY <2>1, <3>1, <3>2, <3>3
  <2> QED BY <2>5, <2>6, <2>7
<1>5. ASSUME NEW r \in opReq, change_device_status(r)
      PROVE  CredentialsConsistent'
  <2>1. /\ r.dev \in Devices /\ status[r.dev] \in Rows
        /\ Decision(r.kind) \in Rows \ {"approved"}
    BY <1>5 DEF TypeOK, change_device_status, Decision, DecidedFrom
  <2>2. /\ status' = [status EXCEPT ![r.dev] = Decision(r.kind)]
        /\ live' = [live EXCEPT ![r.dev] = {}]
        /\ UNCHANGED <<key, poll, issued, signed>>
    BY <1>5, <2>1 DEF change_device_status, Surviving
  <2>3. ApprovedIffCredentialed'
    BY <2>1, <2>2 DEF TypeOK, ApprovedIffCredentialed
  <2>4. CredentialBoundToKey'
    BY <2>1, <2>2 DEF TypeOK, CredentialBoundToKey
  <2>5. PollTokenBoundToKey'
    BY <2>1, <2>2 DEF TypeOK, PollTokenBoundToKey, Present
  <2> QED BY <2>3, <2>4, <2>5
<1>6. ASSUME NEW r \in opReq, DeleteDevice(r)
      PROVE  CredentialsConsistent'
  BY <1>6 DEF TypeOK, DeleteDevice, NoToken, ApprovedIffCredentialed, CredentialBoundToKey,
              PollTokenBoundToKey, Present
<1>7. CASE /\ UNCHANGED <<status, key, issued, live, signed>>
           /\ \A d \in Devices : poll'[d].key = poll[d].key
  BY <1>7 DEF ApprovedIffCredentialed, CredentialBoundToKey, PollTokenBoundToKey, Present
<1>8. ASSUME NEW r \in opReq, authorize_device_reenrollment(r)
      PROVE  CredentialsConsistent'
  BY <1>7, <1>8 DEF TypeOK, authorize_device_reenrollment, credVars
<1>9. ASSUME NEW q \in devReq, NEW n \in Names \cup {None}, device_heartbeat(q, n)
      PROVE  CredentialsConsistent'
  BY <1>7, <1>9 DEF TypeOK, device_heartbeat, credVars
<1>10. ASSUME NEW d \in Devices, ExpirePoll(d)
       PROVE  CredentialsConsistent'
  BY <1>7, <1>10 DEF TypeOK, ExpirePoll, credVars
<1>11. CASE UNCHANGED <<status, key, poll, issued, live, signed>>
  BY <1>7, <1>11
<1> QED
  BY <1>1, <1>2, <1>3, <1>4, <1>5, <1>6, <1>8, <1>9, <1>10, <1>11
  DEF Next, ClientStep, OperatorStep, EnvironmentStep, vars, deviceVars, credVars,
      request_device_reenrollment, DeviceRequest, device_relay_lease, OperatorRequest,
      DashboardApproveCheck, CloseSecret, SetActive, ChangeRole, DropOperatorRequest,
      DropDeviceRequest, ExpireAuthorization, ExpireRequest, ExpireLease

\* For every instance: an approved device has exactly one unrevoked credential
\* and every other device none; no signed credential that is still unrevoked
\* names a key that was replaced; the poll token belongs to the key on file.
THEOREM CredentialsSound == Spec => []CredentialsConsistent
<1>1. Init => CredentialsConsistent
  BY DEF Init, CredentialsConsistent, ApprovedIffCredentialed, CredentialBoundToKey,
         PollTokenBoundToKey, Present
<1> QED BY TypeCorrect, CredentialStep, <1>1, PTL DEF Spec

-----------------------------------------------------------------------------
(* Re-enrollment authorizations                                             *)

\* The three facts hold together: an authorization belongs to a row that is not
\* revoked, so a row that appears or returns brings no older grant with it.

LEMMA GrantReturn ==
  ASSUME TypeOK, GrantsConsistent, NEW d \in Devices, NEW k \in Keys,
         NEW n \in Names \cup {None}, NEW a \in auths, NEW got \in BOOLEAN,
         ReturnToPending(d, k, n, a, got)
  PROVE  GrantsConsistent'
  BY DEF TypeOK, ReturnToPending, GrantsConsistent, BlockOutlivesOlderGrants,
         OneOpenAuthorization, RevokedHasNoWayBack

LEMMA GrantStep == ASSUME TypeOK, GrantsConsistent, [Next]_vars PROVE GrantsConsistent'
<1> USE DEF GrantsConsistent, BlockOutlivesOlderGrants, OneOpenAuthorization, RevokedHasNoWayBack
<1>1. ASSUME NEW d \in Devices, NEW i \in Rids, NEW k \in Keys,
             NEW n \in Names \cup {None}, NEW got \in BOOLEAN,
             EnrollNew(d, i, k, n, got)
      PROVE  GrantsConsistent'
  BY <1>1 DEF TypeOK, EnrollNew, reVars
<1>2. ASSUME NEW d \in Devices, NEW k \in Keys, NEW n \in Names \cup {None},
             NEW a \in auths, NEW got \in BOOLEAN,
             \/ EnrollAgain(d, k, n, a, got)
             \/ complete_device_reenrollment(d, k, n, a, got)
      PROVE  GrantsConsistent'
  <2>1. ReturnToPending(d, k, n, a, got)
    BY <1>2 DEF EnrollAgain, complete_device_reenrollment
  <2> QED BY <2>1, GrantReturn
<1>3. ASSUME NEW d \in Devices, request_device_reenrollment(d)
      PROVE  GrantsConsistent'
  BY <1>3 DEF TypeOK, request_device_reenrollment, deviceVars
<1>4. ASSUME NEW r \in opReq, NEW n \in Names \cup {None}, approve_device(r, n)
      PROVE  GrantsConsistent'
  BY <1>4 DEF TypeOK, approve_device, ApprovableStatuses, reVars
<1>5. ASSUME NEW r \in opReq, change_device_status(r)
      PROVE  GrantsConsistent'
  <2>1. CASE r.kind = "deny"
    <3>1. /\ r.dev \in Devices
          /\ status[r.dev] = "pending"
          /\ status' = [status EXCEPT ![r.dev] = "denied"]
          /\ UNCHANGED <<auths, request>>
      BY <1>5, <2>1 DEF TypeOK, change_device_status, Decision, DecidedFrom, Terminal
    <3> QED BY <3>1 DEF TypeOK
  <2>2. CASE r.kind \in {"block", "revoke"}
    <3>1. /\ r.dev \in Devices
          /\ status' = [status EXCEPT ![r.dev] = Decision(r.kind)]
          /\ auths' = {a \in auths : a.dev # r.dev}
          /\ request' = [request EXCEPT ![r.dev] = "none"]
      BY <1>5, <2>2 DEF TypeOK, change_device_status, Decision, Terminal
    <3> QED BY <3>1 DEF TypeOK
  <2> QED BY <1>5, <2>1, <2>2 DEF change_device_status
<1>6. ASSUME NEW r \in opReq, authorize_device_reenrollment(r)
      PROVE  GrantsConsistent'
  <2> DEFINE g == [dev |-> r.dev, by |-> r.op, for |-> status[r.dev], fresh |-> TRUE]
  <2>1. /\ auths' = {b \in auths : b.dev # r.dev} \cup {g}
        /\ status[r.dev] \in {"pending", "denied", "blocked"}
        /\ UNCHANGED <<status, request>>
    BY <1>6 DEF authorize_device_reenrollment, AuthsAfter
  <2>2. g.dev = r.dev /\ g.for = status[r.dev]
    OBVIOUS
  <2>3. \A b \in auths' : b = g \/ (b \in auths /\ b.dev # r.dev)
    BY <2>1
  <2> HIDE DEF g
  <2> QED BY <2>1, <2>2, <2>3
<1>7. ASSUME NEW r \in opReq, DeleteDevice(r)
      PROVE  GrantsConsistent'
  BY <1>7 DEF TypeOK, DeleteDevice
<1>8. ASSUME NEW a \in auths, ExpireAuthorization(a)
      PROVE  GrantsConsistent'
  <2> DEFINE g == [a EXCEPT !.fresh = FALSE]
  <2>1. g.dev = a.dev /\ g.for = a.for
    BY DEF TypeOK
  <2>2. /\ auths' = (auths \ {a}) \cup {g}
        /\ UNCHANGED <<status, request>>
    BY <1>8 DEF ExpireAuthorization, deviceVars
  <2> HIDE DEF g
  <2> QED BY <2>1, <2>2
<1>9. ASSUME NEW d \in Devices, ExpireRequest(d)
      PROVE  GrantsConsistent'
  BY <1>9 DEF TypeOK, ExpireRequest, deviceVars
<1>10. CASE UNCHANGED <<status, auths, request>>
  BY <1>10
<1> QED
  BY <1>1, <1>2, <1>3, <1>4, <1>5, <1>6, <1>7, <1>8, <1>9, <1>10
  DEF Next, ClientStep, OperatorStep, EnvironmentStep, vars, deviceVars, reVars,
      enrollment_status, DeviceRequest, device_relay_lease, device_heartbeat,
      OperatorRequest, DashboardApproveCheck, CloseSecret, SetActive, ChangeRole,
      DropOperatorRequest, DropDeviceRequest, ExpirePoll, ExpireLease

\* For every instance: a block is undone only by an authorization granted after
\* it, a device never has two open authorizations, and a revoked or deleted
\* device has none.
THEOREM GrantsSound == Spec => []GrantsConsistent
<1>1. Init => GrantsConsistent
  BY DEF Init, GrantsConsistent, BlockOutlivesOlderGrants, OneOpenAuthorization, RevokedHasNoWayBack
<1> QED BY TypeCorrect, GrantStep, <1>1, PTL DEF Spec

-----------------------------------------------------------------------------
(* Identities                                                               *)

\* Steps that change one row keep identities apart if the new id, key and name
\* are no other row's.
LEMMA IdentityUpdate ==
  ASSUME TypeOK, UniqueIdentities, NEW d \in Devices,
         \A e \in Devices \ {d} : /\ status'[e] = status[e] /\ rid'[e] = rid[e]
                                  /\ key'[e] = key[e] /\ name'[e] = name[e],
         status'[d] \in Rows => \A e \in Present \ {d} : rid'[d] # rid[e] /\ key'[d] # key[e],
         status'[d] \in ReservingStatuses => NameFree(name'[d], d)
  PROVE  UniqueIdentities'
<1> SUFFICES ASSUME NEW e \in Present', NEW f \in Present', e # f
             PROVE  /\ rid'[e] # rid'[f]
                    /\ key'[e] # key'[f]
                    /\ {status'[e], status'[f]} \subseteq {"pending", "approved", "blocked"}
                         /\ name'[e] # None => name'[e] # name'[f]
  BY DEF UniqueIdentities
<1> USE DEF Present, ReservingStatuses
<1>1. CASE e = d
  BY <1>1 DEF NameFree
<1>2. CASE f = d
  BY <1>2 DEF NameFree
<1>3. CASE e # d /\ f # d
  BY <1>3 DEF UniqueIdentities
<1> QED BY <1>1, <1>2, <1>3

\* A row that keeps its id, key and name keeps them apart unless it comes to
\* reserve its name.
LEMMA IdentityKept ==
  ASSUME TypeOK, UniqueIdentities, UNCHANGED <<rid, key, name>>, NEW d \in Devices, NEW s,
         status' = [status EXCEPT ![d] = s], status[d] \in Rows,
         s \in ReservingStatuses => status[d] \in ReservingStatuses
  PROVE  UniqueIdentities'
  BY DEF TypeOK, UniqueIdentities, Present, ReservingStatuses

LEMMA IdentityStep == ASSUME TypeOK, UniqueIdentities, [Next]_vars PROVE UniqueIdentities'
<1>1. ASSUME NEW d \in Devices, NEW i \in Rids, NEW k \in Keys,
             NEW n \in Names \cup {None}, NEW got \in BOOLEAN,
             EnrollNew(d, i, k, n, got)
      PROVE  UniqueIdentities'
  <2>1. \A e \in Present \ {d} : i # rid[e] /\ k # key[e]
    BY <1>1 DEF EnrollNew, Duplicates
  <2>2. /\ rid'[d] = i /\ key'[d] = k /\ name'[d] = n /\ NameFree(n, d)
        /\ \A e \in Devices \ {d} : /\ status'[e] = status[e] /\ rid'[e] = rid[e]
                                    /\ key'[e] = key[e] /\ name'[e] = name[e]
    BY <1>1 DEF TypeOK, EnrollNew
  <2> QED BY <2>1, <2>2, IdentityUpdate
<1>2. ASSUME NEW d \in Devices, NEW k \in Keys, NEW n \in Names \cup {None},
             NEW a \in auths, NEW got \in BOOLEAN,
             \/ EnrollAgain(d, k, n, a, got)
             \/ complete_device_reenrollment(d, k, n, a, got)
      PROVE  UniqueIdentities'
  <2>1. d \in Present /\ ReturnToPending(d, k, n, a, got) /\ NameFree(NewName(n, d), d)
    BY <1>2 DEF EnrollAgain, complete_device_reenrollment, PollAccepted
  <2>2. \A e \in Present \ {d} : k # key[e]
    BY <1>2 DEF EnrollAgain, complete_device_reenrollment, Duplicates
  <2>3. /\ rid' = rid /\ key'[d] = k /\ name'[d] = NewName(n, d)
        /\ \A e \in Devices \ {d} : /\ status'[e] = status[e]
                                    /\ key'[e] = key[e] /\ name'[e] = name[e]
    BY <2>1 DEF TypeOK, ReturnToPending
  <2>4. \A e \in Present \ {d} : rid'[d] # rid[e]
    BY <2>1, <2>3 DEF UniqueIdentities
  <2> QED BY <2>1, <2>2, <2>3, <2>4, IdentityUpdate
<1>3. ASSUME NEW r \in opReq, NEW n \in Names \cup {None}, approve_device(r, n)
      PROVE  UniqueIdentities'
  <2> DEFINE d == r.dev
  <2>1. /\ d \in Devices /\ d \in Present /\ NameFree(NewName(n, d), d)
        /\ UNCHANGED <<rid, key>> /\ name' = [name EXCEPT ![d] = NewName(n, d)]
        /\ status' = [status EXCEPT ![d] = "approved"]
    BY <1>3 DEF TypeOK, approve_device, ApprovableStatuses, Present
  <2>2. /\ name'[d] = NewName(n, d)
        /\ \A e \in Devices \ {d} : status'[e] = status[e] /\ name'[e] = name[e]
    BY <2>1 DEF TypeOK
  <2>3. \A e \in Present \ {d} : rid'[d] # rid[e] /\ key'[d] # key[e]
    BY <2>1 DEF UniqueIdentities
  <2> HIDE DEF d
  <2> QED BY <2>1, <2>2, <2>3, IdentityUpdate
<1>4. ASSUME NEW r \in opReq, change_device_status(r)
      PROVE  UniqueIdentities'
  <2>1. r.dev \in Devices /\ status[r.dev] \in Rows
    BY <1>4 DEF TypeOK, change_device_status, Decision, DecidedFrom
  <2>2. Decision(r.kind) \in ReservingStatuses => status[r.dev] \in ReservingStatuses
    BY <1>4 DEF change_device_status, Decision, DecidedFrom, ReservingStatuses
  <2>3. UNCHANGED <<rid, key, name>> /\ status' = [status EXCEPT ![r.dev] = Decision(r.kind)]
    BY <1>4 DEF change_device_status
  <2> QED BY <2>1, <2>2, <2>3, IdentityKept
<1>5. ASSUME NEW r \in opReq, DeleteDevice(r)
      PROVE  UniqueIdentities'
  BY <1>5 DEF TypeOK, DeleteDevice, UniqueIdentities, Present
<1>6. CASE UNCHANGED <<status, rid, key, name>>
  BY <1>6 DEF UniqueIdentities, Present
<1>7. ASSUME NEW q \in devReq, NEW n \in Names \cup {None}, device_heartbeat(q, n)
      PROVE  UniqueIdentities'
  <2> DEFINE d == q.dev
  <2>1. d \in Devices /\ d \in Present /\ UNCHANGED <<status, rid, key>>
    BY <1>7 DEF TypeOK, device_heartbeat
  <2>2. CASE name' = name
    BY <1>6, <2>1, <2>2
  <2>3. CASE n # None /\ NameFree(n, d) /\ name' = [name EXCEPT ![d] = n]
    <3>1. name'[d] = n /\ \A e \in Devices \ {d} : name'[e] = name[e]
      BY <2>1, <2>3 DEF TypeOK
    <3>2. \A e \in Present \ {d} : rid'[d] # rid[e] /\ key'[d] # key[e]
      BY <2>1 DEF UniqueIdentities
    <3> HIDE DEF d
    <3> QED BY <2>1, <2>3, <3>1, <3>2, IdentityUpdate
  <2> QED BY <1>7, <2>2, <2>3 DEF TypeOK, device_heartbeat, NewName
<1>8. ASSUME NEW r \in opReq, authorize_device_reenrollment(r)
      PROVE  UniqueIdentities'
  BY <1>6, <1>8 DEF authorize_device_reenrollment
<1> QED
  BY <1>1, <1>2, <1>3, <1>4, <1>5, <1>6, <1>7, <1>8
  DEF Next, ClientStep, OperatorStep, EnvironmentStep, vars, deviceVars,
      request_device_reenrollment, enrollment_status, DeviceRequest, device_relay_lease,
      OperatorRequest, DashboardApproveCheck, CloseSecret, SetActive, ChangeRole,
      DropOperatorRequest, DropDeviceRequest, ExpirePoll, ExpireAuthorization, ExpireRequest,
      ExpireLease

\* For any number of clients that enroll, return with a new key, are renamed,
\* denied and approved again: no two rows share an id, a key or a reserved name.
THEOREM IdentitiesUnique == Spec => []UniqueIdentities
<1>1. Init => UniqueIdentities
  BY DEF Init, UniqueIdentities, Present
<1> QED BY TypeCorrect, IdentityStep, <1>1, PTL DEF Spec

-----------------------------------------------------------------------------
(* What a step may never do                                                 *)

\* For every instance, no request performed late turns a revoked device into
\* anything but a deleted one.
THEOREM RevocationIsTerminal == Spec => RevokedIsTerminal
<1>1. ASSUME TypeOK, [Next]_vars
      PROVE  \A d \in Devices : status[d] = "revoked" => status'[d] \in {"revoked", "deleted"}
  <2> SUFFICES ASSUME NEW d \in Devices, status[d] = "revoked"
               PROVE  status'[d] \in {"revoked", "deleted"}
    OBVIOUS
  <2>1. ASSUME NEW e \in Devices, NEW s, status' = [status EXCEPT ![e] = s],
               status[e] # "revoked" \/ s = "deleted"
        PROVE  status'[d] \in {"revoked", "deleted"}
    BY <2>1 DEF TypeOK
  <2>2. ASSUME NEW e \in Devices, NEW i \in Rids, NEW k \in Keys,
               NEW n \in Names \cup {None}, NEW got \in BOOLEAN,
               EnrollNew(e, i, k, n, got)
        PROVE  status'[d] \in {"revoked", "deleted"}
    BY <2>1, <2>2 DEF EnrollNew
  <2>3. ASSUME NEW e \in Devices, NEW k \in Keys, NEW n \in Names \cup {None},
               NEW a \in auths, NEW got \in BOOLEAN,
               \/ EnrollAgain(e, k, n, a, got)
               \/ complete_device_reenrollment(e, k, n, a, got)
        PROVE  status'[d] \in {"revoked", "deleted"}
    BY <2>1, <2>3 DEF EnrollAgain, complete_device_reenrollment, ReturnToPending,
                      RecoverableStatuses
  <2>4. ASSUME NEW r \in opReq, NEW n \in Names \cup {None}, approve_device(r, n)
        PROVE  status'[d] \in {"revoked", "deleted"}
    BY <2>1, <2>4 DEF TypeOK, approve_device, ApprovableStatuses
  <2>5. ASSUME NEW r \in opReq, change_device_status(r)
        PROVE  status'[d] \in {"revoked", "deleted"}
    BY <2>1, <2>5 DEF TypeOK, change_device_status, DecidedFrom, Decision
  <2>6. ASSUME NEW r \in opReq, DeleteDevice(r)
        PROVE  status'[d] \in {"revoked", "deleted"}
    BY <2>1, <2>6 DEF TypeOK, DeleteDevice
  <2>7. CASE UNCHANGED status
    BY <2>7
  <2> QED
    BY <1>1, <2>2, <2>3, <2>4, <2>5, <2>6, <2>7
    DEF Next, ClientStep, OperatorStep, EnvironmentStep, vars, deviceVars,
        request_device_reenrollment, enrollment_status, DeviceRequest, device_relay_lease,
        device_heartbeat, OperatorRequest, DashboardApproveCheck,
        authorize_device_reenrollment, CloseSecret, SetActive, ChangeRole,
        DropOperatorRequest, DropDeviceRequest, ExpirePoll, ExpireAuthorization,
        ExpireRequest, ExpireLease
<1> QED BY TypeCorrect, <1>1, PTL DEF Spec, RevokedIsTerminal

\* For every instance, a denied or blocked device is pending again only in a
\* step that uses up an unexpired authorization of an account that is an active
\* Owner in that step, whoever held which role when it was granted.
THEOREM ReturnsUseAGrant == Spec => ReturnConsumesOwnerGrant
<1> DEFINE Back(d) == status[d] \in {"denied", "blocked"} /\ status'[d] = "pending"
           Used(d) == \E a \in auths \ auths' : a.dev = d /\ a.fresh /\ IsOwner(a.by)
<1>1. ASSUME TypeOK, [Next]_vars, NEW d \in Devices, Back(d) PROVE Used(d)
  <2>1. ASSUME NEW e \in Devices, NEW s, status' = [status EXCEPT ![e] = s]
        PROVE  e = d /\ s = "pending"
    BY <1>1, <2>1 DEF TypeOK
  <2>2. ASSUME NEW e \in Devices, NEW i \in Rids, NEW k \in Keys,
               NEW n \in Names \cup {None}, NEW got \in BOOLEAN,
               EnrollNew(e, i, k, n, got)
        PROVE  FALSE
    BY <1>1, <2>1, <2>2 DEF EnrollNew
  <2>3. ASSUME NEW e \in Devices, NEW k \in Keys, NEW n \in Names \cup {None},
               NEW a \in auths, NEW got \in BOOLEAN,
               \/ EnrollAgain(e, k, n, a, got)
               \/ complete_device_reenrollment(e, k, n, a, got)
        PROVE  Used(d)
    <3>1. e = d
      BY <2>1, <2>3 DEF EnrollAgain, complete_device_reenrollment, ReturnToPending
    <3>2. a \notin auths' /\ a.dev = e /\ a.fresh /\ IsOwner(a.by)
      BY <2>3 DEF EnrollAgain, complete_device_reenrollment, ReturnToPending, Usable
    <3> QED BY <3>1, <3>2
  <2>4. ASSUME NEW r \in opReq, NEW n \in Names \cup {None}, approve_device(r, n)
        PROVE  FALSE
    BY <1>1, <2>1, <2>4 DEF TypeOK, approve_device
  <2>5. ASSUME NEW r \in opReq, change_device_status(r) PROVE FALSE
    BY <1>1, <2>1, <2>5 DEF TypeOK, change_device_status, Decision
  <2>6. ASSUME NEW r \in opReq, DeleteDevice(r) PROVE FALSE
    BY <1>1, <2>1, <2>6 DEF TypeOK, DeleteDevice
  <2>7. ~ UNCHANGED status
    BY <1>1
  <2> QED
    BY <1>1, <2>2, <2>3, <2>4, <2>5, <2>6, <2>7
    DEF Next, ClientStep, OperatorStep, EnvironmentStep, vars, deviceVars,
        request_device_reenrollment, enrollment_status, DeviceRequest, device_relay_lease,
        device_heartbeat, OperatorRequest, DashboardApproveCheck,
        authorize_device_reenrollment, CloseSecret, SetActive, ChangeRole,
        DropOperatorRequest, DropDeviceRequest, ExpirePoll, ExpireAuthorization,
        ExpireRequest, ExpireLease
<1>2. ASSUME TypeOK, [Next]_vars PROVE \A d \in Devices : Back(d) => Used(d)
  BY <1>1, <1>2
<1> QED BY TypeCorrect, <1>2, PTL DEF Spec, ReturnConsumesOwnerGrant

-----------------------------------------------------------------------------
(* Refinement                                                               *)

\* What one abstract step has to do, in terms of the tables.
LEMMA Becomes ==
  ASSUME TypeOK, TypeOK', NEW d \in Devices, NEW s, NEW mayEnter \in BOOLEAN,
         NEW granted \in BOOLEAN,
         status' = [status EXCEPT ![d] = s],
         \A e \in Devices \ {d} : live'[e] = live[e],
         (status'[d] = "approved" /\ live'[d] # {}) = mayEnter,
         \A e \in Devices \ {d} :
           (\E a \in auths' : a.dev = e) = (\E a \in auths : a.dev = e),
         (\E a \in auths' : a.dev = d) = granted
  PROVE  Promise!Becomes(d, s, mayEnter, granted)
<1>1. CanAuthenticate' = [CanAuthenticate EXCEPT ![d] = mayEnter]
  BY DEF TypeOK, CanAuthenticate
<1>2. HasOpenGrant' = [HasOpenGrant EXCEPT ![d] = granted]
  BY DEF TypeOK, HasOpenGrant
<1> QED BY <1>1, <1>2 DEF Promise!Becomes

LEMMA ReturnRefines ==
  ASSUME TypeOK, TypeOK', CredentialsConsistent, GrantsConsistent, NEW d \in Devices, NEW k \in Keys,
         NEW n \in Names \cup {None}, NEW a \in auths, NEW got \in BOOLEAN,
         a.dev = d, status[d] \in {"pending", "denied", "blocked"},
         ReturnToPending(d, k, n, a, got)
  PROVE  Promise!Return(d)
<1>1. /\ status' = [status EXCEPT ![d] = "pending"]
      /\ live' = [live EXCEPT ![d] = {}]
      /\ auths' = auths \ {a}
  BY DEF ReturnToPending, Surviving
<1>2. \A b \in auths : b.dev = d => b = a
  BY DEF GrantsConsistent, OneOpenAuthorization
<1>3. HasOpenGrant[d]
  BY DEF HasOpenGrant
<1>4. Promise!Becomes(d, "pending", FALSE, FALSE)
  <2>1. /\ \A e \in Devices \ {d} : live'[e] = live[e]
        /\ (status'[d] = "approved" /\ live'[d] # {}) = FALSE
    BY <1>1 DEF TypeOK
  <2>2. \A e \in Devices \ {d} :
          (\E b \in auths' : b.dev = e) = (\E b \in auths : b.dev = e)
    BY <1>1
  <2>3. (\E b \in auths' : b.dev = d) = FALSE
    BY <1>1, <1>2
  <2> QED BY <1>1, <2>1, <2>2, <2>3, Becomes
<1> QED BY <1>3, <1>4 DEF Promise!Return

\* Every step of the handlers is a step of ManagedAccess or leaves its
\* variables alone.
LEMMA PromiseStep ==
  ASSUME TypeOK, TypeOK', CredentialsConsistent, CredentialsConsistent', GrantsConsistent, [Next]_vars
  PROVE  [Promise!Next]_(Promise!pvars)
<1>1. ASSUME NEW d \in Devices, NEW i \in Rids, NEW k \in Keys,
             NEW n \in Names \cup {None}, NEW got \in BOOLEAN,
             EnrollNew(d, i, k, n, got)
      PROVE  Promise!Next
  <2>1. /\ status[d] = "absent"
        /\ status' = [status EXCEPT ![d] = "pending"]
        /\ UNCHANGED <<live, auths>>
    BY <1>1 DEF EnrollNew, credVars, reVars
  <2>2. (status'[d] = "approved" /\ live'[d] # {}) = FALSE
    BY <2>1 DEF TypeOK
  <2>3. (\E a \in auths' : a.dev = d) = FALSE
    BY <2>1 DEF GrantsConsistent, RevokedHasNoWayBack
  <2>4. Promise!Becomes(d, "pending", FALSE, FALSE)
    BY <2>1, <2>2, <2>3, Becomes
  <2> QED BY <2>1, <2>4 DEF Promise!Next, Promise!Enroll
<1>2. ASSUME NEW d \in Devices, NEW k \in Keys, NEW n \in Names \cup {None},
             NEW a \in auths, NEW got \in BOOLEAN,
             \/ EnrollAgain(d, k, n, a, got)
             \/ complete_device_reenrollment(d, k, n, a, got)
      PROVE  Promise!Next
  <2>1. /\ a.dev = d /\ status[d] \in {"pending", "denied", "blocked"}
        /\ ReturnToPending(d, k, n, a, got)
    BY <1>2 DEF EnrollAgain, complete_device_reenrollment, RecoverableStatuses
  <2>2. Promise!Return(d)
    BY <2>1, ReturnRefines
  <2> QED BY <2>2 DEF Promise!Next
<1>3. ASSUME NEW r \in opReq, NEW n \in Names \cup {None}, approve_device(r, n)
      PROVE  Promise!Next \/ UNCHANGED Promise!pvars
  <2> DEFINE d == r.dev
  <2>1. /\ d \in Devices
        /\ status[d] \in {"pending", "denied", "approved"}
        /\ status' = [status EXCEPT ![d] = "approved"]
        /\ UNCHANGED auths
    BY <1>3 DEF TypeOK, approve_device, ApprovableStatuses, reVars
  <2>2. \A e \in Devices \ {d} : live'[e] = live[e]
    BY <1>3 DEF TypeOK, approve_device
  <2>3. status'[d] = "approved" /\ live'[d] # {}
    <3>1. status'[d] = "approved"
      BY <2>1 DEF TypeOK
    <3>2. live'[d] = {issued'[d]}
      BY <2>1, <3>1 DEF CredentialsConsistent, ApprovedIffCredentialed
    <3> QED BY <3>1, <3>2
  <2>4. CASE status[d] = "approved"
    <3>1. live[d] # {}
      BY <2>1, <2>4 DEF CredentialsConsistent, ApprovedIffCredentialed
    <3>2. status' = status
      BY <2>1, <2>4 DEF TypeOK
    <3>3. CanAuthenticate' = CanAuthenticate /\ HasOpenGrant' = HasOpenGrant
      BY <2>1, <2>2, <2>3, <2>4, <3>1, <3>2 DEF CanAuthenticate, HasOpenGrant
    <3> QED BY <3>2, <3>3 DEF Promise!pvars
  <2>5. CASE status[d] # "approved"
    <3> DEFINE g == \E a \in auths : a.dev = d
    <3>1. g = HasOpenGrant[d] /\ g \in BOOLEAN
      BY <2>1 DEF HasOpenGrant
    <3>2. Promise!Becomes(d, "approved", TRUE, g)
      <4>1. (status'[d] = "approved" /\ live'[d] # {}) = TRUE
        BY <2>3
      <4>2. (\E a \in auths' : a.dev = d) = g
        BY <2>1
      <4>3. \A e \in Devices \ {d} :
              (\E a \in auths' : a.dev = e) = (\E a \in auths : a.dev = e)
        BY <2>1
      <4> HIDE DEF g
      <4> QED BY <2>1, <2>2, <3>1, <4>1, <4>2, <4>3, Becomes
    <3>3. Promise!Becomes(d, "approved", TRUE, HasOpenGrant[d])
      BY <3>1, <3>2
    <3> QED BY <2>1, <2>5, <3>3 DEF Promise!Next, Promise!Approve
  <2> QED BY <2>4, <2>5
<1>4. ASSUME NEW r \in opReq, change_device_status(r)
      PROVE  Promise!Next
  <2> DEFINE d == r.dev
             s == Decision(r.kind)
  <2>1. /\ d \in Devices /\ s \in {"denied", "blocked", "revoked"}
        /\ status[d] \in DecidedFrom(s)
        /\ status' = [status EXCEPT ![d] = s]
        /\ live' = [live EXCEPT ![d] = {}]
    BY <1>4 DEF TypeOK, change_device_status, Decision, Surviving
  <2>2. /\ \A e \in Devices \ {d} : live'[e] = live[e]
        /\ (status'[d] = "approved" /\ live'[d] # {}) = FALSE
    BY <2>1 DEF TypeOK
  <2>3. CASE s = "denied"
    <3> DEFINE g == \E a \in auths : a.dev = d
    <3>1. UNCHANGED auths
      BY <1>4, <2>3 DEF change_device_status, Terminal
    <3>2. g = HasOpenGrant[d] /\ g \in BOOLEAN
      BY <2>1 DEF HasOpenGrant
    <3>3. Promise!Becomes(d, "denied", FALSE, g)
      BY <2>1, <2>2, <2>3, <3>1, Becomes
    <3>4. Promise!Becomes(d, "denied", FALSE, HasOpenGrant[d])
      BY <3>2, <3>3
    <3> QED BY <2>1, <2>3, <3>4 DEF Promise!Next, Promise!Deny, DecidedFrom
  <2>4. CASE s \in {"blocked", "revoked"}
    <3>1. auths' = {a \in auths : a.dev # d}
      BY <1>4, <2>4 DEF change_device_status, Terminal
    <3>2. /\ \A e \in Devices \ {d} :
               (\E a \in auths' : a.dev = e) = (\E a \in auths : a.dev = e)
          /\ (\E a \in auths' : a.dev = d) = FALSE
      BY <3>1
    <3>3. Promise!Becomes(d, s, FALSE, FALSE)
      BY <2>1, <2>2, <3>2, Becomes
    <3> QED BY <2>1, <2>4, <3>3
            DEF Promise!Next, Promise!Block, Promise!Revoke, DecidedFrom
  <2> QED BY <2>1, <2>3, <2>4
<1>5. ASSUME NEW r \in opReq, authorize_device_reenrollment(r)
      PROVE  Promise!Next
  <2> DEFINE d == r.dev
             b == [dev |-> r.dev, by |-> r.op, for |-> status[r.dev], fresh |-> TRUE]
  <2>1. /\ d \in Devices
        /\ status[d] \in {"pending", "denied", "blocked"}
        /\ UNCHANGED <<status, live>>
        /\ auths' = {a \in auths : a.dev # d} \cup {b}
    BY <1>5 DEF TypeOK, authorize_device_reenrollment, AuthsAfter, credVars
  <2>2. b.dev = d
    OBVIOUS
  <2>3. /\ \A e \in Devices \ {d} :
             (\E a \in auths' : a.dev = e) = (\E a \in auths : a.dev = e)
        /\ (\E a \in auths' : a.dev = d) = TRUE
    <3> HIDE DEF b
    <3> QED BY <2>1, <2>2
  <2>4. /\ status' = [status EXCEPT ![d] = status[d]]
        /\ \A e \in Devices \ {d} : live'[e] = live[e]
        /\ (status'[d] = "approved" /\ live'[d] # {}) = FALSE
    BY <2>1 DEF TypeOK
  <2>5. Promise!Becomes(d, status[d], FALSE, TRUE)
    BY <2>1, <2>3, <2>4, Becomes
  <2> QED BY <2>1, <2>5 DEF Promise!Next, Promise!Grant
<1>6. ASSUME NEW r \in opReq, DeleteDevice(r)
      PROVE  Promise!Next
  <2> DEFINE d == r.dev
  <2>1. /\ d \in Devices
        /\ status[d] \in {"blocked", "revoked"}
        /\ status' = [status EXCEPT ![d] = "deleted"]
        /\ live' = [live EXCEPT ![d] = {}]
        /\ auths' = {a \in auths : a.dev # d}
    BY <1>6 DEF TypeOK, DeleteDevice
  <2>2. /\ \A e \in Devices \ {d} : live'[e] = live[e]
        /\ (status'[d] = "approved" /\ live'[d] # {}) = FALSE
    BY <2>1 DEF TypeOK
  <2>3. /\ \A e \in Devices \ {d} :
             (\E a \in auths' : a.dev = e) = (\E a \in auths : a.dev = e)
        /\ (\E a \in auths' : a.dev = d) = FALSE
    BY <2>1
  <2>4. Promise!Becomes(d, "deleted", FALSE, FALSE)
    BY <2>1, <2>2, <2>3, Becomes
  <2> QED BY <2>1, <2>4 DEF Promise!Next, Promise!Delete
<1>7. ASSUME NEW a \in auths, ExpireAuthorization(a)
      PROVE  UNCHANGED Promise!pvars
  <2> DEFINE b == [a EXCEPT !.fresh = FALSE]
  <2>1. /\ auths' = (auths \ {a}) \cup {b}
        /\ UNCHANGED <<status, live>>
    BY <1>7 DEF ExpireAuthorization, deviceVars, credVars
  <2>2. b.dev = a.dev
    BY DEF TypeOK
  <2>3. \A d \in Devices : (\E c \in auths' : c.dev = d) = (\E c \in auths : c.dev = d)
    <3> HIDE DEF b
    <3> QED BY <2>1, <2>2
  <2> QED BY <2>1, <2>3 DEF Promise!pvars, CanAuthenticate, HasOpenGrant
<1>8. CASE UNCHANGED <<status, live, auths>>
  BY <1>8 DEF Promise!pvars, CanAuthenticate, HasOpenGrant
<1> QED
  BY <1>1, <1>2, <1>3, <1>4, <1>5, <1>6, <1>7, <1>8
  DEF Next, ClientStep, OperatorStep, EnvironmentStep, vars, deviceVars, credVars, reVars,
      request_device_reenrollment, enrollment_status, DeviceRequest, device_relay_lease,
      device_heartbeat, OperatorRequest, DashboardApproveCheck, CloseSecret, SetActive,
      ChangeRole, DropOperatorRequest, DropDeviceRequest, ExpirePoll, ExpireRequest,
      ExpireLease

\* For every instance, DeviceLifecycle implements ManagedAccess.
THEOREM ImplementsManagedAccess == Spec => KeepsPromise
<1>1. Init => Promise!Init
  BY DEF Init, Promise!Init, CanAuthenticate, HasOpenGrant
<1>2. Spec => [](CredentialsConsistent /\ GrantsConsistent)
  BY CredentialsSound, GrantsSound, PTL DEF CredentialsConsistent, GrantsConsistent
<1> QED BY <1>1, <1>2, TypeCorrect, PromiseStep, PTL DEF Spec, KeepsPromise, Promise!Spec

-----------------------------------------------------------------------------
(* The relay guard                                                          *)

\* A lease, and a request for one, carries a serial that was issued, so a later
\* approval, which issues a larger one, does not bring it back to life.
SerialsIssued ==
  /\ \A l \in leases : l.serial <= issued[l.dev]
  /\ \A q \in devReq : q.serial <= issued[q.dev]

\* What the query for usable leases can return.
UsableLeased == UsableDevices \subseteq leased

\* Serials are only ever issued, and only an approval that finds none issues one.
LEMMA IssuedGrows ==
  ASSUME TypeOK, CredentialsConsistent, Next
  PROVE  \A d \in Devices :
           /\ issued[d] <= issued'[d]
           /\ live'[d] \subseteq live[d] \/ (live[d] = {} /\ live'[d] = {issued[d] + 1})
<1> SUFFICES ASSUME NEW d \in Devices
             PROVE  /\ issued[d] <= issued'[d]
                    /\ live'[d] \subseteq live[d] \/ (live[d] = {} /\ live'[d] = {issued[d] + 1})
  OBVIOUS
<1>0. issued[d] \in Nat
  BY BoundAssumption DEF TypeOK
<1>1. ASSUME NEW e \in Devices, live' = [live EXCEPT ![e] = {}], issued' = issued
      PROVE  issued[d] <= issued'[d] /\ live'[d] \subseteq live[d]
  BY <1>0, <1>1 DEF TypeOK
<1>2. ASSUME NEW e \in Devices, NEW k \in Keys, NEW n \in Names \cup {None},
             NEW a \in auths, NEW got \in BOOLEAN,
             \/ EnrollAgain(e, k, n, a, got)
             \/ complete_device_reenrollment(e, k, n, a, got)
      PROVE  issued[d] <= issued'[d] /\ live'[d] \subseteq live[d]
  BY <1>1, <1>2 DEF EnrollAgain, complete_device_reenrollment, ReturnToPending, Surviving
<1>3. ASSUME NEW r \in opReq, NEW n \in Names \cup {None}, approve_device(r, n)
      PROVE  /\ issued[d] <= issued'[d]
             /\ live'[d] \subseteq live[d] \/ (live[d] = {} /\ live'[d] = {issued[d] + 1})
  <2>1. PICK serial \in ApprovalSerials(r.dev) :
          /\ issued' = [issued EXCEPT ![r.dev] = IF serial > @ THEN serial ELSE @]
          /\ live'   = [live EXCEPT ![r.dev] = @ \cup {serial}]
    BY <1>3 DEF approve_device
  <2>2. r.dev \in Devices /\ serial \in Nat
    BY BoundAssumption DEF TypeOK, ApprovalSerials, Serials
  <2>3. issued[d] <= issued'[d]
    BY <1>0, <2>1, <2>2 DEF TypeOK
  <2>4. CASE r.dev # d
    BY <2>1, <2>2, <2>3, <2>4 DEF TypeOK
  <2>5. CASE r.dev = d /\ live[d] = {}
    <3>1. serial = issued[d] + 1
      BY <2>5 DEF ApprovalSerials
    <3> QED BY <2>1, <2>3, <2>5, <3>1 DEF TypeOK
  <2>6. CASE r.dev = d /\ live[d] # {}
    <3>1. serial \in live[d]
      BY <2>6 DEF ApprovalSerials
    <3> QED BY <2>1, <2>3, <2>6, <3>1 DEF TypeOK
  <2> QED BY <2>4, <2>5, <2>6
<1>4. ASSUME NEW r \in opReq, change_device_status(r)
      PROVE  issued[d] <= issued'[d] /\ live'[d] \subseteq live[d]
  <2>1. r.dev \in Devices /\ Surviving(r.dev, Decision(r.kind)) = {}
    BY <1>4 DEF TypeOK, change_device_status, Decision, Surviving
  <2> QED BY <1>1, <1>4, <2>1 DEF change_device_status
<1>5. ASSUME NEW r \in opReq, DeleteDevice(r)
      PROVE  issued[d] <= issued'[d] /\ live'[d] \subseteq live[d]
  BY <1>1, <1>5 DEF DeleteDevice, TypeOK
<1>6. CASE UNCHANGED <<issued, live>>
  BY <1>0, <1>6
<1> QED
  BY <1>2, <1>3, <1>4, <1>5, <1>6
  DEF Next, ClientStep, OperatorStep, EnvironmentStep, credVars, EnrollNew,
      request_device_reenrollment, enrollment_status, DeviceRequest, device_relay_lease,
      device_heartbeat, OperatorRequest, DashboardApproveCheck,
      authorize_device_reenrollment, CloseSecret, SetActive, ChangeRole,
      DropOperatorRequest, DropDeviceRequest, ExpirePoll, ExpireAuthorization,
      ExpireRequest, ExpireLease

\* Where leases and requests for them come from.
LEMMA LeaseOrigin ==
  ASSUME TypeOK, Next
  PROVE  /\ \A l \in leases' :
              \/ l \in leases
              \/ \E k \in leases : l.dev = k.dev /\ l.serial = k.serial /\ ~l.fresh
              \/ \E q \in devReq \ devReq' :
                   q.kind = "lease" /\ q.dev = l.dev /\ q.serial = l.serial
         /\ \A q \in devReq' : q \in devReq \/ (q.serial \in live[q.dev] /\ q.dev \in Devices)
<1> DEFINE Origin ==
      \A l \in leases' :
        \/ l \in leases
        \/ \E k \in leases : l.dev = k.dev /\ l.serial = k.serial /\ ~l.fresh
        \/ \E q \in devReq \ devReq' :
             q.kind = "lease" /\ q.dev = l.dev /\ q.serial = l.serial
           Asked == \A q \in devReq' : q \in devReq \/ (q.serial \in live[q.dev] /\ q.dev \in Devices)
<1> SUFFICES Origin /\ Asked
  OBVIOUS
<1>1. CASE leases' \subseteq leases /\ devReq' \subseteq devReq
  BY <1>1
<1>2. ASSUME NEW e \in Devices, NEW k \in Keys, NEW n \in Names \cup {None},
             NEW a \in auths, NEW got \in BOOLEAN,
             \/ EnrollAgain(e, k, n, a, got)
             \/ complete_device_reenrollment(e, k, n, a, got)
      PROVE  leases' \subseteq leases /\ devReq' \subseteq devReq
  BY <1>2 DEF EnrollAgain, complete_device_reenrollment, ReturnToPending, reqVars
<1>3. ASSUME NEW t \in signed, NEW kind \in DevKinds, DeviceRequest(t, kind)
      PROVE  Origin /\ Asked
  BY <1>3 DEF DeviceRequest, Validates, TypeOK
<1>4. ASSUME NEW r \in opReq, change_device_status(r) \/ DeleteDevice(r)
      PROVE  leases' \subseteq leases /\ devReq' \subseteq devReq
  BY <1>4 DEF change_device_status, DeleteDevice
<1>5. ASSUME NEW q \in devReq, device_relay_lease(q)
      PROVE  Origin /\ Asked
  BY <1>5 DEF device_relay_lease
<1>6. ASSUME NEW l \in leases, ExpireLease(l)
      PROVE  Origin /\ Asked
  BY <1>6 DEF ExpireLease, reqVars, TypeOK
<1>7. ASSUME NEW q \in devReq, NEW n \in Names \cup {None}, device_heartbeat(q, n)
      PROVE  leases' \subseteq leases /\ devReq' \subseteq devReq
  BY <1>7 DEF device_heartbeat
<1> HIDE DEF Origin, Asked
<1>8. CASE UNCHANGED <<leases, devReq>>
  BY <1>1, <1>8
<1>9. CASE ClientStep
  BY <1>1, <1>2, <1>3, <1>5, <1>7, <1>8, <1>9
     DEF ClientStep, reqVars, EnrollNew, request_device_reenrollment, enrollment_status
<1>10. CASE OperatorStep
  BY <1>1, <1>4, <1>8, <1>10
     DEF OperatorStep, reqVars, OperatorRequest, DashboardApproveCheck, approve_device,
         authorize_device_reenrollment, CloseSecret, SetActive, ChangeRole
<1>11. CASE EnvironmentStep
  BY <1>1, <1>6, <1>8, <1>11
     DEF EnvironmentStep, reqVars, DropOperatorRequest, DropDeviceRequest, ExpirePoll, ExpireAuthorization, ExpireRequest
<1> QED BY <1>9, <1>10, <1>11 DEF Next

GuardInv == TypeOK /\ CredentialsConsistent /\ SerialsIssued /\ UsableLeased

LEMMA GuardDirectoryStep == ASSUME GuardInv, DirectoryStep PROVE GuardInv'
<1> USE DEF GuardInv
<1>1. TypeOK' /\ CredentialsConsistent'
  BY TypeClient, TypeOperator, TypeEnvironment, CredentialStep DEF DirectoryStep, Next
<1>2. \A d \in Devices : issued[d] \in Nat /\ issued'[d] \in Nat
  BY <1>1, BoundAssumption DEF TypeOK
<1>3. /\ \A l \in leases \cup leases' : l.dev \in Devices /\ l.serial \in Nat
      /\ \A q \in devReq \cup devReq' : q.dev \in Devices /\ q.serial \in Nat
  BY <1>1, BoundAssumption DEF TypeOK, Serials
<1>4. Next
  BY DEF DirectoryStep
<1>5. SerialsIssued'
  <2>1. \A d \in Devices : \A s \in live[d] : s = issued[d]
    BY DEF CredentialsConsistent, ApprovedIffCredentialed
  <2>2. \A d \in Devices : issued[d] <= issued'[d]
    BY <1>4, IssuedGrows
  <2>3. ASSUME NEW l \in leases' PROVE l.serial <= issued[l.dev]
    BY <1>4, LeaseOrigin DEF SerialsIssued
  <2>4. ASSUME NEW q \in devReq' PROVE q.serial <= issued[q.dev]
    BY <1>2, <1>3, <1>4, <2>1, LeaseOrigin DEF SerialsIssued
  <2>5. ASSUME NEW l \in leases' PROVE l.serial <= issued'[l.dev]
    BY <1>2, <1>3, <2>2, <2>3
  <2>6. ASSUME NEW q \in devReq' PROVE q.serial <= issued'[q.dev]
    BY <1>2, <1>3, <2>2, <2>4
  <2> QED BY <2>5, <2>6 DEF SerialsIssued
<1>6. UsableLeased'
  <2> SUFFICES ASSUME NEW l \in leases', LeaseUsable(l)' PROVE l.dev \in leased'
    BY DEF UsableLeased, UsableDevices
  <2> DEFINE d == l.dev
  <2>1. d \in Devices /\ l.fresh /\ status'[d] = "approved" /\ l.serial \in live'[d]
    BY <1>3 DEF LeaseUsable
  <2>2. l.serial <= issued[d]
    BY <1>4, LeaseOrigin DEF SerialsIssued
  <2>3. l.serial \in live[d]
    <3>1. l.serial # issued[d] + 1
      BY <1>2, <1>3, <2>1, <2>2
    <3> QED BY <1>4, <2>1, <3>1, IssuedGrows
  <2>4. status[d] = "approved"
    BY <2>1, <2>3 DEF CredentialsConsistent, ApprovedIffCredentialed
  <2>5. CASE l \in leases
    <3>1. d \in leased
      BY <2>1, <2>3, <2>4, <2>5 DEF UsableLeased, UsableDevices, LeaseUsable
    <3> QED BY <2>1, <2>4, <3>1 DEF DirectoryStep
  <2>6. CASE l \notin leases
    <3>1. \E q \in devReq \ devReq' : q.kind = "lease" /\ q.dev = l.dev /\ q.serial = l.serial
      BY <1>4, <2>1, <2>6, LeaseOrigin
    <3>2. leases' # leases
      BY <2>6
    <3> QED BY <2>1, <2>3, <3>1, <3>2 DEF DirectoryStep
  <2> QED BY <2>5, <2>6
<1> QED BY <1>1, <1>5, <1>6

LEMMA GuardInvStep == ASSUME GuardInv, [GuardNext]_allVars PROVE GuardInv'
<1> USE DEF GuardInv
<1>1. CASE UNCHANGED <<vars, leased>>
  BY <1>1 DEF vars, TypeOK, CredentialsConsistent, ApprovedIffCredentialed, CredentialBoundToKey,
              PollTokenBoundToKey, Present, SerialsIssued, UsableLeased, UsableDevices, LeaseUsable
<1>2. CASE CleanupExpired
  <2>1. /\ leases' \subseteq leases
        /\ UNCHANGED <<status, rid, key, name, poll, issued, live, signed, auths, request,
                       secret, account, opReq, devReq, leased>>
    BY <1>2 DEF CleanupExpired, deviceVars, credVars, reVars, reqVars
  <2>2. TypeOK'
    BY <2>1 DEF TypeOK
  <2>3. CredentialsConsistent'
    BY <2>1 DEF CredentialsConsistent, ApprovedIffCredentialed, CredentialBoundToKey,
                PollTokenBoundToKey, Present
  <2> QED BY <2>1, <2>2, <2>3 DEF SerialsIssued, UsableLeased, UsableDevices, LeaseUsable
<1> QED
  BY <1>1, <1>2, GuardDirectoryStep
  DEF GuardNext, GuardStep, FailSafe, ReadMode, CreateTable, QueryLeases, LoadSets,
      ElementTimeout, DatabaseSwitch, ModeSwitch, TableLost, DaemonRestart, allVars

\* For every instance the daemon only ever loads devices that were granted a
\* lease since their present approval, however long a request for one has been
\* on its way and wherever the database and the daemon fail.
THEOREM GuardAdmitsCurrentLeases == GuardSpec => AdmitsOnlyCurrentLeases
<1>1. GuardInit => GuardInv
  <2>1. Init => CredentialsConsistent
    BY DEF Init, CredentialsConsistent, ApprovedIffCredentialed, CredentialBoundToKey,
           PollTokenBoundToKey, Present
  <2>2. Init => SerialsIssued
    BY DEF Init, SerialsIssued
  <2>3. Init => UsableLeased
    BY DEF Init, UsableLeased, UsableDevices
  <2> QED BY TypeInit, <2>1, <2>2, <2>3 DEF GuardInit, GuardInv
<1>2. ASSUME GuardInv, [GuardNext]_allVars
      PROVE  at = "query" /\ at' = "load" => rows' \subseteq leased
  <2> SUFFICES ASSUME at = "query", at' = "load" PROVE rows' \subseteq leased
    OBVIOUS
  <2>1. QueryLeases
    BY <1>2 DEF GuardNext, GuardStep, FailSafe, ReadMode, CreateTable, LoadSets, CleanupExpired,
                ElementTimeout, DatabaseSwitch, ModeSwitch, TableLost, DaemonRestart,
                DirectoryStep, guardVars, allVars
  <2> QED BY <1>2, <2>1 DEF QueryLeases, GuardInv, UsableLeased
<1>3. GuardInit /\ [][GuardNext]_allVars => AdmitsOnlyCurrentLeases
  BY <1>1, <1>2, GuardInvStep, PTL DEF AdmitsOnlyCurrentLeases
<1> QED BY <1>3, PTL DEF GuardSpec

=============================================================================
