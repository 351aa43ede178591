------------------------- MODULE MCDeviceLifecycle -------------------------
(* Instances of DeviceLifecycle for TLC: devices, keys and ids are symmetric. *)
EXTENDS DeviceLifecycle, TLC

Symmetry ==
  Permutations(Devices) \cup Permutations(Keys) \cup Permutations(Rids)
    \cup Permutations(Operators \ {FirstOwner})

\* Two devices compete for names, keys and ids.  Leases, requests, expiry and
\* the second operator play no part in that.
DevicesCompete ==
  /\ leases = {} /\ secret.open
  /\ \A q \in devReq : q.kind = "heartbeat"
  /\ \A d \in Devices : request[d] = "none" /\ (status[d] \in Rows => poll[d].fresh)
  /\ \A a \in auths : a.fresh
  /\ \A r \in opReq : r.op = FirstOwner
  /\ \A o \in Operators : account[o].active /\ (account[o].role = "owner" <=> o = FirstOwner)

\* Two operators, whose roles and activity change, act on one nameless device.
OperatorsChange ==
  /\ \E d \in Devices : \A e \in Devices \ {d} : status[e] = "absent"
  /\ \A d \in Devices : name[d] = None
  /\ leases = {} /\ devReq = {}

\* The two questions are independent: nothing mixes them.
OneQuestion == DevicesCompete \/ OperatorsChange

=============================================================================
