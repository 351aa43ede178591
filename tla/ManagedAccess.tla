---------------------------- MODULE ManagedAccess ----------------------------
(***************************************************************************)
(* What the directory promises about a managed device, with no request, no *)
(* credential table and no clock: the statuses it passes through, whether  *)
(* it can authenticate, and whether an Owner's permission to come back is  *)
(* outstanding.  DeviceLifecycle implements it.                            *)
(***************************************************************************)
CONSTANT Devices

VARIABLES
  st,       \* status of the device
  access,   \* it can authenticate
  grant     \* permission to return is outstanding

pvars == <<st, access, grant>>

Init ==
  /\ st     = [d \in Devices |-> "absent"]
  /\ access = [d \in Devices |-> FALSE]
  /\ grant  = [d \in Devices |-> FALSE]

Becomes(d, s, mayEnter, granted) ==
  /\ st'     = [st EXCEPT ![d] = s]
  /\ access' = [access EXCEPT ![d] = mayEnter]
  /\ grant'  = [grant EXCEPT ![d] = granted]

Enroll(d)  == st[d] = "absent" /\ Becomes(d, "pending", FALSE, FALSE)
Approve(d) == st[d] \in {"pending", "denied"} /\ Becomes(d, "approved", TRUE, grant[d])
Deny(d)    == st[d] = "pending" /\ Becomes(d, "denied", FALSE, grant[d])
Block(d)   == st[d] \in {"pending", "approved"} /\ Becomes(d, "blocked", FALSE, FALSE)
Revoke(d)  == st[d] = "approved" /\ Becomes(d, "revoked", FALSE, FALSE)
Grant(d)   == st[d] \in {"pending", "denied", "blocked"} /\ Becomes(d, st[d], FALSE, TRUE)
Return(d)  == /\ st[d] \in {"pending", "denied", "blocked"}
              /\ grant[d]
              /\ Becomes(d, "pending", FALSE, FALSE)
Delete(d)  == st[d] \in {"blocked", "revoked"} /\ Becomes(d, "deleted", FALSE, FALSE)

Next == \E d \in Devices :
  \/ Enroll(d) \/ Approve(d) \/ Deny(d) \/ Block(d)
  \/ Revoke(d) \/ Grant(d) \/ Return(d) \/ Delete(d)

Spec == Init /\ [][Next]_pvars

=============================================================================
