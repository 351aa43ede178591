---------------------------- MODULE MCRelayGuard ----------------------------
(* RelayGuard for TLC, on one device and one Owner. *)
EXTENDS RelayGuard

\* Expiry of poll tokens, authorizations and the secret, and the client's
\* requests to return, do not touch leases: left out here.
LeasesOnly ==
  /\ secret.open
  /\ \A d \in Devices : request[d] = "none" /\ (status[d] \in Rows => poll[d].fresh /\ poll[d].held)
  /\ \A a \in auths : a.fresh
  /\ \A q \in devReq : q.kind = "lease"
  /\ \A r \in opReq : r.kind \notin {"dashboard_approve", "deny"}

=============================================================================
