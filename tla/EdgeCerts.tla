----------------------------- MODULE EdgeCerts -----------------------------
(***************************************************************************)
(* Edge certificates (edge_certs.py): client certificates that Cloudflare   *)
(* signs, and RDS records in edge_client_certs.  The database and           *)
(* Cloudflare share no transaction: a certificate is signed before it is    *)
(* recorded and revoked at Cloudflare before the database says so, and a    *)
(* request that fails half-way rolls back only the database.                *)
(***************************************************************************)
EXTENDS Naturals, FiniteSets

CONSTANTS
  CertDevices, CertOperators,
  Certs,         \* certificates Cloudflare may issue
  Tasks,         \* requests that can be in progress at a time
  Nothing,
  MaxCertFaults  \* calls to Cloudflare that fail and requests that are cut off

ASSUME CertAssumption ==
  /\ CertDevices \cap CertOperators = {}
  /\ Nothing \notin Certs \cup CertDevices \cup CertOperators
  /\ MaxCertFaults \in Nat

VARIABLES
  approved,  \* devices that can authenticate
  cert,      \* who a certificate is for, its row and its state at Cloudflare
  crossed,   \* history: certificates recorded by a request that a block had overtaken
  recent,    \* devices with a certificate row less than an hour old
  task,      \* requests in progress
  certFaults

certVars == <<approved, cert, crossed, recent, task, certFaults>>

Holders == CertDevices \cup CertOperators
CertRow == [for : Holders \cup {Nothing}, db : {"none", "active", "revoked"},
            edge : {"none", "live", "revoked"}]

\* late (history): the device was blocked after the request was authenticated.
NoTask == [op |-> "idle", who |-> Nothing, pc |-> "auth", new |-> Nothing, todo |-> {}, done |-> {},
           late |-> FALSE]
TaskRow == [op : {"idle", "issue", "block", "revoke"}, who : Holders \cup {Nothing},
            pc : {"auth", "sign", "record", "edge"}, new : Certs \cup {Nothing},
            todo : SUBSET Certs, done : SUBSET Certs, late : BOOLEAN]

CertTypeOK ==
  /\ approved \subseteq CertDevices
  /\ cert \in [Certs -> CertRow]
  /\ crossed \subseteq Certs /\ recent \subseteq CertDevices
  /\ task \in [Tasks -> TaskRow]
  /\ certFaults \in 0..MaxCertFaults

CertInit ==
  /\ approved = CertDevices
  /\ cert = [c \in Certs |-> [for |-> Nothing, db |-> "none", edge |-> "none"]]
  /\ crossed = {} /\ recent = {}
  /\ task = [t \in Tasks |-> NoTask]
  /\ certFaults = 0

-----------------------------------------------------------------------------
CertFault == certFaults < MaxCertFaults /\ certFaults' = certFaults + 1

\* Rows of h that are not revoked.
Active(h) == {c \in Certs : cert[c].for = h /\ cert[c].db = "active"}

Begins(t, op, h, pc, todo) ==
  /\ task[t] = NoTask
  /\ task' = [task EXCEPT ![t] = [NoTask EXCEPT !.op = op, !.who = h, !.pc = pc, !.todo = todo]]
  /\ UNCHANGED <<approved, cert, crossed, recent, certFaults>>

\* change_device_status holds the device's row; recording a certificate for
\* the device needs a share of it until its transaction ends.
Blocking(h) == \E t \in Tasks : task[t].op = "block" /\ task[t].who = h
Recording(h) == \E t \in Tasks : task[t].op = "issue" /\ task[t].who = h /\ task[t].pc = "edge"

\* require_device, in a transaction of its own.
BeginIssue(t, d) ==
  /\ d \in approved
  /\ Begins(t, "issue", d, "auth", {})

\* issue_device_edge_cert, which does not look at the device again: not twice
\* an hour; the certificates that will be replaced are read before Cloudflare
\* signs.
ReadCerts(t) ==
  /\ task[t].op = "issue" /\ task[t].pc = "auth"
  /\ task' = [task EXCEPT ![t] = IF task[t].who \in recent THEN NoTask
                                 ELSE [@ EXCEPT !.pc = "sign", !.todo = Active(task[t].who)]]
  /\ UNCHANGED <<approved, cert, crossed, recent, certFaults>>

\* issue_browser_edge_cert, issue_mobile_edge_cert: an operator's
\* certificates do not replace each other.
BeginOperatorIssue(t, o) ==
  /\ o \in CertOperators
  /\ Begins(t, "issue", o, "sign", {})

\* _cf_sign.
Sign(t, c) ==
  /\ task[t].op = "issue" /\ task[t].pc = "sign"
  /\ cert[c].edge = "none"
  /\ cert' = [cert EXCEPT ![c].for = task[t].who, ![c].edge = "live"]
  /\ task' = [task EXCEPT ![t].pc = "record", ![t].new = c]
  /\ UNCHANGED <<approved, crossed, recent, certFaults>>

\* _record: inserts the row, unseen by others until the transaction commits.
Record(t) ==
  /\ task[t].pc = "record"
  /\ ~Blocking(task[t].who)
  /\ task' = [task EXCEPT ![t].pc = "edge"]
  /\ UNCHANGED <<approved, cert, crossed, recent, certFaults>>

\* A certificate counts as revoked whatever Cloudflare answered.
RevokeRegardless(t, c) ==
  /\ task[t].pc = "edge" /\ c \in task[t].todo
  /\ \/ cert' = [cert EXCEPT ![c].edge = "revoked"] /\ UNCHANGED certFaults
     \/ CertFault /\ UNCHANGED cert
  /\ task' = [task EXCEPT ![t].todo = @ \ {c}, ![t].done = @ \cup {c}]
  /\ UNCHANGED <<approved, crossed, recent>>

\* cf_revoke of one certificate, which may fail, and fails or not for one
\* that is revoked already.
RevokeAtEdge(t, c) ==
  /\ task[t].pc = "edge" /\ c \in task[t].todo
  /\ \/ /\ cert' = [cert EXCEPT ![c].edge = "revoked"]
        /\ task' = [task EXCEPT ![t].todo = @ \ {c}, ![t].done = @ \cup {c}]
        /\ UNCHANGED certFaults
     \/ /\ IF cert[c].edge = "revoked" THEN UNCHANGED certFaults ELSE CertFault
        /\ task' = [task EXCEPT ![t].todo = @ \ {c}]
        /\ UNCHANGED cert
  /\ UNCHANGED <<approved, crossed, recent>>

\* _revoke_rows: only what Cloudflare has revoked is revoked in the database.
RowsRevoked(new, done) ==
  cert' = [c \in Certs |->
    CASE c \in done /\ cert[c].db = "active" -> [cert[c] EXCEPT !.db = "revoked"]
      [] c = new -> [cert[c] EXCEPT !.db = "active"]
      [] OTHER -> cert[c]]

\* The certificate is handed out and its row lost.
CommitIssueUnrecorded(t) ==
  /\ task[t].op = "issue" /\ task[t].pc = "edge" /\ task[t].todo = {}
  /\ task' = [task EXCEPT ![t] = NoTask]
  /\ UNCHANGED <<approved, cert, crossed, recent, certFaults>>

CommitIssue(t) ==
  /\ task[t].op = "issue" /\ task[t].pc = "edge" /\ task[t].todo = {}
  /\ RowsRevoked(task[t].new, task[t].done)
  /\ recent' = recent \cup ({task[t].who} \cap CertDevices)
  /\ crossed' = crossed \cup {c \in Certs : task[t].new = c /\ task[t].late}
  /\ task' = [task EXCEPT ![t] = NoTask]
  /\ UNCHANGED <<approved, certFaults>>

\* The certificates are left alone.
BeginBlockOnly(t, d) ==
  /\ d \in approved
  /\ ~Blocking(d) /\ ~Recording(d)
  /\ Begins(t, "block", d, "edge", {})

\* change_device_status to blocked or revoked: it takes the device's row and
\* calls revoke_device_edge_certs inside its transaction.
BeginBlock(t, d) ==
  /\ d \in approved
  /\ ~Blocking(d) /\ ~Recording(d)
  /\ Begins(t, "block", d, "edge", Active(d))

CommitBlock(t) ==
  /\ task[t].op = "block" /\ task[t].todo = {}
  /\ approved' = approved \ {task[t].who}
  /\ RowsRevoked(Nothing, task[t].done)
  /\ task' = [u \in Tasks |->
       IF u = t THEN NoTask
       ELSE IF task[u].op = "issue" /\ task[u].who = task[t].who
       THEN [task[u] EXCEPT !.late = TRUE] ELSE task[u]]
  /\ UNCHANGED <<crossed, recent, certFaults>>

\* revoke_own_edge_cert.
BeginRevokeOwn(t, c) ==
  /\ cert[c].db = "active" /\ cert[c].for \in CertOperators
  /\ Begins(t, "revoke", cert[c].for, "edge", {c})

CommitRevokeOwn(t) ==
  /\ task[t].op = "revoke" /\ task[t].todo = {}
  /\ RowsRevoked(Nothing, task[t].done)
  /\ task' = [task EXCEPT ![t] = NoTask]
  /\ UNCHANGED <<approved, crossed, recent, certFaults>>

\* A request ends without committing: Cloudflare refuses to sign or its answer
\* is lost after signing, the database fails, the API restarts.
CutOff(t) ==
  /\ task[t].op # "idle"
  /\ CertFault
  /\ \/ UNCHANGED cert
     \/ \E c \in Certs :
          /\ task[t].op = "issue" /\ task[t].pc = "sign" /\ cert[c].edge = "none"
          /\ cert' = [cert EXCEPT ![c].for = task[t].who, ![c].edge = "live"]
  /\ task' = [task EXCEPT ![t] = NoTask]
  /\ UNCHANGED <<approved, crossed, recent>>

\* A blocked device is let in again (re-enrollment and approval).
Readmit(d) ==
  /\ d \notin approved
  /\ approved' = approved \cup {d}
  /\ UNCHANGED <<cert, crossed, recent, task, certFaults>>

HourPasses(d) ==
  /\ d \in recent
  /\ recent' = recent \ {d}
  /\ UNCHANGED <<approved, cert, crossed, task, certFaults>>

CertNext ==
  \/ \E t \in Tasks, d \in CertDevices : BeginIssue(t, d) \/ BeginBlock(t, d)
  \/ \E t \in Tasks, o \in CertOperators : BeginOperatorIssue(t, o)
  \/ \E t \in Tasks, c \in Certs : Sign(t, c) \/ RevokeAtEdge(t, c) \/ BeginRevokeOwn(t, c)
  \/ \E t \in Tasks : ReadCerts(t) \/ Record(t) \/ CommitIssue(t) \/ CommitBlock(t) \/ CommitRevokeOwn(t) \/ CutOff(t)
  \/ \E d \in CertDevices : Readmit(d) \/ HourPasses(d)

CertSpec == CertInit /\ [][CertNext]_certVars

-----------------------------------------------------------------------------
\* What the database calls revoked, the edge refuses: revocations that fail at
\* Cloudflare, or that a second request repeats, are never reported as done.
RevokedAtEdge ==
  \A c \in Certs : cert[c].db = "revoked" => cert[c].edge = "revoked"

\* RDS knows every certificate the edge accepts: unless a request was cut off,
\* a live one has an active row, so that it can still be revoked, or the
\* request that had it signed is about to record it.
LiveIsOnFile ==
  certFaults = 0 =>
    \A c \in Certs : cert[c].edge = "live"
      => cert[c].db = "active" \/ \E t \in Tasks : task[t].new = c

\* "blocking/revoking a device - revokes it at Cloudflare too" (edge_certs.py:11)
\* is not so for a certificate under way: require_device and the issue are
\* transactions of their own, and only the insert needs the device's row.  What
\* holds is that, until something fails, a live certificate of a blocked device
\* is one whose request was authenticated before the block and recorded it
\* after; every other one the block has found and revoked.
BlockedHasNoCert ==
  certFaults = 0 =>
    \A c \in Certs :
      cert[c].edge = "live" /\ cert[c].for \in CertDevices \ approved
        => c \in crossed \/ \E t \in Tasks : task[t].new = c /\ task[t].late
=============================================================================
