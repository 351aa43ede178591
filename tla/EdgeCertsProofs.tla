-------------------------- MODULE EdgeCertsProofs --------------------------
(***************************************************************************)
(* For any number of certificates, requests in progress and failures: what  *)
(* the database calls revoked Cloudflare refuses, a certificate that works  *)
(* is on file or in a request's hands, and a blocked device has none.       *)
(*                                                                          *)
(* RevokedAtEdge alone is not inductive: a request that commits marks the   *)
(* rows in its list of successful revocations, so the list has to be right  *)
(* while the request is in progress.  BlocksDevices serves the types.       *)
(* LiveIsOnFile needs that only a request that issues, and only once it has *)
(* signed, holds a new certificate (TaskShape).  BlockedHasNoCert needs that*)
(* a request that blocks a device has still to revoke every live certificate*)
(* of it that nobody else is about to record (BlockCovers), that the lock   *)
(* on the device's row keeps recording and blocking apart, and that whoever *)
(* issues to a blocked device was authenticated before (NoneIssuedToBlocked)*)
(***************************************************************************)
EXTENDS EdgeCerts, TLAPS

\* What a request in progress counts as revoked, the edge refuses already.
DoneAtEdge ==
  \A t \in Tasks : \A c \in task[t].done : cert[c].edge = "revoked"

\* What is blocked is a device.
BlocksDevices == \A t \in Tasks : task[t].op = "block" => task[t].who \in CertDevices

EdgeInv == CertTypeOK /\ RevokedAtEdge /\ DoneAtEdge /\ BlocksDevices

\* Requests begin with an empty list and with data of the right kind.
LEMMA BeginsTyped ==
  ASSUME CertTypeOK, NEW t \in Tasks, NEW op \in {"issue", "block", "revoke"},
         NEW h \in Holders, NEW pc \in {"auth", "sign", "edge"}, NEW todo \in SUBSET Certs,
         Begins(t, op, h, pc, todo)
  PROVE  /\ task' \in [Tasks -> TaskRow]
         /\ task'[t].done = {} /\ task'[t].op = op /\ task'[t].who = h
         /\ \A u \in Tasks : u # t => task'[u] = task[u]
<1> DEFINE row == [NoTask EXCEPT !.op = op, !.who = h, !.pc = pc, !.todo = todo]
<1>1. row \in TaskRow /\ row.done = {} /\ row.op = op /\ row.who = h
  BY DEF NoTask, TaskRow
<1>2. task' = [task EXCEPT ![t] = row]
  BY DEF Begins
<1> HIDE DEF row
<1> QED BY <1>1, <1>2 DEF CertTypeOK

\* A request that ends leaves no list.
LEMMA EndsTyped ==
  ASSUME CertTypeOK, NEW t \in Tasks, task' = [task EXCEPT ![t] = NoTask]
  PROVE  /\ task' \in [Tasks -> TaskRow]
         /\ task'[t].done = {} /\ task'[t].op = "idle"
         /\ \A u \in Tasks : u # t => task'[u] = task[u]
<1>1. NoTask \in TaskRow /\ NoTask.done = {} /\ NoTask.op = "idle"
  BY DEF NoTask, TaskRow
<1> QED BY <1>1 DEF CertTypeOK

\* Either the request is refused, or it goes on to the signature.
LEMMA ReadShape ==
  ASSUME CertTypeOK, NEW t \in Tasks, ReadCerts(t)
  PROVE  \/ task' = [task EXCEPT ![t] = NoTask]
         \/ task' = [task EXCEPT ![t] = [task[t] EXCEPT !.pc = "sign", !.todo = Active(task[t].who)]]
BY DEF ReadCerts, CertTypeOK

\* A block that commits marks the requests for the device's certificates.
LEMMA BlockShape ==
  ASSUME CertTypeOK, NEW t \in Tasks, CommitBlock(t)
  PROVE  /\ task' \in [Tasks -> TaskRow]
         /\ task'[t].done = {} /\ task'[t].op = "idle" /\ task'[t].new = Nothing
         /\ \A u \in Tasks : u # t =>
              /\ task'[u].op = task[u].op /\ task'[u].who = task[u].who /\ task'[u].pc = task[u].pc
              /\ task'[u].new = task[u].new /\ task'[u].todo = task[u].todo
              /\ task'[u].done = task[u].done
              /\ task[u].late => task'[u].late
              /\ task[u].op = "issue" /\ task[u].who = task[t].who => task'[u].late
<1>1. NoTask \in TaskRow /\ NoTask.done = {} /\ NoTask.op = "idle" /\ NoTask.new = Nothing
  BY DEF NoTask, TaskRow
<1>2. ASSUME NEW u \in Tasks, u # t
      PROVE  /\ task'[u] \in TaskRow
             /\ task'[u].op = task[u].op /\ task'[u].who = task[u].who /\ task'[u].pc = task[u].pc
             /\ task'[u].new = task[u].new /\ task'[u].todo = task[u].todo
             /\ task'[u].done = task[u].done
             /\ task[u].late => task'[u].late
             /\ task[u].op = "issue" /\ task[u].who = task[t].who => task'[u].late
  <2>1. task[u] \in TaskRow
    BY DEF CertTypeOK
  <2>2. CASE task[u].op = "issue" /\ task[u].who = task[t].who
    <3>1. task'[u] = [task[u] EXCEPT !.late = TRUE]
      BY <1>2, <2>2 DEF CommitBlock
    <3> QED BY <2>1, <2>2, <3>1 DEF TaskRow
  <2>3. CASE ~(task[u].op = "issue" /\ task[u].who = task[t].who)
    BY <1>2, <2>1, <2>3 DEF CommitBlock
  <2> QED BY <2>2, <2>3
<1>3. task'[t] = NoTask /\ DOMAIN task' = Tasks
  BY DEF CommitBlock
<1>4. task' \in [Tasks -> TaskRow]
  BY <1>1, <1>2, <1>3 DEF CommitBlock
<1> QED BY <1>1, <1>2, <1>3, <1>4

\* _revoke_rows marks only what its list says the edge refuses.
LEMMA RowsStep ==
  ASSUME EdgeInv, NEW t \in Tasks, NEW new \in Certs \cup {Nothing},
         RowsRevoked(new, task[t].done)
  PROVE  /\ cert' \in [Certs -> CertRow]
         /\ RevokedAtEdge'
         /\ \A c \in Certs : cert'[c].edge = cert[c].edge
<1>1. ASSUME NEW c \in Certs
      PROVE  /\ cert'[c] \in CertRow
             /\ cert'[c].edge = cert[c].edge
             /\ cert'[c].db = "revoked" => cert[c].db = "revoked" \/ c \in task[t].done
  <2>0. cert[c] \in CertRow
    BY DEF EdgeInv, CertTypeOK
  <2>1. CASE c \in task[t].done /\ cert[c].db = "active"
    BY <2>0, <2>1 DEF RowsRevoked, CertRow
  <2>2. CASE ~(c \in task[t].done /\ cert[c].db = "active") /\ c = new
    BY <2>0, <2>2 DEF RowsRevoked, CertRow
  <2>3. CASE ~(c \in task[t].done /\ cert[c].db = "active") /\ c # new
    BY <2>0, <2>3 DEF RowsRevoked
  <2> QED BY <2>1, <2>2, <2>3
<1>2. cert' \in [Certs -> CertRow]
  BY <1>1 DEF RowsRevoked
<1>3. RevokedAtEdge'
  BY <1>1 DEF EdgeInv, RevokedAtEdge, DoneAtEdge
<1> QED BY <1>1, <1>2, <1>3

-----------------------------------------------------------------------------
\* Beginning a request.
LEMMA CertBeginStep ==
  ASSUME EdgeInv, NEW t \in Tasks, NEW op \in {"issue", "block", "revoke"},
         NEW h \in Holders, NEW pc \in {"auth", "sign", "edge"}, NEW todo \in SUBSET Certs,
         Begins(t, op, h, pc, todo), op = "block" => h \in CertDevices
  PROVE  EdgeInv'
<1>1. /\ task' \in [Tasks -> TaskRow]
      /\ task'[t].done = {} /\ task'[t].op = op /\ task'[t].who = h
      /\ \A u \in Tasks : u # t => task'[u] = task[u]
  BY BeginsTyped DEF EdgeInv
<1>2. UNCHANGED <<approved, cert, crossed, recent, certFaults>>
  BY DEF Begins
<1>3. CertTypeOK'
  BY <1>1, <1>2 DEF EdgeInv, CertTypeOK
<1>4. RevokedAtEdge' /\ DoneAtEdge' /\ BlocksDevices'
  BY <1>1, <1>2 DEF EdgeInv, RevokedAtEdge, DoneAtEdge, BlocksDevices
<1> QED BY <1>3, <1>4 DEF EdgeInv

\* Ending a request with certificates that are no less revoked than before.
LEMMA CertEndStep ==
  ASSUME EdgeInv, NEW t \in Tasks,
         task' \in [Tasks -> TaskRow], task'[t].done = {}, task'[t].op = "idle",
         \A u \in Tasks : u # t => /\ task'[u].done = task[u].done /\ task'[u].op = task[u].op
                                   /\ task'[u].who = task[u].who,
         cert' \in [Certs -> CertRow], RevokedAtEdge',
         \A c \in Certs : cert[c].edge = "revoked" => cert'[c].edge = "revoked",
         approved' \subseteq CertDevices, crossed' \subseteq Certs,
         recent' \subseteq CertDevices, certFaults' \in 0..MaxCertFaults
  PROVE  EdgeInv'
<1>2. \A u \in Tasks : task[u].done \subseteq Certs
  BY DEF EdgeInv, CertTypeOK, TaskRow
<1>3. DoneAtEdge' /\ BlocksDevices'
  BY <1>2 DEF EdgeInv, DoneAtEdge, BlocksDevices
<1>4. CertTypeOK'
  BY DEF CertTypeOK
<1> QED BY <1>3, <1>4 DEF EdgeInv

\* Cloudflare signs a certificate it never issued before.
LEMMA SignedRow ==
  ASSUME EdgeInv, NEW c \in Certs, NEW h \in Holders \cup {Nothing}, cert[c].edge = "none",
         cert' = [cert EXCEPT ![c].for = h, ![c].edge = "live"]
  PROVE  /\ cert' \in [Certs -> CertRow]
         /\ RevokedAtEdge'
         /\ \A d \in Certs : cert[d].edge = "revoked" => cert'[d].edge = "revoked"
<1>1. cert[c] \in CertRow
  BY DEF EdgeInv, CertTypeOK
<1>2. /\ cert'[c] = [for |-> h, db |-> cert[c].db, edge |-> "live"]
      /\ \A d \in Certs : d # c => cert'[d] = cert[d]
  BY <1>1 DEF EdgeInv, CertTypeOK, CertRow
<1>3. cert'[c] \in CertRow
  BY <1>1, <1>2 DEF CertRow
<1>4. cert' \in [Certs -> CertRow]
  BY <1>2, <1>3 DEF EdgeInv, CertTypeOK
<1>5. cert[c].db # "revoked"
  BY DEF EdgeInv, RevokedAtEdge
<1> QED BY <1>2, <1>4, <1>5 DEF EdgeInv, RevokedAtEdge

\* Cloudflare revokes one certificate.
LEMMA RevokedRow ==
  ASSUME EdgeInv, NEW c \in Certs, cert' = [cert EXCEPT ![c].edge = "revoked"]
  PROVE  /\ cert' \in [Certs -> CertRow]
         /\ RevokedAtEdge'
         /\ cert'[c].edge = "revoked"
         /\ \A d \in Certs : cert[d].edge = "revoked" => cert'[d].edge = "revoked"
<1>1. cert[c] \in CertRow
  BY DEF EdgeInv, CertTypeOK
<1>2. /\ cert'[c] = [for |-> cert[c].for, db |-> cert[c].db, edge |-> "revoked"]
      /\ \A d \in Certs : d # c => cert'[d] = cert[d]
  BY <1>1 DEF EdgeInv, CertTypeOK, CertRow
<1>3. cert'[c] \in CertRow
  BY <1>1, <1>2 DEF CertRow
<1>4. cert' \in [Certs -> CertRow]
  BY <1>2, <1>3 DEF EdgeInv, CertTypeOK
<1> QED BY <1>2, <1>4 DEF EdgeInv, RevokedAtEdge

\* A request moves on: its list grows by what the edge refuses.
LEMMA MoveStep ==
  ASSUME EdgeInv, NEW t \in Tasks, NEW row \in TaskRow, task' = [task EXCEPT ![t] = row],
         cert' \in [Certs -> CertRow], RevokedAtEdge',
         \A c \in Certs : cert[c].edge = "revoked" => cert'[c].edge = "revoked",
         \A c \in row.done : cert'[c].edge = "revoked",
         row.op = task[t].op, row.who = task[t].who,
         UNCHANGED <<approved, crossed, recent>>, certFaults' \in 0..MaxCertFaults
  PROVE  EdgeInv'
<1>1. /\ task' \in [Tasks -> TaskRow] /\ task'[t] = row
      /\ \A u \in Tasks : u # t => task'[u] = task[u]
  BY DEF EdgeInv, CertTypeOK
<1>2. \A u \in Tasks : task[u].done \subseteq Certs
  BY DEF EdgeInv, CertTypeOK, TaskRow
<1>3. DoneAtEdge' /\ BlocksDevices'
  BY <1>1, <1>2 DEF EdgeInv, DoneAtEdge, BlocksDevices
<1>4. CertTypeOK'
  BY <1>1 DEF EdgeInv, CertTypeOK
<1> QED BY <1>3, <1>4 DEF EdgeInv

\* cf_revoke: the list gets a certificate only when Cloudflare has revoked it.
LEMMA RevokeStep ==
  ASSUME EdgeInv, NEW t \in Tasks, NEW c \in Certs, RevokeAtEdge(t, c)
  PROVE  EdgeInv'
<1> DEFINE listed == [task[t] EXCEPT !.todo = @ \ {c}, !.done = @ \cup {c}]
           passed == [task[t] EXCEPT !.todo = @ \ {c}]
<1>1. task[t] \in TaskRow /\ certFaults \in 0..MaxCertFaults /\ MaxCertFaults \in Nat
  BY CertAssumption DEF CertAssumption, EdgeInv, CertTypeOK
<1>2. /\ listed \in TaskRow /\ listed.done = task[t].done \cup {c}
      /\ passed \in TaskRow /\ passed.done = task[t].done
      /\ listed.op = task[t].op /\ listed.who = task[t].who
      /\ passed.op = task[t].op /\ passed.who = task[t].who
  BY <1>1 DEF TaskRow
<1>3. task[t].done \subseteq Certs /\ \A d \in task[t].done : cert[d].edge = "revoked"
  BY <1>1 DEF TaskRow, EdgeInv, DoneAtEdge
<1>4. UNCHANGED <<approved, crossed, recent>>
  BY DEF RevokeAtEdge
<1>5. CASE /\ cert' = [cert EXCEPT ![c].edge = "revoked"]
           /\ task' = [task EXCEPT ![t] = listed]
           /\ UNCHANGED certFaults
  <2>1. /\ cert' \in [Certs -> CertRow] /\ RevokedAtEdge' /\ cert'[c].edge = "revoked"
        /\ \A d \in Certs : cert[d].edge = "revoked" => cert'[d].edge = "revoked"
    BY <1>5, RevokedRow
  <2>2. \A d \in listed.done : cert'[d].edge = "revoked"
    BY <1>2, <1>3, <2>1
  <2> HIDE DEF listed
  <2> QED BY <1>1, <1>2, <1>4, <1>5, <2>1, <2>2, MoveStep
<1>6. CASE /\ cert' = cert
           /\ task' = [task EXCEPT ![t] = passed]
           /\ certFaults' \in 0..MaxCertFaults
  <2>1. cert' \in [Certs -> CertRow] /\ RevokedAtEdge'
    BY <1>6 DEF EdgeInv, CertTypeOK, RevokedAtEdge
  <2>2. \A d \in passed.done : cert'[d].edge = "revoked"
    BY <1>2, <1>3, <1>6
  <2> HIDE DEF passed
  <2> QED BY <1>2, <1>4, <1>6, <2>1, <2>2, MoveStep
<1>7. \/ /\ cert' = [cert EXCEPT ![c].edge = "revoked"]
         /\ task' = [task EXCEPT ![t] = listed]
         /\ UNCHANGED certFaults
      \/ /\ cert' = cert
         /\ task' = [task EXCEPT ![t] = passed]
         /\ certFaults' = certFaults \/ CertFault
  BY DEF RevokeAtEdge
<1>8. certFaults' = certFaults \/ CertFault => certFaults' \in 0..MaxCertFaults
  BY <1>1 DEF CertFault
<1> QED BY <1>5, <1>6, <1>7, <1>8

\* A request that reads, has its certificate signed and records it.
LEMMA IssueStep ==
  ASSUME EdgeInv, NEW t \in Tasks, ReadCerts(t) \/ Record(t) \/ \E c \in Certs : Sign(t, c)
  PROVE  EdgeInv'
<1>1. task[t] \in TaskRow /\ certFaults \in 0..MaxCertFaults
  BY DEF EdgeInv, CertTypeOK
<1>2. task[t].done \subseteq Certs /\ \A d \in task[t].done : cert[d].edge = "revoked"
  BY <1>1 DEF TaskRow, EdgeInv, DoneAtEdge
<1>3. CASE Record(t)
  <2> DEFINE row == [task[t] EXCEPT !.pc = "edge"]
  <2>1. /\ row \in TaskRow /\ row.done = task[t].done
        /\ row.op = task[t].op /\ row.who = task[t].who
    BY <1>1 DEF TaskRow
  <2>2. task' = [task EXCEPT ![t] = row] /\ UNCHANGED <<approved, cert, crossed, recent, certFaults>>
    BY <1>3 DEF Record
  <2>3. cert' \in [Certs -> CertRow] /\ RevokedAtEdge'
    BY <2>2 DEF EdgeInv, CertTypeOK, RevokedAtEdge
  <2>4. \A d \in row.done : cert'[d].edge = "revoked"
    BY <1>2, <2>1, <2>2
  <2> HIDE DEF row
  <2> QED BY <1>1, <2>1, <2>2, <2>3, <2>4, MoveStep
<1>4. ASSUME NEW c \in Certs, Sign(t, c) PROVE EdgeInv'
  <2> DEFINE row == [task[t] EXCEPT !.pc = "record", !.new = c]
  <2>1. /\ row \in TaskRow /\ row.done = task[t].done
        /\ row.op = task[t].op /\ row.who = task[t].who
    BY <1>1 DEF TaskRow
  <2>2. /\ task' = [task EXCEPT ![t] = row] /\ UNCHANGED <<approved, crossed, recent, certFaults>>
        /\ cert' = [cert EXCEPT ![c].for = task[t].who, ![c].edge = "live"]
        /\ cert[c].edge = "none" /\ task[t].who \in Holders \cup {Nothing}
    <3>1. task[t].who \in Holders \cup {Nothing}
      BY <1>1 DEF TaskRow
    <3>2. task' = [task EXCEPT ![t] = row]
      BY <1>4 DEF Sign, EdgeInv, CertTypeOK
    <3> QED BY <1>4, <3>1, <3>2 DEF Sign
  <2>3. /\ cert' \in [Certs -> CertRow] /\ RevokedAtEdge'
        /\ \A d \in Certs : cert[d].edge = "revoked" => cert'[d].edge = "revoked"
    BY <2>2, SignedRow
  <2>4. \A d \in row.done : cert'[d].edge = "revoked"
    BY <1>2, <2>1, <2>3
  <2> HIDE DEF row
  <2> QED BY <1>1, <2>1, <2>2, <2>3, <2>4, MoveStep
<1>5. CASE ReadCerts(t)
  <2>1. UNCHANGED <<approved, cert, crossed, recent, certFaults>>
    BY <1>5 DEF ReadCerts
  <2>2. cert' \in [Certs -> CertRow] /\ RevokedAtEdge'
    BY <2>1 DEF EdgeInv, CertTypeOK, RevokedAtEdge
  <2>3. CASE task' = [task EXCEPT ![t] = NoTask]
    <3>1. /\ task' \in [Tasks -> TaskRow] /\ task'[t].done = {} /\ task'[t].op = "idle"
          /\ \A u \in Tasks : u # t => task'[u] = task[u]
      BY <2>3, EndsTyped DEF EdgeInv
    <3>2. approved \subseteq CertDevices /\ crossed \subseteq Certs /\ recent \subseteq CertDevices
      BY DEF EdgeInv, CertTypeOK
    <3> QED BY <1>1, <2>1, <2>2, <3>1, <3>2, CertEndStep
  <2>4. CASE task' = [task EXCEPT ![t] = [task[t] EXCEPT !.pc = "sign", !.todo = Active(task[t].who)]]
    <3> DEFINE row == [task[t] EXCEPT !.pc = "sign", !.todo = Active(task[t].who)]
    <3>1. /\ row \in TaskRow /\ row.done = task[t].done
          /\ row.op = task[t].op /\ row.who = task[t].who
      BY <1>1 DEF TaskRow, Active
    <3>2. \A d \in row.done : cert'[d].edge = "revoked"
      BY <1>2, <2>1, <3>1
    <3>3. task' = [task EXCEPT ![t] = row]
      BY <2>4
    <3> HIDE DEF row
    <3> QED BY <1>1, <2>1, <2>2, <3>1, <3>2, <3>3, MoveStep
  <2> QED BY <1>5, <2>3, <2>4, ReadShape DEF EdgeInv
<1> QED BY <1>3, <1>4, <1>5

\* Requests that commit, and requests that are cut off.
LEMMA CommitStep ==
  ASSUME EdgeInv, NEW t \in Tasks,
         CommitIssue(t) \/ CommitBlock(t) \/ CommitRevokeOwn(t) \/ CutOff(t)
  PROVE  EdgeInv'
<1>1. /\ task[t] \in TaskRow /\ certFaults \in 0..MaxCertFaults /\ MaxCertFaults \in Nat
      /\ approved \subseteq CertDevices /\ crossed \subseteq Certs
      /\ recent \subseteq CertDevices
  BY CertAssumption DEF CertAssumption, EdgeInv, CertTypeOK
<1>2. task[t].new \in Certs \cup {Nothing} /\ task[t].who \in Holders \cup {Nothing}
  BY <1>1 DEF TaskRow
<1>3. CASE CommitIssue(t)
  <2>1. /\ cert' \in [Certs -> CertRow] /\ RevokedAtEdge'
        /\ \A c \in Certs : cert'[c].edge = cert[c].edge
    BY <1>2, <1>3, RowsStep DEF CommitIssue
  <2>2. /\ task' = [task EXCEPT ![t] = NoTask] /\ UNCHANGED <<approved, certFaults>>
        /\ recent' \subseteq CertDevices
    BY <1>1, <1>3 DEF CommitIssue
  <2>3. /\ task' \in [Tasks -> TaskRow] /\ task'[t].done = {} /\ task'[t].op = "idle"
        /\ \A u \in Tasks : u # t => task'[u] = task[u]
    BY <2>2, EndsTyped DEF EdgeInv
  <2>4. crossed' \subseteq Certs
    BY <1>1, <1>3 DEF CommitIssue
  <2> QED BY <1>1, <2>1, <2>2, <2>3, <2>4, CertEndStep
<1>4. CASE CommitBlock(t)
  <2>1. /\ cert' \in [Certs -> CertRow] /\ RevokedAtEdge'
        /\ \A c \in Certs : cert'[c].edge = cert[c].edge
    BY <1>4, RowsStep DEF CommitBlock
  <2>2. /\ UNCHANGED <<crossed, recent, certFaults>>
        /\ approved' \subseteq CertDevices
    BY <1>1, <1>4 DEF CommitBlock
  <2>3. /\ task' \in [Tasks -> TaskRow] /\ task'[t].done = {} /\ task'[t].op = "idle"
        /\ \A u \in Tasks : u # t => /\ task'[u].done = task[u].done /\ task'[u].op = task[u].op
                                     /\ task'[u].who = task[u].who
    BY <1>4, BlockShape DEF EdgeInv
  <2> QED BY <1>1, <2>1, <2>2, <2>3, CertEndStep
<1>5. CASE CommitRevokeOwn(t)
  <2>1. /\ cert' \in [Certs -> CertRow] /\ RevokedAtEdge'
        /\ \A c \in Certs : cert'[c].edge = cert[c].edge
    BY <1>5, RowsStep DEF CommitRevokeOwn
  <2>2. task' = [task EXCEPT ![t] = NoTask] /\ UNCHANGED <<approved, crossed, recent, certFaults>>
    BY <1>5 DEF CommitRevokeOwn
  <2>3. /\ task' \in [Tasks -> TaskRow] /\ task'[t].done = {} /\ task'[t].op = "idle"
        /\ \A u \in Tasks : u # t => task'[u] = task[u]
    BY <2>2, EndsTyped DEF EdgeInv
  <2> QED BY <1>1, <2>1, <2>2, <2>3, CertEndStep
<1>6. CASE CutOff(t)
  <2>1. /\ task' = [task EXCEPT ![t] = NoTask] /\ UNCHANGED <<approved, crossed, recent>>
        /\ CertFault
    BY <1>6 DEF CutOff
  <2>2. certFaults' \in 0..MaxCertFaults
    BY <1>1, <2>1 DEF CertFault
  <2>3. /\ cert' \in [Certs -> CertRow] /\ RevokedAtEdge'
        /\ \A c \in Certs : cert[c].edge = "revoked" => cert'[c].edge = "revoked"
    <3>1. CASE cert' = cert
      BY <3>1 DEF EdgeInv, CertTypeOK, RevokedAtEdge
    <3>2. CASE \E c \in Certs : /\ cert[c].edge = "none"
                                /\ cert' = [cert EXCEPT ![c].for = task[t].who, ![c].edge = "live"]
      BY <1>2, <3>2, SignedRow
    <3> QED BY <1>6, <3>1, <3>2 DEF CutOff
  <2>4. /\ task' \in [Tasks -> TaskRow] /\ task'[t].done = {} /\ task'[t].op = "idle"
        /\ \A u \in Tasks : u # t => task'[u] = task[u]
    BY <2>1, EndsTyped DEF EdgeInv
  <2> QED BY <1>1, <2>1, <2>2, <2>3, <2>4, CertEndStep
<1> QED BY <1>3, <1>4, <1>5, <1>6

-----------------------------------------------------------------------------
\* Every step keeps the lists and the rows right.
LEMMA EdgeInductive == EdgeInv /\ [CertNext]_certVars => EdgeInv'
<1> SUFFICES ASSUME EdgeInv, [CertNext]_certVars PROVE EdgeInv'
  OBVIOUS
<1>1. ASSUME NEW t \in Tasks, NEW d \in CertDevices, BeginIssue(t, d) \/ BeginBlock(t, d)
      PROVE  EdgeInv'
  BY <1>1, CertBeginStep DEF BeginIssue, BeginBlock, Active, Holders
<1>2. ASSUME NEW t \in Tasks, NEW o \in CertOperators, BeginOperatorIssue(t, o)
      PROVE  EdgeInv'
  BY <1>2, CertBeginStep DEF BeginOperatorIssue, Holders
<1>3. ASSUME NEW t \in Tasks, NEW c \in Certs, BeginRevokeOwn(t, c)
      PROVE  EdgeInv'
  BY <1>3, CertBeginStep DEF BeginRevokeOwn, Holders
<1>4. ASSUME NEW t \in Tasks, NEW c \in Certs, Sign(t, c) \/ RevokeAtEdge(t, c)
      PROVE  EdgeInv'
  BY <1>4, IssueStep, RevokeStep
<1>5. ASSUME NEW t \in Tasks,
             \/ ReadCerts(t) \/ Record(t) \/ CommitIssue(t)
             \/ CommitBlock(t) \/ CommitRevokeOwn(t) \/ CutOff(t)
      PROVE  EdgeInv'
  BY <1>5, IssueStep, CommitStep
<1>6. ASSUME NEW d \in CertDevices, Readmit(d) \/ HourPasses(d) PROVE EdgeInv'
  BY <1>6 DEF Readmit, HourPasses, EdgeInv, CertTypeOK, RevokedAtEdge, DoneAtEdge, BlocksDevices
<1>7. CASE UNCHANGED certVars
  BY <1>7 DEF certVars, EdgeInv, CertTypeOK, RevokedAtEdge, DoneAtEdge, BlocksDevices
<1> QED BY <1>1, <1>2, <1>3, <1>4, <1>5, <1>6, <1>7 DEF CertNext

LEMMA EdgeInit == CertInit => EdgeInv
<1> SUFFICES ASSUME CertInit PROVE EdgeInv
  OBVIOUS
<1>1. NoTask \in TaskRow /\ NoTask.done = {} /\ NoTask.op = "idle"
  BY DEF NoTask, TaskRow
<1>2. CertTypeOK
  BY <1>1, CertAssumption DEF CertAssumption, CertInit, CertTypeOK, CertRow
<1> QED BY <1>1, <1>2 DEF CertInit, EdgeInv, RevokedAtEdge, DoneAtEdge, BlocksDevices

\* A certificate the directory calls revoked is refused at the edge, whichever
\* requests overlapped, failed half-way or repeated a revocation.
THEOREM RevocationsReachEdge == CertSpec => []RevokedAtEdge
BY EdgeInit, EdgeInductive, PTL DEF CertSpec, EdgeInv

-----------------------------------------------------------------------------
(* Certificates on file, and certificates of blocked devices                 *)

\* Only a request that issues has a new certificate, and only from the
\* signature on; the certificate is for the one who asked for it.
TaskShape ==
  \A t \in Tasks :
    /\ task[t].op \in {"block", "revoke"} => task[t].pc = "edge"
    /\ task[t].new \in Certs => /\ task[t].op = "issue" /\ task[t].pc \notin {"auth", "sign"}
                                /\ cert[task[t].new].for = task[t].who
                                /\ cert[task[t].new].edge # "none"

FileInv == TaskShape /\ LiveIsOnFile

\* The device's row keeps a request that records a certificate and one that
\* blocks the device apart.
BlockExcludesRecording ==
  \A t, u \in Tasks :
    task[t].op = "block" /\ task[u].op = "issue" /\ task[t].who = task[u].who
      => task[u].pc # "edge"

\* What a request that blocks a device has still to revoke: every live
\* certificate of the device that no other request is about to record.
BlockCovers ==
  certFaults = 0 =>
    \A t \in Tasks, c \in Certs :
      task[t].op = "block" /\ cert[c].for = task[t].who /\ cert[c].edge = "live"
        => c \in task[t].todo \/ \E u \in Tasks : task[u].op = "issue" /\ task[u].new = c

\* Whoever issues a certificate to a blocked device was authenticated before.
NoneIssuedToBlocked ==
  \A t \in Tasks : task[t].op = "issue" /\ task[t].who \in CertDevices \ approved => task[t].late

BlockInv == BlockExcludesRecording /\ BlockCovers /\ NoneIssuedToBlocked /\ BlockedHasNoCert

-----------------------------------------------------------------------------
(* What a step does to the requests and to the certificates                  *)

LEMMA BeginShape ==
  ASSUME CertTypeOK, NEW t \in Tasks, NEW op, NEW h, NEW pc, NEW todo,
         Begins(t, op, h, pc, todo)
  PROVE  /\ task[t] = NoTask
         /\ task'[t].op = op /\ task'[t].who = h /\ task'[t].pc = pc
         /\ task'[t].new = Nothing /\ task'[t].todo = todo
         /\ \A u \in Tasks : u # t => task'[u] = task[u]
         /\ UNCHANGED <<approved, cert, crossed, recent, certFaults>>
<1> DEFINE r == [NoTask EXCEPT !.op = op, !.who = h, !.pc = pc, !.todo = todo]
<1>1. r.op = op /\ r.who = h /\ r.pc = pc /\ r.new = Nothing /\ r.todo = todo
  BY DEF NoTask
<1>2. /\ task' = [task EXCEPT ![t] = r] /\ task[t] = NoTask
      /\ UNCHANGED <<approved, cert, crossed, recent, certFaults>>
  BY DEF Begins
<1> HIDE DEF r
<1> QED BY <1>1, <1>2 DEF CertTypeOK

LEMMA EndShape ==
  ASSUME CertTypeOK, NEW t \in Tasks, task' = [task EXCEPT ![t] = NoTask]
  PROVE  /\ task'[t].op = "idle" /\ task'[t].new = Nothing
         /\ \A u \in Tasks : u # t => task'[u] = task[u]
BY DEF CertTypeOK, NoTask

LEMMA SignShape ==
  ASSUME CertTypeOK, NEW t \in Tasks, NEW c \in Certs, Sign(t, c)
  PROVE  /\ task[t].op = "issue" /\ task[t].pc = "sign" /\ cert[c].edge = "none"
         /\ task'[t].op = "issue" /\ task'[t].who = task[t].who /\ task'[t].pc = "record"
         /\ task'[t].new = c /\ task'[t].late = task[t].late
         /\ \A u \in Tasks : u # t => task'[u] = task[u]
         /\ cert'[c].for = task[t].who /\ cert'[c].edge = "live" /\ cert'[c].db = cert[c].db
         /\ \A b \in Certs : b # c => cert'[b] = cert[b]
         /\ UNCHANGED <<approved, crossed, recent, certFaults>>
<1>1. task[t] \in TaskRow /\ cert[c] \in CertRow
  BY DEF CertTypeOK
<1>2. /\ task' = [task EXCEPT ![t] = [task[t] EXCEPT !.pc = "record", !.new = c]]
      /\ cert' = [cert EXCEPT ![c] = [cert[c] EXCEPT !.for = task[t].who, !.edge = "live"]]
  BY DEF Sign, CertTypeOK
<1> QED BY <1>1, <1>2 DEF Sign, CertTypeOK, TaskRow, CertRow

LEMMA RecordShape ==
  ASSUME CertTypeOK, NEW t \in Tasks, Record(t)
  PROVE  /\ task[t].pc = "record" /\ ~Blocking(task[t].who)
         /\ task'[t].op = task[t].op /\ task'[t].who = task[t].who /\ task'[t].pc = "edge"
         /\ task'[t].new = task[t].new /\ task'[t].todo = task[t].todo
         /\ task'[t].late = task[t].late
         /\ \A u \in Tasks : u # t => task'[u] = task[u]
         /\ UNCHANGED <<approved, cert, crossed, recent, certFaults>>
BY DEF Record, CertTypeOK, TaskRow

LEMMA ReadCertsShape ==
  ASSUME CertTypeOK, NEW t \in Tasks, ReadCerts(t)
  PROVE  /\ task[t].op = "issue" /\ task[t].pc = "auth"
         /\ task'[t].op \in {"idle", "issue"} /\ task'[t].new \in {task[t].new, Nothing}
         /\ task'[t].op = "issue" => /\ task'[t].who = task[t].who /\ task'[t].pc = "sign"
                                     /\ task'[t].late = task[t].late
         /\ \A u \in Tasks : u # t => task'[u] = task[u]
         /\ UNCHANGED <<approved, cert, crossed, recent, certFaults>>
<1>1. /\ task[t].op = "issue" /\ task[t].pc = "auth" /\ task[t] \in TaskRow
      /\ UNCHANGED <<approved, cert, crossed, recent, certFaults>>
  BY DEF ReadCerts, CertTypeOK
<1>2. CASE task' = [task EXCEPT ![t] = NoTask]
  BY <1>1, <1>2 DEF CertTypeOK, NoTask
<1>3. CASE task' = [task EXCEPT ![t] = [task[t] EXCEPT !.pc = "sign", !.todo = Active(task[t].who)]]
  BY <1>1, <1>3 DEF CertTypeOK, TaskRow
<1> QED BY <1>2, <1>3, ReadShape

\* cf_revoke: without a fault the certificate is revoked afterwards.
LEMMA RevokeShape ==
  ASSUME CertTypeOK, NEW t \in Tasks, NEW c \in Certs, RevokeAtEdge(t, c)
  PROVE  /\ task'[t].op = task[t].op /\ task'[t].who = task[t].who /\ task'[t].pc = task[t].pc
         /\ task'[t].new = task[t].new /\ task'[t].todo = task[t].todo \ {c}
         /\ task'[t].late = task[t].late
         /\ \A u \in Tasks : u # t => task'[u] = task[u]
         /\ cert'[c].for = cert[c].for /\ cert'[c].db = cert[c].db
         /\ cert'[c].edge = cert[c].edge \/ cert'[c].edge = "revoked"
         /\ \A b \in Certs : b # c => cert'[b] = cert[b]
         /\ certFaults' = 0 => certFaults = 0 /\ cert'[c].edge = "revoked"
         /\ UNCHANGED <<approved, crossed, recent>>
<1>1. task[t] \in TaskRow /\ cert[c] \in CertRow /\ certFaults \in Nat
  BY CertAssumption DEF CertAssumption, CertTypeOK
<1>2. CASE /\ cert' = [cert EXCEPT ![c].edge = "revoked"]
           /\ task' = [task EXCEPT ![t].todo = @ \ {c}, ![t].done = @ \cup {c}]
           /\ UNCHANGED certFaults
  <2>1. /\ cert' = [cert EXCEPT ![c] = [cert[c] EXCEPT !.edge = "revoked"]]
        /\ task' = [task EXCEPT ![t] = [task[t] EXCEPT !.todo = @ \ {c}, !.done = @ \cup {c}]]
    BY <1>2 DEF CertTypeOK
  <2> QED BY <1>1, <1>2, <2>1 DEF RevokeAtEdge, CertTypeOK, TaskRow, CertRow
<1>3. CASE /\ cert' = cert
           /\ task' = [task EXCEPT ![t].todo = @ \ {c}]
           /\ IF cert[c].edge = "revoked" THEN UNCHANGED certFaults ELSE CertFault
  <2>1. certFaults' = 0 => certFaults = 0 /\ cert[c].edge = "revoked"
    BY <1>1, <1>3 DEF CertFault
  <2>2. task' = [task EXCEPT ![t] = [task[t] EXCEPT !.todo = @ \ {c}]]
    BY <1>3 DEF CertTypeOK
  <2> QED BY <1>1, <1>3, <2>1, <2>2 DEF RevokeAtEdge, CertTypeOK, TaskRow
<1> QED BY <1>2, <1>3 DEF RevokeAtEdge

\* _revoke_rows takes no live certificate off the file, and puts a new one on it.
LEMMA RowsShape ==
  ASSUME EdgeInv, NEW t \in Tasks, NEW new, RowsRevoked(new, task[t].done)
  PROVE  \A c \in Certs :
           /\ cert'[c].for = cert[c].for /\ cert'[c].edge = cert[c].edge
           /\ cert[c].edge = "live" /\ (cert[c].db = "active" \/ c = new) => cert'[c].db = "active"
<1> SUFFICES ASSUME NEW c \in Certs
             PROVE  /\ cert'[c].for = cert[c].for /\ cert'[c].edge = cert[c].edge
                    /\ cert[c].edge = "live" /\ (cert[c].db = "active" \/ c = new)
                         => cert'[c].db = "active"
  OBVIOUS
<1>1. cert[c] \in CertRow /\ (c \in task[t].done => cert[c].edge = "revoked")
  BY DEF EdgeInv, CertTypeOK, DoneAtEdge
<1>2. CASE c \in task[t].done /\ cert[c].db = "active"
  BY <1>1, <1>2 DEF RowsRevoked, CertRow
<1>3. CASE ~(c \in task[t].done /\ cert[c].db = "active") /\ c = new
  BY <1>1, <1>3 DEF RowsRevoked, CertRow
<1>4. CASE ~(c \in task[t].done /\ cert[c].db = "active") /\ c # new
  BY <1>1, <1>4 DEF RowsRevoked
<1> QED BY <1>2, <1>3, <1>4

-----------------------------------------------------------------------------
(* Certificates on file                                                      *)

LEMMA FileInductive ==
  ASSUME EdgeInv, FileInv, [CertNext]_certVars
  PROVE  FileInv'
<1> USE DEF FileInv
<1>0. CertTypeOK /\ Nothing \notin Certs
  BY CertAssumption DEF CertAssumption, EdgeInv
<1>1. ASSUME NEW t \in Tasks, NEW op \in {"issue", "block", "revoke"}, NEW h, NEW pc, NEW todo,
             Begins(t, op, h, pc, todo), op \in {"block", "revoke"} => pc = "edge"
      PROVE  FileInv'
  <2>1. /\ task[t] = NoTask
        /\ task'[t].op = op /\ task'[t].pc = pc /\ task'[t].new = Nothing
        /\ \A u \in Tasks : u # t => task'[u] = task[u]
        /\ UNCHANGED <<cert, certFaults>>
    BY <1>0, <1>1, BeginShape
  <2>2. task[t].new = Nothing
    BY <2>1 DEF NoTask
  <2>3. TaskShape'
    BY <1>0, <1>1, <2>1 DEF TaskShape
  <2>4. LiveIsOnFile'
    BY <1>0, <2>1, <2>2 DEF LiveIsOnFile
  <2> QED BY <2>3, <2>4
<1>2. ASSUME NEW t \in Tasks, NEW c \in Certs, Sign(t, c) PROVE FileInv'
  <2>1. /\ task[t].op = "issue" /\ task[t].pc = "sign" /\ cert[c].edge = "none"
        /\ task'[t].op = "issue" /\ task'[t].who = task[t].who /\ task'[t].pc = "record"
        /\ task'[t].new = c
        /\ \A u \in Tasks : u # t => task'[u] = task[u]
        /\ cert'[c].for = task[t].who /\ cert'[c].edge = "live" /\ cert'[c].db = cert[c].db
        /\ \A b \in Certs : b # c => cert'[b] = cert[b]
        /\ certFaults' = certFaults
    BY <1>0, <1>2, SignShape
  <2>2. \A u \in Tasks : task[u].new # c
    BY <2>1 DEF TaskShape
  <2>3. task[t].new \notin Certs
    BY <2>1 DEF TaskShape
  <2>4. TaskShape'
    BY <2>1, <2>2 DEF TaskShape
  <2>5. LiveIsOnFile'
    BY <2>1, <2>3 DEF LiveIsOnFile
  <2> QED BY <2>4, <2>5
<1>3. ASSUME NEW t \in Tasks, Record(t) PROVE FileInv'
  <2>1. /\ task[t].pc = "record"
        /\ task'[t].op = task[t].op /\ task'[t].who = task[t].who /\ task'[t].pc = "edge"
        /\ task'[t].new = task[t].new
        /\ \A u \in Tasks : u # t => task'[u] = task[u]
        /\ UNCHANGED <<cert, certFaults>>
    BY <1>0, <1>3, RecordShape
  <2>2. \A u \in Tasks : task'[u].new = task[u].new
    BY <2>1
  <2>3. TaskShape'
    BY <2>1 DEF TaskShape
  <2>4. LiveIsOnFile'
    BY <2>1, <2>2 DEF LiveIsOnFile
  <2> QED BY <2>3, <2>4
<1>4. ASSUME NEW t \in Tasks, NEW c \in Certs, RevokeAtEdge(t, c) PROVE FileInv'
  <2>1. /\ task'[t].op = task[t].op /\ task'[t].who = task[t].who /\ task'[t].pc = task[t].pc
        /\ task'[t].new = task[t].new
        /\ \A u \in Tasks : u # t => task'[u] = task[u]
        /\ cert'[c].for = cert[c].for /\ cert'[c].db = cert[c].db
        /\ cert'[c].edge = cert[c].edge \/ cert'[c].edge = "revoked"
        /\ \A b \in Certs : b # c => cert'[b] = cert[b]
        /\ certFaults' = 0 => certFaults = 0
    BY <1>0, <1>4, RevokeShape
  <2>2. \A u \in Tasks : task'[u].new = task[u].new
    BY <2>1
  <2>3. TaskShape'
    BY <2>1 DEF TaskShape
  <2>4. LiveIsOnFile'
    BY <2>1, <2>2 DEF LiveIsOnFile
  <2> QED BY <2>3, <2>4
<1>12. ASSUME NEW t \in Tasks, ReadCerts(t) PROVE FileInv'
  <2>1. /\ task[t].pc = "auth" /\ task[t].op = "issue"
        /\ task'[t].op \in {"idle", "issue"} /\ task'[t].new \in {task[t].new, Nothing}
        /\ \A u \in Tasks : u # t => task'[u] = task[u]
        /\ UNCHANGED <<cert, certFaults>>
    BY <1>0, <1>12, ReadCertsShape
  <2>2. task[t].new \notin Certs
    BY <2>1 DEF TaskShape
  <2>3. TaskShape'
    BY <1>0, <2>1, <2>2 DEF TaskShape
  <2>4. LiveIsOnFile'
    BY <2>1, <2>2 DEF LiveIsOnFile
  <2> QED BY <2>3, <2>4
<1>5. ASSUME NEW t \in Tasks, CommitIssue(t) \/ CommitBlock(t) \/ CommitRevokeOwn(t) PROVE FileInv'
  <2> DEFINE new == IF CommitIssue(t) THEN task[t].new ELSE Nothing
  <2>1. RowsRevoked(new, task[t].done)
    BY <1>5 DEF CommitIssue, CommitBlock, CommitRevokeOwn
  <2>2. certFaults' = certFaults
    BY <1>5 DEF CommitIssue, CommitBlock, CommitRevokeOwn
  <2>3. task[t].new \in Certs => task[t].new = new
    BY <1>5 DEF TaskShape, CommitBlock, CommitRevokeOwn
  <2> HIDE DEF new
  <2>4. \A c \in Certs :
          /\ cert'[c].for = cert[c].for /\ cert'[c].edge = cert[c].edge
          /\ cert[c].edge = "live" /\ (cert[c].db = "active" \/ c = new) => cert'[c].db = "active"
    BY <2>1, RowsShape
  <2>5. /\ task'[t].op = "idle" /\ task'[t].new = Nothing
        /\ \A u \in Tasks : u # t => /\ task'[u].op = task[u].op /\ task'[u].pc = task[u].pc
                                     /\ task'[u].new = task[u].new /\ task'[u].who = task[u].who
    <3>1. CASE CommitBlock(t)
      BY <1>0, <3>1, BlockShape
    <3>2. CASE task' = [task EXCEPT ![t] = NoTask]
      BY <1>0, <3>2, EndShape
    <3> QED BY <1>5, <3>1, <3>2 DEF CommitIssue, CommitRevokeOwn
  <2>6. TaskShape'
    BY <1>0, <2>4, <2>5 DEF TaskShape
  <2>7. LiveIsOnFile'
    BY <2>2, <2>3, <2>4, <2>5 DEF LiveIsOnFile
  <2> QED BY <2>6, <2>7
<1>6. ASSUME NEW t \in Tasks, CutOff(t) PROVE FileInv'
  <2>1. task' = [task EXCEPT ![t] = NoTask] /\ CertFault
    BY <1>6 DEF CutOff
  <2>2. certFaults' # 0
    BY <1>0, <2>1, CertAssumption DEF CertFault, CertTypeOK, CertAssumption
  <2>3. /\ task'[t].op = "idle" /\ task'[t].new = Nothing
        /\ \A u \in Tasks : u # t => task'[u] = task[u]
    BY <1>0, <2>1, EndShape
  <2>4. \A c \in Certs : cert[c].edge # "none" => cert'[c] = cert[c]
    BY <1>0, <1>6 DEF CutOff, CertTypeOK
  <2>5. TaskShape'
    BY <1>0, <2>3, <2>4 DEF TaskShape
  <2> QED BY <2>2, <2>5 DEF LiveIsOnFile
<1>7. ASSUME NEW d \in CertDevices, Readmit(d) \/ HourPasses(d) PROVE FileInv'
  BY <1>7 DEF Readmit, HourPasses, TaskShape, LiveIsOnFile
<1>8. CASE UNCHANGED certVars
  BY <1>8 DEF certVars, TaskShape, LiveIsOnFile
<1>9. ASSUME NEW t \in Tasks, NEW d \in CertDevices, BeginIssue(t, d) \/ BeginBlock(t, d)
      PROVE  FileInv'
  BY <1>1, <1>9 DEF BeginIssue, BeginBlock
<1>10. ASSUME NEW t \in Tasks, NEW o \in CertOperators, BeginOperatorIssue(t, o) PROVE FileInv'
  BY <1>1, <1>10 DEF BeginOperatorIssue
<1>11. ASSUME NEW t \in Tasks, NEW c \in Certs, BeginRevokeOwn(t, c) PROVE FileInv'
  BY <1>1, <1>11 DEF BeginRevokeOwn
<1> QED BY <1>2, <1>3, <1>4, <1>5, <1>6, <1>7, <1>8, <1>9, <1>10, <1>11, <1>12 DEF CertNext

-----------------------------------------------------------------------------
(* Certificates of blocked devices                                           *)

\* A step that begins no request, signs nothing and lets nobody be blocked.
LEMMA BlockKept ==
  ASSUME BlockInv,
         approved \subseteq approved', crossed \subseteq crossed',
         certFaults' = 0 => certFaults = 0,
         \A c \in Certs : /\ cert'[c].for = cert[c].for
                          /\ cert'[c].edge = "live" => cert[c].edge = "live",
         \A t \in Tasks :
           \/ task'[t].op \notin {"issue", "block"}
           \/ /\ task'[t].op = task[t].op /\ task'[t].who = task[t].who
              /\ task[t].late => task'[t].late
              /\ task'[t].op = "issue" /\ task'[t].pc = "edge"
                   => task[t].pc = "edge" \/ ~Blocking(task[t].who)
              /\ \A c \in task[t].todo :
                   task'[t].op = "block" /\ cert'[c].edge = "live" => c \in task'[t].todo,
         certFaults' = 0 =>
           \A u \in Tasks : task[u].op = "issue" /\ task[u].new \in Certs
             => \/ task'[u].op = "issue" /\ task'[u].new = task[u].new
                \/ ~\E t \in Tasks : task'[t].op = "block" /\ task'[t].who = cert[task[u].new].for,
         certFaults' = 0 =>
           \A u \in Tasks : task[u].late /\ task[u].new \in Certs
             => \/ task'[u].late /\ task'[u].new = task[u].new
                \/ task[u].new \in crossed'
  PROVE  BlockInv'
<1>1. BlockExcludesRecording'
  BY DEF BlockInv, BlockExcludesRecording, Blocking
<1>2. NoneIssuedToBlocked'
  BY DEF BlockInv, NoneIssuedToBlocked
<1>3. BlockedHasNoCert'
  <2> SUFFICES ASSUME certFaults' = 0, NEW c \in Certs, cert'[c].edge = "live",
                      cert'[c].for \in CertDevices \ approved'
               PROVE  c \in crossed' \/ \E t \in Tasks : task'[t].new = c /\ task'[t].late
    BY DEF BlockedHasNoCert
  <2>1. c \in crossed \/ \E t \in Tasks : task[t].new = c /\ task[t].late
    BY DEF BlockInv, BlockedHasNoCert
  <2> QED BY <2>1
<1>4. BlockCovers'
  <2> SUFFICES ASSUME certFaults' = 0, NEW t \in Tasks, NEW c \in Certs,
                      task'[t].op = "block", cert'[c].for = task'[t].who, cert'[c].edge = "live"
               PROVE  c \in task'[t].todo
                        \/ \E u \in Tasks : task'[u].op = "issue" /\ task'[u].new = c
    BY DEF BlockCovers
  <2>1. task[t].op = "block" /\ task[t].who = task'[t].who
    OBVIOUS
  <2>2. c \in task[t].todo \/ \E u \in Tasks : task[u].op = "issue" /\ task[u].new = c
    BY <2>1 DEF BlockInv, BlockCovers
  <2>3. CASE c \in task[t].todo
    BY <2>1, <2>3
  <2>4. ASSUME NEW u \in Tasks, task[u].op = "issue", task[u].new = c
        PROVE  task'[u].op = "issue" /\ task'[u].new = c
    BY <2>4
  <2> QED BY <2>2, <2>3, <2>4
<1> QED BY <1>1, <1>2, <1>3, <1>4 DEF BlockInv

\* A request is authenticated only for a device that is not blocked.
LEMMA BlockBegin ==
  ASSUME EdgeInv, FileInv, BlockInv, NEW t \in Tasks,
         NEW op \in {"issue", "block", "revoke"}, NEW h, NEW pc, NEW todo,
         Begins(t, op, h, pc, todo),
         op = "issue" => pc # "edge" /\ (h \in CertDevices => h \in approved),
         op = "block" => todo = Active(h) /\ ~Recording(h)
  PROVE  BlockInv'
<1>1. /\ task[t] = NoTask
      /\ task'[t].op = op /\ task'[t].who = h /\ task'[t].pc = pc
      /\ task'[t].new = Nothing /\ task'[t].todo = todo
      /\ \A u \in Tasks : u # t => task'[u] = task[u]
      /\ UNCHANGED <<approved, cert, crossed, recent, certFaults>>
  BY BeginShape DEF EdgeInv
<1>2. task[t].op = "idle"
  BY <1>1 DEF NoTask
<1>3. BlockExcludesRecording'
  BY <1>1, <1>2 DEF BlockInv, BlockExcludesRecording, Recording
<1>4. NoneIssuedToBlocked'
  BY <1>1 DEF BlockInv, NoneIssuedToBlocked
<1>5. BlockedHasNoCert'
  <2>1. task[t].new = Nothing /\ Nothing \notin Certs
    BY <1>1, CertAssumption DEF NoTask, CertAssumption
  <2> QED BY <1>1, <2>1 DEF BlockInv, BlockedHasNoCert
<1>6. BlockCovers'
  <2> SUFFICES ASSUME certFaults = 0, NEW x \in Tasks, NEW c \in Certs,
                      task'[x].op = "block", cert[c].for = task'[x].who, cert[c].edge = "live"
               PROVE  c \in task'[x].todo
                        \/ \E u \in Tasks : task'[u].op = "issue" /\ task'[u].new = c
    BY <1>1 DEF BlockCovers
  <2>1. \A u \in Tasks : task[u].op = "issue" /\ task[u].new = c
                         => task'[u].op = "issue" /\ task'[u].new = c
    BY <1>1, <1>2
  <2>2. CASE x = t
    <3>1. cert[c].db = "active" \/ \E u \in Tasks : task[u].new = c
      BY DEF FileInv, LiveIsOnFile
    <3>2. cert[c].db = "active" => c \in todo
      BY <1>1, <2>2 DEF Active
    <3>3. \A u \in Tasks : task[u].new = c => task[u].op = "issue"
      BY DEF FileInv, TaskShape
    <3> QED BY <1>1, <2>1, <2>2, <3>1, <3>2, <3>3
  <2>3. CASE x # t
    BY <1>1, <2>1, <2>3 DEF BlockInv, BlockCovers
  <2> QED BY <2>2, <2>3
<1> QED BY <1>3, <1>4, <1>5, <1>6 DEF BlockInv

\* A signature is for a request that is on its way to record it.
LEMMA BlockSign ==
  ASSUME EdgeInv, FileInv, BlockInv, NEW t \in Tasks, NEW c \in Certs, Sign(t, c)
  PROVE  BlockInv'
<1>1. /\ task[t].op = "issue" /\ task[t].pc = "sign" /\ cert[c].edge = "none"
      /\ task'[t].op = "issue" /\ task'[t].who = task[t].who /\ task'[t].pc = "record"
      /\ task'[t].new = c /\ task'[t].late = task[t].late
      /\ \A u \in Tasks : u # t => task'[u] = task[u]
      /\ cert'[c].for = task[t].who /\ cert'[c].edge = "live" /\ cert'[c].db = cert[c].db
      /\ \A b \in Certs : b # c => cert'[b] = cert[b]
      /\ UNCHANGED <<approved, crossed, recent, certFaults>>
  BY SignShape DEF EdgeInv
<1>2. BlockExcludesRecording' /\ NoneIssuedToBlocked'
  BY <1>1 DEF BlockInv, BlockExcludesRecording, NoneIssuedToBlocked
<1>3. BlockedHasNoCert'
  <2>1. task[t].who \in CertDevices \ approved => task'[t].late
    BY <1>1 DEF BlockInv, NoneIssuedToBlocked
  <2>2. task[t].new \notin Certs
    BY <1>1 DEF FileInv, TaskShape
  <2> SUFFICES ASSUME certFaults = 0, NEW b \in Certs, cert'[b].edge = "live",
                      cert'[b].for \in CertDevices \ approved
               PROVE  b \in crossed \/ \E u \in Tasks : task'[u].new = b /\ task'[u].late
    BY <1>1 DEF BlockedHasNoCert
  <2>3. CASE b = c
    BY <1>1, <2>1, <2>3
  <2>4. CASE b # c
    <3>1. b \in crossed \/ \E u \in Tasks : task[u].new = b /\ task[u].late
      BY <1>1, <2>4 DEF BlockInv, BlockedHasNoCert
    <3> QED BY <1>1, <2>2, <3>1
  <2> QED BY <2>3, <2>4
<1>4. BlockCovers'
  <2>1. task[t].new \notin Certs
    BY <1>1 DEF FileInv, TaskShape
  <2> SUFFICES ASSUME certFaults = 0, NEW x \in Tasks, NEW b \in Certs,
                      task'[x].op = "block", cert'[b].for = task'[x].who, cert'[b].edge = "live"
               PROVE  b \in task'[x].todo
                        \/ \E u \in Tasks : task'[u].op = "issue" /\ task'[u].new = b
    BY <1>1 DEF BlockCovers
  <2>2. CASE b = c
    BY <1>1, <2>2
  <2>3. CASE b # c
    <3>1. x # t /\ task[x] = task'[x] /\ cert'[b] = cert[b]
      BY <1>1, <2>3
    <3>2. b \in task[x].todo \/ \E u \in Tasks : task[u].op = "issue" /\ task[u].new = b
      BY <3>1 DEF BlockInv, BlockCovers
    <3>3. \A u \in Tasks : task[u].new = b => u # t
      BY <2>1
    <3> QED BY <1>1, <3>1, <3>2, <3>3
  <2> QED BY <2>2, <2>3
<1> QED BY <1>2, <1>3, <1>4 DEF BlockInv

\* The request that blocks a device commits when nothing is left to revoke.
LEMMA BlockCommit ==
  ASSUME EdgeInv, FileInv, BlockInv, NEW t \in Tasks, CommitBlock(t)
  PROVE  BlockInv'
<1> DEFINE d == task[t].who
<1>1. /\ task[t].op = "block" /\ task[t].todo = {} /\ approved' = approved \ {d}
      /\ RowsRevoked(Nothing, task[t].done)
      /\ certFaults' = certFaults /\ crossed' = crossed
  BY DEF CommitBlock
<1>2. \A c \in Certs : cert'[c].for = cert[c].for /\ cert'[c].edge = cert[c].edge
  BY <1>1, RowsShape
<1>3. /\ task'[t].op = "idle"
      /\ \A u \in Tasks : u # t =>
           /\ task'[u].op = task[u].op /\ task'[u].who = task[u].who /\ task'[u].pc = task[u].pc
           /\ task'[u].new = task[u].new /\ task'[u].todo = task[u].todo
           /\ task[u].late => task'[u].late
           /\ task[u].op = "issue" /\ task[u].who = d => task'[u].late
  BY BlockShape DEF EdgeInv
<1>0. \A c \in Certs : task[t].new # c
  BY <1>1 DEF FileInv, TaskShape
<1> HIDE DEF d
<1>4. BlockExcludesRecording'
  BY <1>3 DEF BlockInv, BlockExcludesRecording
<1>5. NoneIssuedToBlocked'
  <2> SUFFICES ASSUME NEW u \in Tasks, task'[u].op = "issue", task'[u].who \in CertDevices \ approved'
               PROVE  task'[u].late
    BY DEF NoneIssuedToBlocked
  <2>1. u # t /\ task[u].op = "issue" /\ task'[u].who = task[u].who
    BY <1>3
  <2>2. CASE task[u].who = d
    BY <1>3, <2>1, <2>2
  <2>3. CASE task[u].who # d
    BY <1>1, <1>3, <2>1, <2>3 DEF BlockInv, NoneIssuedToBlocked
  <2> QED BY <2>2, <2>3
<1>6. BlockCovers'
  <2> SUFFICES ASSUME certFaults = 0, NEW x \in Tasks, NEW c \in Certs,
                      task'[x].op = "block", cert[c].for = task'[x].who, cert[c].edge = "live"
               PROVE  c \in task'[x].todo
                        \/ \E u \in Tasks : task'[u].op = "issue" /\ task'[u].new = c
    BY <1>1, <1>2 DEF BlockCovers
  <2>1. x # t /\ task[x].op = "block" /\ task'[x].who = task[x].who /\ task'[x].todo = task[x].todo
    BY <1>3
  <2>2. c \in task[x].todo \/ \E u \in Tasks : task[u].op = "issue" /\ task[u].new = c
    BY <2>1 DEF BlockInv, BlockCovers
  <2>3. \A u \in Tasks : task[u].op = "issue" => task'[u].op = "issue" /\ task'[u].new = task[u].new
    BY <1>1, <1>3
  <2> QED BY <2>1, <2>2, <2>3
<1>7. BlockedHasNoCert'
  <2> SUFFICES ASSUME certFaults = 0, NEW c \in Certs, cert[c].edge = "live",
                      cert[c].for \in CertDevices \ approved'
               PROVE  c \in crossed \/ \E u \in Tasks : task'[u].new = c /\ task'[u].late
    BY <1>1, <1>2 DEF BlockedHasNoCert
  <2>1. CASE cert[c].for = d
    <3>1. PICK u \in Tasks : task[u].op = "issue" /\ task[u].new = c
      BY <1>1, <2>1 DEF d, BlockInv, BlockCovers
    <3>2. task[u].who = d
      BY <2>1, <3>1 DEF FileInv, TaskShape
    <3>3. u # t
      BY <1>1, <3>1
    <3> QED BY <1>3, <3>1, <3>2, <3>3
  <2>2. CASE cert[c].for # d
    <3>1. c \in crossed \/ \E u \in Tasks : task[u].new = c /\ task[u].late
      BY <1>1, <2>2 DEF BlockInv, BlockedHasNoCert
    <3> QED BY <1>0, <1>3, <3>1
  <2> QED BY <2>1, <2>2
<1> QED BY <1>4, <1>5, <1>6, <1>7 DEF BlockInv

\* The other steps.
LEMMA BlockOther ==
  ASSUME EdgeInv, FileInv, BlockInv, NEW t \in Tasks,
         \/ ReadCerts(t) \/ Record(t) \/ CommitIssue(t) \/ CommitRevokeOwn(t) \/ CutOff(t)
         \/ \E c \in Certs : RevokeAtEdge(t, c)
  PROVE  BlockInv'
<1>0. CertTypeOK /\ Nothing \notin Certs
  BY CertAssumption DEF CertAssumption, EdgeInv
<1>1. CASE Record(t)
  <2>1. /\ task[t].pc = "record" /\ ~Blocking(task[t].who)
        /\ task'[t].op = task[t].op /\ task'[t].who = task[t].who /\ task'[t].pc = "edge"
        /\ task'[t].new = task[t].new /\ task'[t].todo = task[t].todo
        /\ task'[t].late = task[t].late
        /\ \A u \in Tasks : u # t => task'[u] = task[u]
        /\ UNCHANGED <<approved, cert, crossed, recent, certFaults>>
    BY <1>0, <1>1, RecordShape
  <2> QED BY <2>1, BlockKept
<1>2. CASE CommitIssue(t)
  <2>1. /\ task[t].op = "issue" /\ task[t].pc = "edge" /\ RowsRevoked(task[t].new, task[t].done)
        /\ task' = [task EXCEPT ![t] = NoTask] /\ UNCHANGED <<approved, certFaults>>
        /\ crossed \subseteq crossed' /\ (task[t].late /\ task[t].new \in Certs => task[t].new \in crossed')
    BY <1>2 DEF CommitIssue
  <2>2. \A c \in Certs : cert'[c].for = cert[c].for /\ cert'[c].edge = cert[c].edge
    BY <2>1, RowsShape
  <2>3. task'[t].op = "idle" /\ \A u \in Tasks : u # t => task'[u] = task[u]
    BY <1>0, <2>1, EndShape
  <2>4. task[t].new \in Certs
          => ~\E u \in Tasks : task'[u].op = "block" /\ task'[u].who = cert[task[t].new].for
    BY <2>1, <2>3 DEF FileInv, TaskShape, BlockInv, BlockExcludesRecording
  <2> QED BY <2>1, <2>2, <2>3, <2>4, BlockKept
<1>3. CASE CommitRevokeOwn(t)
  <2>1. /\ task[t].op = "revoke" /\ RowsRevoked(Nothing, task[t].done)
        /\ task' = [task EXCEPT ![t] = NoTask] /\ UNCHANGED <<approved, crossed, certFaults>>
    BY <1>3 DEF CommitRevokeOwn
  <2>2. \A c \in Certs : cert'[c].for = cert[c].for /\ cert'[c].edge = cert[c].edge
    BY <2>1, RowsShape
  <2>3. task'[t].op = "idle" /\ \A u \in Tasks : u # t => task'[u] = task[u]
    BY <1>0, <2>1, EndShape
  <2>4. task[t].new \notin Certs
    BY <2>1 DEF FileInv, TaskShape
  <2> QED BY <2>1, <2>2, <2>3, <2>4, BlockKept
<1>4. CASE CutOff(t)
  <2>1. /\ task' = [task EXCEPT ![t] = NoTask] /\ CertFault /\ UNCHANGED <<approved, crossed>>
    BY <1>4 DEF CutOff
  <2>2. certFaults' # 0
    BY <1>0, <2>1, CertAssumption DEF CertFault, CertTypeOK, CertAssumption
  <2>3. task'[t].op = "idle" /\ \A u \in Tasks : u # t => task'[u] = task[u]
    BY <1>0, <2>1, EndShape
  <2>4. BlockExcludesRecording' /\ NoneIssuedToBlocked'
    BY <2>1, <2>3 DEF BlockInv, BlockExcludesRecording, NoneIssuedToBlocked
  <2> QED BY <2>2, <2>4 DEF BlockInv, BlockCovers, BlockedHasNoCert
<1>5. ASSUME NEW c \in Certs, RevokeAtEdge(t, c) PROVE BlockInv'
  <2>1. /\ task'[t].op = task[t].op /\ task'[t].who = task[t].who /\ task'[t].pc = task[t].pc
        /\ task'[t].new = task[t].new /\ task'[t].todo = task[t].todo \ {c}
        /\ task'[t].late = task[t].late
        /\ \A u \in Tasks : u # t => task'[u] = task[u]
        /\ cert'[c].for = cert[c].for
        /\ cert'[c].edge = cert[c].edge \/ cert'[c].edge = "revoked"
        /\ \A b \in Certs : b # c => cert'[b] = cert[b]
        /\ certFaults' = 0 => certFaults = 0 /\ cert'[c].edge = "revoked"
        /\ UNCHANGED <<approved, crossed, recent>>
    BY <1>0, <1>5, RevokeShape
  <2>2. CASE certFaults' = 0
    BY <2>1, <2>2, BlockKept
  <2>3. CASE certFaults' # 0
    <3>1. BlockExcludesRecording' /\ NoneIssuedToBlocked'
      BY <2>1 DEF BlockInv, BlockExcludesRecording, NoneIssuedToBlocked
    <3> QED BY <2>3, <3>1 DEF BlockInv, BlockCovers, BlockedHasNoCert
  <2> QED BY <2>2, <2>3
<1>6. CASE ReadCerts(t)
  <2>1. /\ task[t].op = "issue" /\ task[t].pc = "auth"
        /\ task'[t].op \in {"idle", "issue"} /\ task'[t].new \in {task[t].new, Nothing}
        /\ task'[t].op = "issue" => /\ task'[t].who = task[t].who /\ task'[t].pc = "sign"
                                    /\ task'[t].late = task[t].late
        /\ \A u \in Tasks : u # t => task'[u] = task[u]
        /\ UNCHANGED <<approved, cert, crossed, recent, certFaults>>
    BY <1>0, <1>6, ReadCertsShape
  <2>2. task[t].new \notin Certs
    BY <2>1 DEF FileInv, TaskShape
  <2> QED BY <2>1, <2>2, BlockKept
<1> QED BY <1>1, <1>2, <1>3, <1>4, <1>5, <1>6

LEMMA BlockInductive ==
  ASSUME EdgeInv, FileInv, BlockInv, [CertNext]_certVars
  PROVE  BlockInv'
<1>1. ASSUME NEW t \in Tasks, NEW d \in CertDevices, BeginIssue(t, d) \/ BeginBlock(t, d)
      PROVE  BlockInv'
  BY <1>1, BlockBegin DEF BeginIssue, BeginBlock
<1>2. ASSUME NEW t \in Tasks, NEW o \in CertOperators, BeginOperatorIssue(t, o) PROVE BlockInv'
  BY <1>2, BlockBegin, CertAssumption DEF BeginOperatorIssue, CertAssumption
<1>3. ASSUME NEW t \in Tasks, NEW c \in Certs, BeginRevokeOwn(t, c) PROVE BlockInv'
  BY <1>3, BlockBegin DEF BeginRevokeOwn
<1>4. ASSUME NEW t \in Tasks, NEW c \in Certs, Sign(t, c) \/ RevokeAtEdge(t, c) PROVE BlockInv'
  BY <1>4, BlockSign, BlockOther
<1>5. ASSUME NEW t \in Tasks,
             \/ ReadCerts(t) \/ Record(t) \/ CommitIssue(t)
             \/ CommitBlock(t) \/ CommitRevokeOwn(t) \/ CutOff(t)
      PROVE  BlockInv'
  BY <1>5, BlockCommit, BlockOther
<1>6. ASSUME NEW d \in CertDevices, Readmit(d) \/ HourPasses(d) PROVE BlockInv'
  BY <1>6 DEF Readmit, HourPasses, BlockInv, BlockExcludesRecording, BlockCovers,
              NoneIssuedToBlocked, BlockedHasNoCert
<1>7. CASE UNCHANGED certVars
  BY <1>7 DEF certVars, BlockInv, BlockExcludesRecording, BlockCovers, NoneIssuedToBlocked,
              BlockedHasNoCert
<1> QED BY <1>1, <1>2, <1>3, <1>4, <1>5, <1>6, <1>7 DEF CertNext

LEMMA CertsInit == CertInit => FileInv /\ BlockInv
BY CertAssumption DEF CertAssumption, CertInit, FileInv, TaskShape, LiveIsOnFile, BlockInv,
   BlockExcludesRecording, BlockCovers, NoneIssuedToBlocked, BlockedHasNoCert, NoTask

\* Until a call to Cloudflare or a request fails, every certificate that the edge
\* accepts is on file or about to be recorded, so that it can be revoked.
THEOREM LiveCertsOnFile == CertSpec => []LiveIsOnFile
BY EdgeInit, EdgeInductive, CertsInit, FileInductive, PTL DEF CertSpec, FileInv

\* Until then, a live certificate of a blocked device is one whose request the
\* block overtook: change_device_status finds and revokes every other one.
THEOREM BlockedCertsRevoked == CertSpec => []BlockedHasNoCert
BY EdgeInit, EdgeInductive, CertsInit, FileInductive, BlockInductive, PTL DEF CertSpec, BlockInv
=============================================================================
