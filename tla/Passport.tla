------------------------------ MODULE Passport ------------------------------
(***************************************************************************)
(* Device passports.  RDS queues jobs for one device (ca_jobs) as it is    *)
(* approved, blocked and re-enrolled and as its client asks for renewals   *)
(* and key updates; the link (ca_link) hands the jobs to the signer on the *)
(* CA machine and takes its answers; the signer keeps its own record of    *)
(* the device.  Jobs of different devices share nothing but the queue.     *)
(*                                                                         *)
(* The directory's side is ManagedAccess, which DeviceLifecycle            *)
(* implements.  A batch of jobs, or of answers, may be lost on the way or  *)
(* handed out again before its answer arrives, a write of the signer may   *)
(* fail and the signer may restart; MaxFaults bounds how often.            *)
(*                                                                         *)
(* Operators named Fault... are plausible slips in the definition that     *)
(* follows them; they are not part of the specification.                   *)
(***************************************************************************)
EXTENDS Naturals, FiniteSets

CONSTANTS
  Device,      \* the managed_devices row
  Keys,        \* public keys
  Nonces,      \* nonces: each names one signed request, however often it is sent
  None,        \* no key, no nonce
  MaxJobs,     \* bound on jobs queued
  MaxFaults    \* bound on losses, early repeats, failed inserts and writes, restarts

ASSUME PassportAssumption ==
  /\ None \notin Keys \cup Nonces
  /\ MaxJobs \in Nat /\ MaxFaults \in Nat

VARIABLES
  st, access, grant,   \* the directory, as in ManagedAccess
  unqueued,  \* history: the device was shut out last without a revoke job
  rdk,       \* managed_devices.device_public_key
  idk,       \* managed_devices.identity_public_key
  call,      \* a passport request of the device is authenticated, not yet served
  last,      \* id of the newest job
  job,       \* ca_jobs
  passport,  \* the newest of device_passports: the job that brought it, its key
  valid,     \* passport_expires_at is in the future
  mem, disk, \* the signer's record of the device, in memory and in devices.json
  batch,     \* jobs the signer has received and not processed
  results,   \* its answers, not yet posted
  wire,      \* answers on their way to RDS
  landed,    \* post_results is taking the answers on the wire, in its transaction
  faults,    \* faults so far
  aged,      \* nonces whose request is older than REQUEST_MAX_AGE
  spent      \* history: nonces for which the signer has answered with a passport

dirVars    == <<st, access, grant, unqueued>>
rowVars    == <<rdk, idk, passport, valid>>
queueVars  == <<last, job>>
signerVars == <<mem, disk, batch, results, spent>>
linkVars   == <<wire, landed>>
vars == <<dirVars, rowVars, call, queueVars, signerVars, linkVars, faults, aged>>

Directory == INSTANCE ManagedAccess WITH Devices <- {Device}

-----------------------------------------------------------------------------
JobIds     == 1 .. MaxJobs
IssueKinds == {"approve", "bootstrap"}     \* kind issue, by payload.reason
AskedKinds == {"renew", "keyupdate"}
JobKinds   == IssueKinds \cup AskedKinds \cup {"revoke"}

\* A job: the key it is about (for a key update the new one), the key that
\* signed the client's request, the request's nonce, and where the job is:
\* never handed out or overdue, handed out, or closed, that is answered or
\* deleted with its device (nothing reads it any more).
NoJob  == [kind |-> "none", idk |-> None, by |-> None, nonce |-> None, at |-> "none"]
Closed == [NoJob EXCEPT !.at = "closed"]
Jobs   == [kind : JobKinds, idk : Keys \cup {None}, by : Keys \cup {None},
           nonce : Nonces \cup {None}, at : {"waiting", "out"}]
            \cup {NoJob, Closed}

Records == [status : {"none", "approved", "revoked"}, idk : Keys \cup {None},
            nonces : SUBSET Nonces]
Handed  == [id : JobIds, kind : JobKinds, idk : Keys \cup {None}, by : Keys \cup {None},
            nonce : Nonces \cup {None}]
Answers == [id : JobIds, ok : BOOLEAN, idk : Keys \cup {None}]

Unknown    == [status |-> "none", idk |-> None, nonces |-> {}]
NoPassport == [job |-> 0, idk |-> None]

TypeOK ==
  /\ st \in [{Device} -> {"absent", "pending", "approved", "denied", "blocked",
                          "revoked", "deleted"}]
  /\ access \in [{Device} -> BOOLEAN]
  /\ grant \in [{Device} -> BOOLEAN]
  /\ unqueued \in BOOLEAN
  /\ rdk \in Keys \cup {None}
  /\ idk \in Keys \cup {None}
  /\ call \in BOOLEAN
  /\ last \in 0 .. MaxJobs
  /\ job \in [JobIds -> Jobs]
  /\ \A j \in JobIds : j > last <=> job[j].at = "none"
  /\ passport \in [job : 0 .. MaxJobs, idk : Keys \cup {None}]
  /\ valid \in BOOLEAN
  /\ \A r \in {mem, disk} :      \* no record without an approval, none without a key
       r \in Records /\ (r.status = "none" <=> r = Unknown) /\ (r.status = "none" <=> r.idk = None)
  /\ batch \subseteq Handed
  /\ results \subseteq Answers
  /\ wire \subseteq Answers
  /\ landed \in BOOLEAN
  /\ faults \in 0 .. MaxFaults
  /\ aged \subseteq Nonces
  /\ spent \subseteq Nonces

Init ==
  /\ Directory!Init /\ unqueued = FALSE
  /\ rdk = None /\ idk = None
  /\ call = FALSE
  /\ last = 0
  /\ job = [j \in JobIds |-> NoJob]
  /\ passport = NoPassport /\ valid = FALSE
  /\ mem = Unknown /\ disk = Unknown
  /\ batch = {} /\ results = {}
  /\ wire = {} /\ landed = FALSE
  /\ faults = 0
  /\ aged = {} /\ spent = {}

-----------------------------------------------------------------------------
(* RDS: decisions about the device and requests of its client.  The mode    *)
(* setting may be switched off and on at any time, so it is a choice made   *)
(* where it is read: with passports off nothing but a revoke is queued.     *)

\* _on_file_key: the identity key, or the RustDesk key until a key update.
OnFile == IF idk = None THEN rdk ELSE idk

Enqueue(kind, k, by, n) ==
  /\ last < MaxJobs
  /\ last' = last + 1
  /\ job' = [job EXCEPT ![last + 1] =
               [kind |-> kind, idk |-> k, by |-> by, nonce |-> n,
                at |-> "waiting"]]

Open(j) == job[j].at \in {"waiting", "out"}

Fault == faults < MaxFaults /\ faults' = faults + 1

EnrollDevice(k) ==
  /\ Directory!Enroll(Device)
  /\ rdk' = k
  /\ UNCHANGED <<unqueued, idk, passport, valid, call, queueVars, signerVars, linkVars, faults, aged>>

\* approve_device queues the passport unless passports are off.
ApproveDevice ==
  /\ Directory!Approve(Device) /\ unqueued' = FALSE
  /\ Enqueue("approve", OnFile, None, None) \/ UNCHANGED queueVars
  /\ UNCHANGED <<rowVars, call, signerVars, linkVars, faults, aged>>

DenyOrGrant ==
  /\ Directory!Deny(Device) \/ Directory!Grant(Device)
  /\ UNCHANGED <<unqueued, rowVars, call, queueVars, signerVars, linkVars, faults, aged>>

\* change_device_status to blocked or revoked queues a revoke, whatever the mode,
\* in a savepoint: if that fails the status changes all the same.
ShutOut ==
  /\ Directory!Block(Device) \/ Directory!Revoke(Device)
  /\ \/ Enqueue("revoke", None, None, None) /\ unqueued' = FALSE /\ UNCHANGED faults
     \/ Fault /\ unqueued' = TRUE /\ UNCHANGED queueVars
  /\ UNCHANGED <<rowVars, call, signerVars, linkVars, aged>>

\* A device that re-enrolls may bring another RustDesk key; its identity key
\* stays on file.
ReturnDevice(k) ==
  /\ Directory!Return(Device)
  /\ rdk' = k /\ unqueued' = FALSE
  /\ UNCHANGED <<idk, passport, valid, call, queueVars, signerVars, linkVars, faults, aged>>

\* Jobs and passports go with the row (ON DELETE CASCADE).
DeleteDevice ==
  /\ Directory!Delete(Device) /\ unqueued' = FALSE
  /\ rdk' = None /\ idk' = None
  /\ passport' = NoPassport /\ valid' = FALSE
  /\ job' = [j \in JobIds |-> IF j > last THEN job[j] ELSE Closed]
  /\ UNCHANGED <<call, last, signerVars, linkVars, faults, aged>>

\* require_device, in a transaction of its own.
Authenticate ==
  /\ access[Device]
  /\ call' = TRUE
  /\ UNCHANGED <<dirVars, rowVars, queueVars, signerVars, linkVars, faults, aged>>

\* At most two renewals or key updates of a device wait.
RoomForRequest ==
  Cardinality({j \in JobIds : job[j].kind \in AskedKinds /\ Open(j)}) < 2

\* renew_device_passport: signed by some key of the client; RDS does not look.
renew_device_passport(k, n) ==
  /\ call /\ call' = FALSE
  /\ OnFile # None /\ RoomForRequest
  /\ Enqueue("renew", None, k, n)
  /\ UNCHANGED <<dirVars, rowVars, signerVars, linkVars, faults, aged>>

\* update_device_identity_key: RDS itself checks that the key on file signed,
\* and recently.
update_device_identity_key(new, n) ==
  /\ call /\ call' = FALSE
  /\ OnFile # None /\ RoomForRequest
  /\ n \notin aged
  /\ Enqueue("keyupdate", new, OnFile, n)
  /\ UNCHANGED <<dirVars, rowVars, signerVars, linkVars, faults, aged>>

\* ca_issue_all, for this device.
ca_issue_all ==
  /\ st[Device] = "approved" /\ ~valid
  /\ ~\E j \in JobIds : job[j].kind \in IssueKinds /\ Open(j)
  /\ Enqueue("bootstrap", OnFile, None, None)
  /\ UNCHANGED <<dirVars, rowVars, call, signerVars, linkVars, faults, aged>>

-----------------------------------------------------------------------------
(* The link                                                                *)

\* The job is with the signer, or its answer is on its way.
InHand(j) == \E r \in batch \cup results \cup wire : r.id = j

Hand(j) == [id |-> j, kind |-> job[j].kind, idk |-> job[j].idk, by |-> job[j].by,
            nonce |-> job[j].nonce]

\* get_jobs: everything waiting, unless the answer to the poll is lost.  The
\* signer polls when its last post has been taken or has failed.
get_jobs(received) ==
  LET picked == {j \in JobIds : job[j].at = "waiting"} IN
  /\ batch = {} /\ results = {} /\ wire = {}
  /\ picked # {}
  /\ job' = [j \in JobIds |-> IF j \in picked THEN [job[j] EXCEPT !.at = "out"] ELSE job[j]]
  /\ \/ received /\ batch' = {Hand(j) : j \in picked} /\ UNCHANGED faults
     \/ ~received /\ Fault /\ UNCHANGED batch
  /\ UNCHANGED <<dirVars, rowVars, call, last, mem, disk, results, spent, linkVars, aged>>

FaultOverdue(j) ==
  /\ job[j].at = "out"
  /\ InHand(j)
  /\ job' = [job EXCEPT ![j].at = "waiting"]
  /\ Fault
  /\ UNCHANGED <<dirVars, rowVars, call, last, signerVars, linkVars, aged>>

\* REDELIVER_AFTER has passed.  While the signer is at the job, or its answer
\* under way, that takes an unusually slow signer or link.
Overdue(j) ==
  /\ job[j].at = "out"
  /\ job' = [job EXCEPT ![j].at = "waiting"]
  /\ IF InHand(j) THEN Fault ELSE UNCHANGED faults
  /\ UNCHANGED <<dirVars, rowVars, call, last, signerVars, linkVars, aged>>

\* The signer posts the answers to a batch together.
PostAnswers ==
  /\ batch = {} /\ results # {}
  /\ wire' = results /\ results' = {}
  /\ UNCHANGED <<dirVars, rowVars, call, queueVars, mem, disk, batch, spent, landed, faults, aged>>

LoseAnswers ==
  /\ wire # {} /\ ~landed
  /\ Fault
  /\ wire' = {}
  /\ UNCHANGED <<dirVars, rowVars, call, queueVars, signerVars, landed, aged>>

AnswersArrive ==
  /\ wire # {}
  /\ landed' = TRUE
  /\ UNCHANGED <<dirVars, rowVars, call, queueVars, signerVars, wire, faults, aged>>

FaultExpected(j) == job[j].idk

\* passport_mismatch: the key an answer must carry - for a key update the one
\* RDS verified when it queued the job, otherwise the one on file now.
Expected(j) == IF job[j].kind = "keyupdate" THEN job[j].idk ELSE OnFile

\* post_results, one answer of its transaction: the first answer to a job
\* counts; a passport for the expected key is stored, whatever the device's
\* status, and a key update becomes the key on file.
post_results(r) ==
  LET j == r.id
      taken == Open(j) /\ r.idk # None /\ r.idk = Expected(j)
  IN
  /\ \A q \in wire : r.id <= q.id
  /\ wire' = wire \ {r}
  /\ landed' = (wire' # {})
  /\ job' = IF Open(j) THEN [job EXCEPT ![j] = Closed] ELSE job
  /\ passport' = IF taken THEN [job |-> j, idk |-> r.idk] ELSE passport
  /\ valid' = (taken \/ valid)
  /\ idk' = IF taken /\ job[j].kind = "keyupdate" THEN job[j].idk ELSE idk
  /\ UNCHANGED <<dirVars, rdk, call, last, signerVars, faults, aged>>

-----------------------------------------------------------------------------
(* The signer                                                              *)

FaultIsNext(b) == \A c \in batch : b.id >= c.id

\* Jobs come sorted by id.
IsNext(b) == \A c \in batch : b.id <= c.id

\* handle_issue: another key for a known device only with a fresh approval.
IssueAllowed(b) ==
  \/ mem.status = "none"
  \/ mem.idk = b.idk
  \/ b.kind = "approve"

\* handle_renew and handle_key_update up to the nonce: an approved device, a
\* recent request signed by the key the signer has on file.
RequestGood(b) ==
  /\ mem.status = "approved"
  /\ b.by = mem.idk
  /\ b.nonce \notin aged \cup mem.nonces

FaultAsked(b) == [mem EXCEPT !.idk = IF b.kind = "keyupdate" THEN b.idk ELSE @]

\* The record after the nonce is noted and a key update is applied.
Asked(b) == [mem EXCEPT !.nonces = @ \cup {b.nonce},
                        !.idk = IF b.kind = "keyupdate" THEN b.idk ELSE @]

\* The record a job leads to, when policy lets it through.
Granted(b) ==
  CASE b.kind \in IssueKinds -> [mem EXCEPT !.status = "approved", !.idk = b.idk]
    [] b.kind \in AskedKinds -> Asked(b)
    [] b.kind = "revoke" -> [mem EXCEPT !.status = IF @ = "none" THEN @ ELSE "revoked"]

Passes(b) ==
  \/ b.kind \in IssueKinds /\ IssueAllowed(b)
  \/ b.kind \in AskedKinds /\ RequestGood(b)
  \/ b.kind = "revoke"

Answer(b, ok, k) ==
  /\ batch' = batch \ {b}
  /\ results' = results \cup {[id |-> b.id, ok |-> ok, idk |-> k]}
  /\ UNCHANGED <<dirVars, rowVars, call, queueVars, linkVars, aged>>

\* process, when everything works: the record is saved before the answer.
Process(b) ==
  /\ IsNext(b)
  /\ Passes(b)
  /\ mem' = Granted(b)
  /\ disk' = Granted(b)
  /\ spent' = IF b.kind \in AskedKinds THEN spent \cup {b.nonce} ELSE spent
  /\ Answer(b, TRUE, IF b.kind = "revoke" THEN None ELSE Granted(b).idk)
  /\ UNCHANGED faults

\* Refused by policy, for an unknown key protection, or, for an issue or a
\* renewal, by the hourly rate, whose count is not kept here: the nonce of a
\* renewal is then used up in memory.
Refuse(b) ==
  /\ IsNext(b)
  /\ ~Passes(b) \/ b.kind # "revoke"
  /\ mem' = IF Passes(b) /\ b.kind = "renew" THEN Asked(b) ELSE mem
  /\ Answer(b, FALSE, None)
  /\ UNCHANGED <<disk, spent, faults>>

\* The log or the state file cannot be written: an error is answered, and the
\* record in memory is ahead of the one on disk until the next save.
FailToSave(b) ==
  /\ IsNext(b)
  /\ Passes(b)
  /\ Fault
  /\ mem' = Granted(b)
  /\ Answer(b, FALSE, None)
  /\ UNCHANGED <<disk, spent>>

\* The signer stops anywhere and starts from devices.json.
RestartSigner ==
  /\ Fault
  /\ mem' = disk
  /\ batch' = {} /\ results' = {}
  /\ UNCHANGED <<dirVars, rowVars, call, queueVars, disk, spent, linkVars, aged>>

-----------------------------------------------------------------------------
(* Time                                                                    *)

\* A signed request gets older than REQUEST_MAX_AGE.
RequestAges(n) ==
  /\ n \notin aged
  /\ aged' = aged \cup {n}
  /\ UNCHANGED <<dirVars, rowVars, call, queueVars, signerVars, linkVars, faults>>

\* NONCE_KEEP is longer than a request stays acceptable, even one dated ahead.
NonceForgotten(n) ==
  /\ n \in mem.nonces \cap aged
  /\ mem' = [mem EXCEPT !.nonces = @ \ {n}]
  /\ UNCHANGED <<dirVars, rowVars, call, queueVars, disk, batch, results, spent, linkVars, faults, aged>>

PassportExpires ==
  /\ valid
  /\ valid' = FALSE
  /\ UNCHANGED <<dirVars, rdk, idk, passport, call, queueVars, signerVars, linkVars, faults, aged>>

-----------------------------------------------------------------------------
DirectoryStep ==
  \/ \E k \in Keys : EnrollDevice(k) \/ ReturnDevice(k)
  \/ ApproveDevice \/ DenyOrGrant \/ ShutOut \/ DeleteDevice \/ Authenticate
  \/ \E k \in Keys, n \in Nonces : renew_device_passport(k, n) \/ update_device_identity_key(k, n)
  \/ ca_issue_all

SignerStep == \E b \in batch : Process(b) \/ Refuse(b) \/ FailToSave(b)

LinkStep ==
  \/ \E received \in BOOLEAN : get_jobs(received)
  \/ \E j \in JobIds : Overdue(j)
  \/ PostAnswers \/ LoseAnswers \/ AnswersArrive

TimeStep ==
  \/ \E n \in Nonces : RequestAges(n) \/ NonceForgotten(n)
  \/ PassportExpires

\* post_results runs to its commit without another transaction in between.
Next ==
  \/ landed /\ \E r \in wire : post_results(r)
  \/ ~landed /\ (DirectoryStep \/ SignerStep \/ RestartSigner \/ LinkStep \/ TimeStep)

Spec == Init /\ [][Next]_vars

\* The signer polls, works and posts for ever, RDS takes what reaches it, and a
\* job that stays unanswered becomes overdue.
LiveSpec ==
  /\ Spec
  /\ WF_vars(landed /\ \E r \in wire : post_results(r))
  /\ WF_vars(~landed /\ SignerStep)
  /\ WF_vars(~landed /\ (get_jobs(TRUE) \/ PostAnswers \/ AnswersArrive))
  /\ \A j \in JobIds : WF_vars(~landed /\ Overdue(j))

-----------------------------------------------------------------------------
(* Properties                                                              *)

\* "the CA alone can't re-key a device (the two-box rule)": a passport is
\* stored only for the key RDS has on file once the answer is taken, and the
\* identity key only ever becomes one that a waiting key update of this device
\* named when RDS verified it.
TwoBoxRule ==
  [][/\ passport' \notin {passport, NoPassport} => passport'.idk = OnFile'
     /\ idk' \notin {idk, None} =>
          \E j \in JobIds : job[j].kind = "keyupdate" /\ Open(j) /\ job[j].idk = idk']_vars

\* A signed request leads to at most one passport, however
\* often its job is handed out and wherever the signer is restarted.
NoReplay ==
  [][\A b \in batch \ batch' :
       b.kind \in AskedKinds /\ (\E r \in results' : r.id = b.id /\ r.idk # None)
         => b.nonce \notin spent]_vars

\* Nothing is waiting, in the signer's hands or on the way.
Quiet ==
  /\ \A j \in JobIds : ~Open(j)
  /\ batch = {} /\ results = {} /\ wire = {}

\* "the CA VM stops renewing for blocked/revoked devices": once every job is
\* answered, the signer does not hold a blocked or revoked device as approved,
\* unless its revoke job could not be queued.
ShutOutReachesSigner ==
  Quiet /\ st[Device] \in {"blocked", "revoked"} /\ ~unqueued => mem.status # "approved"

\* The same as long as nothing was lost, repeated or restarted.
ReliableShutOut == faults = 0 => ShutOutReachesSigner

\* The key of a device both sides hold as approved is the same on both once
\* every job is answered.
KeysAgree ==
  Quiet /\ st[Device] = "approved" /\ mem.status = "approved" => mem.idk = OnFile

\* Every job is eventually answered, unless its device is deleted first.
JobsAnswered ==
  \A j \in JobIds : Open(j) ~> ~Open(j)

=============================================================================
