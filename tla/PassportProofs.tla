--------------------------- MODULE PassportProofs ---------------------------
(***************************************************************************)
(* What holds of Passport for any keys, any nonces, any number of jobs and *)
(* any number of faults.                                                   *)
(***************************************************************************)
EXTENDS Passport, TLAPS

USE DEF vars, dirVars, rowVars, queueVars, signerVars, linkVars, JobIds

-----------------------------------------------------------------------------
(* Types                                                                    *)

LEMMA TypeInit == Init => TypeOK
<1> SUFFICES ASSUME Init PROVE TypeOK OBVIOUS
<1>1. /\ job \in [JobIds -> Jobs]
      /\ \A j \in JobIds : j > last <=> job[j].at = "none"
  BY PassportAssumption DEF Init, NoJob, Jobs
<1>2. /\ passport \in [job : 0 .. MaxJobs, idk : Keys \cup {None}]
      /\ last \in 0 .. MaxJobs /\ faults \in 0 .. MaxFaults
  BY PassportAssumption DEF Init, NoPassport
<1>3. \A r \in {mem, disk} :
        r \in Records /\ (r.status = "none" <=> r = Unknown) /\ (r.status = "none" <=> r.idk = None)
  BY DEF Init, Unknown, Records
<1> QED BY <1>1, <1>2, <1>3 DEF Init, TypeOK, Directory!Init

\* A decision of the directory keeps its three variables in range.
LEMMA TypeDirectory ==
  ASSUME TypeOK,
         \/ Directory!Enroll(Device) \/ Directory!Approve(Device) \/ Directory!Deny(Device)
         \/ Directory!Block(Device) \/ Directory!Revoke(Device) \/ Directory!Grant(Device)
         \/ Directory!Return(Device) \/ Directory!Delete(Device)
  PROVE  /\ st' \in [{Device} -> {"absent", "pending", "approved", "denied", "blocked",
                                  "revoked", "deleted"}]
         /\ access' \in [{Device} -> BOOLEAN]
         /\ grant' \in [{Device} -> BOOLEAN]
<1>1. CASE Directory!Enroll(Device)  BY <1>1 DEF TypeOK, Directory!Enroll, Directory!Becomes
<1>2. CASE Directory!Approve(Device) BY <1>2 DEF TypeOK, Directory!Approve, Directory!Becomes
<1>3. CASE Directory!Deny(Device)    BY <1>3 DEF TypeOK, Directory!Deny, Directory!Becomes
<1>4. CASE Directory!Block(Device)   BY <1>4 DEF TypeOK, Directory!Block, Directory!Becomes
<1>5. CASE Directory!Revoke(Device)  BY <1>5 DEF TypeOK, Directory!Revoke, Directory!Becomes
<1>6. CASE Directory!Grant(Device)   BY <1>6 DEF TypeOK, Directory!Grant, Directory!Becomes
<1>7. CASE Directory!Return(Device)  BY <1>7 DEF TypeOK, Directory!Return, Directory!Becomes
<1>8. CASE Directory!Delete(Device)  BY <1>8 DEF TypeOK, Directory!Delete, Directory!Becomes
<1> QED BY <1>1, <1>2, <1>3, <1>4, <1>5, <1>6, <1>7, <1>8

\* Queueing a well-formed job keeps the queue well formed.
LEMMA TypeEnqueue ==
  ASSUME TypeOK, NEW kind \in JobKinds, NEW k \in Keys \cup {None},
         NEW by \in Keys \cup {None}, NEW n \in Nonces \cup {None},
         Enqueue(kind, k, by, n)
  PROVE  /\ last' \in 0 .. MaxJobs
         /\ job' \in [JobIds -> Jobs]
         /\ \A j \in JobIds : j > last' <=> job'[j].at = "none"
BY PassportAssumption DEF TypeOK, Enqueue, Jobs, NoJob, Closed

LEMMA OnFileType == TypeOK => OnFile \in Keys \cup {None}
BY DEF TypeOK, OnFile

LEMMA TypeDirectoryStep == ASSUME TypeOK, DirectoryStep PROVE TypeOK'
<1> USE DEF TypeOK
<1>1. ASSUME NEW k \in Keys, EnrollDevice(k) PROVE TypeOK'
  BY <1>1, TypeDirectory DEF EnrollDevice
<1>2. ASSUME NEW k \in Keys, ReturnDevice(k) PROVE TypeOK'
  BY <1>2, TypeDirectory DEF ReturnDevice
<1>3. CASE ApproveDevice
  <2>1. CASE Enqueue("approve", OnFile, None, None)
    BY <1>3, <2>1, TypeDirectory, TypeEnqueue, OnFileType DEF ApproveDevice, JobKinds, IssueKinds
  <2>2. CASE UNCHANGED queueVars
    BY <1>3, <2>2, TypeDirectory DEF ApproveDevice
  <2> QED BY <1>3, <2>1, <2>2 DEF ApproveDevice
<1>4. CASE DenyOrGrant
  BY <1>4, TypeDirectory DEF DenyOrGrant
<1>5. CASE ShutOut
  <2>1. CASE Enqueue("revoke", None, None, None) /\ unqueued' = FALSE /\ UNCHANGED faults
    BY <1>5, <2>1, TypeDirectory, TypeEnqueue DEF ShutOut, JobKinds
  <2>2. CASE Fault /\ unqueued' = TRUE /\ UNCHANGED queueVars
    BY <1>5, <2>2, TypeDirectory, PassportAssumption DEF ShutOut, Fault
  <2> QED BY <1>5, <2>1, <2>2 DEF ShutOut
<1>6. CASE DeleteDevice
  <2>1. Closed \in Jobs /\ Closed.at = "closed"
    BY DEF Closed, NoJob, Jobs
  <2>2. /\ job' \in [JobIds -> Jobs]
        /\ \A j \in JobIds : j > last' <=> job'[j].at = "none"
    BY <1>6, <2>1 DEF DeleteDevice
  <2>3. passport' \in [job : 0 .. MaxJobs, idk : Keys \cup {None}]
    BY <1>6, PassportAssumption DEF DeleteDevice, NoPassport
  <2> QED BY <1>6, <2>2, <2>3, TypeDirectory DEF DeleteDevice
<1>7. CASE Authenticate
  BY <1>7 DEF Authenticate
<1>8. ASSUME NEW k \in Keys, NEW n \in Nonces, renew_device_passport(k, n) PROVE TypeOK'
  BY <1>8, TypeEnqueue DEF renew_device_passport, JobKinds, AskedKinds
<1>9. ASSUME NEW k \in Keys, NEW n \in Nonces, update_device_identity_key(k, n) PROVE TypeOK'
  BY <1>9, TypeEnqueue, OnFileType DEF update_device_identity_key, JobKinds, AskedKinds
<1>10. CASE ca_issue_all
  BY <1>10, TypeEnqueue, OnFileType DEF ca_issue_all, JobKinds, IssueKinds
<1> QED BY <1>1, <1>2, <1>3, <1>4, <1>5, <1>6, <1>7, <1>8, <1>9, <1>10 DEF DirectoryStep

-----------------------------------------------------------------------------
(* The link and the signer                                                  *)

LEMMA TypeLinkStep == ASSUME TypeOK, LinkStep PROVE TypeOK'
<1> USE DEF TypeOK
<1>1. ASSUME NEW received \in BOOLEAN, get_jobs(received) PROVE TypeOK'
  <2> DEFINE picked == {j \in JobIds : job[j].at = "waiting"}
  <2>1. /\ job' \in [JobIds -> Jobs]
        /\ \A j \in JobIds : j > last' <=> job'[j].at = "none"
    BY <1>1 DEF get_jobs, Jobs, NoJob, Closed
  <2>2. \A j \in picked : Hand(j) \in Handed
    BY DEF Hand, Handed, Jobs, NoJob, Closed
  <2>3. batch' = {Hand(j) : j \in picked} \/ batch' = batch
    BY <1>1 DEF get_jobs
  <2>4. batch' \subseteq Handed
    BY <2>2, <2>3
  <2>5. faults' \in 0 .. MaxFaults
    BY <1>1, PassportAssumption DEF get_jobs, Fault
  <2> QED BY <1>1, <2>1, <2>4, <2>5 DEF get_jobs
<1>2. ASSUME NEW j \in JobIds, Overdue(j) PROVE TypeOK'
  <2>1. /\ job' \in [JobIds -> Jobs]
        /\ \A i \in JobIds : i > last' <=> job'[i].at = "none"
    BY <1>2 DEF Overdue, Jobs, NoJob, Closed
  <2>2. faults' \in 0 .. MaxFaults
    BY <1>2, PassportAssumption DEF Overdue, Fault
  <2> QED BY <1>2, <2>1, <2>2 DEF Overdue
<1>3. CASE PostAnswers   BY <1>3 DEF PostAnswers
<1>4. CASE LoseAnswers   BY <1>4, PassportAssumption DEF LoseAnswers, Fault
<1>5. CASE AnswersArrive BY <1>5 DEF AnswersArrive
<1> QED BY <1>1, <1>2, <1>3, <1>4, <1>5 DEF LinkStep

LEMMA TypePostResults ==
  ASSUME TypeOK, NEW r \in wire, post_results(r) PROVE TypeOK'
<1> USE DEF TypeOK
<1>1. r \in Answers /\ r.id \in JobIds
  BY DEF Answers
<1>2. Closed \in Jobs /\ Closed.at = "closed"
  BY DEF Closed, NoJob, Jobs
<1>3. /\ job' \in [JobIds -> Jobs]
      /\ \A j \in JobIds : j > last' <=> job'[j].at = "none"
  BY <1>1, <1>2 DEF post_results, Open
<1>4. passport' \in [job : 0 .. MaxJobs, idk : Keys \cup {None}]
  BY <1>1, PassportAssumption DEF post_results, Answers
<1>5. idk' \in Keys \cup {None}
  BY <1>1 DEF post_results, Jobs, NoJob, Closed
<1>6. valid' \in BOOLEAN /\ landed' \in BOOLEAN
  BY DEF post_results
<1> QED BY <1>3, <1>4, <1>5, <1>6 DEF post_results

\* TypeOK says that a record of the signer always has a key, which rests on what
\* jobs carry: an issue or key update a key, a client's request a nonce, and
\* that in turn on rows having a key from enrollment to deletion.
Carries(r) ==
  /\ r.kind \in IssueKinds \cup {"keyupdate"} => r.idk # None
  /\ r.kind \in AskedKinds => r.nonce # None

JobsCarry ==
  /\ st[Device] \notin {"absent", "deleted"} => rdk # None
  /\ \A j \in JobIds : Carries(job[j])
  /\ \A b \in batch : Carries(b)

LEMMA OnFileKnown ==
  ASSUME TypeOK, JobsCarry, st[Device] \notin {"absent", "deleted"}
  PROVE  OnFile # None
BY DEF OnFile, JobsCarry

LEMMA CarryEnqueue ==
  ASSUME TypeOK, JobsCarry, NEW kind, NEW k, NEW by, NEW n, Enqueue(kind, k, by, n),
         kind \in IssueKinds \cup {"keyupdate"} => k # None,
         kind \in AskedKinds => n # None
  PROVE  \A j \in JobIds : Carries(job'[j])
BY DEF TypeOK, JobsCarry, Enqueue, Carries

LEMMA CarryDirectoryStep ==
  ASSUME TypeOK, JobsCarry, DirectoryStep PROVE JobsCarry'
<1> USE DEF JobsCarry
<1>0. None \notin Keys /\ None \notin Nonces
  BY PassportAssumption
<1>1. ASSUME NEW k \in Keys, EnrollDevice(k) \/ ReturnDevice(k) PROVE JobsCarry'
  BY <1>0, <1>1 DEF EnrollDevice, ReturnDevice, Carries
<1>2. CASE ApproveDevice
  <2>1. st[Device] \in {"pending", "denied"} /\ OnFile # None
    BY <1>2, OnFileKnown DEF ApproveDevice, Directory!Approve
  <2>2. \A j \in JobIds : Carries(job'[j])
    BY <1>2, <2>1, CarryEnqueue DEF ApproveDevice, IssueKinds, AskedKinds
  <2> QED BY <1>2, <2>1, <2>2 DEF ApproveDevice
<1>3. CASE DenyOrGrant
  BY <1>3 DEF DenyOrGrant, Directory!Deny, Directory!Grant, Directory!Becomes, Carries
<1>4. CASE ShutOut
  <2>1. \A j \in JobIds : Carries(job'[j])
    BY <1>4, CarryEnqueue DEF ShutOut, IssueKinds, AskedKinds
  <2> QED BY <1>4, <2>1 DEF ShutOut, Directory!Block, Directory!Revoke
<1>5. CASE DeleteDevice
  <2>1. \A j \in JobIds : Carries(job'[j])
    BY <1>5 DEF DeleteDevice, Closed, NoJob, Carries, IssueKinds, AskedKinds
  <2>2. st'[Device] = "deleted"
    BY <1>5 DEF DeleteDevice, Directory!Delete, Directory!Becomes, TypeOK
  <2> QED BY <1>5, <2>1, <2>2 DEF DeleteDevice
<1>6. CASE Authenticate
  BY <1>6 DEF Authenticate
<1>7. ASSUME NEW k \in Keys, NEW n \in Nonces,
             renew_device_passport(k, n) \/ update_device_identity_key(k, n)
      PROVE  JobsCarry'
  <2>1. \A j \in JobIds : Carries(job'[j])
    BY <1>0, <1>7, CarryEnqueue
       DEF renew_device_passport, update_device_identity_key, IssueKinds, AskedKinds
  <2> QED BY <1>7, <2>1 DEF renew_device_passport, update_device_identity_key
<1>8. CASE ca_issue_all
  <2>1. OnFile # None
    BY <1>8, OnFileKnown DEF ca_issue_all
  <2>2. \A j \in JobIds : Carries(job'[j])
    BY <1>8, <2>1, CarryEnqueue DEF ca_issue_all, IssueKinds, AskedKinds
  <2> QED BY <1>8, <2>2 DEF ca_issue_all
<1> QED BY <1>1, <1>2, <1>3, <1>4, <1>5, <1>6, <1>7, <1>8 DEF DirectoryStep

LEMMA CarryLinkStep ==
  ASSUME TypeOK, JobsCarry, LinkStep PROVE JobsCarry'
<1> USE DEF JobsCarry
<1>1. ASSUME NEW received \in BOOLEAN, get_jobs(received) PROVE JobsCarry'
  <2>1. \A j \in JobIds : Carries(Hand(j)) /\ Carries(job'[j])
    BY <1>1 DEF get_jobs, Hand, Carries, TypeOK, Jobs, NoJob, Closed
  <2> QED BY <1>1, <2>1 DEF get_jobs
<1>2. ASSUME NEW j \in JobIds, Overdue(j) PROVE JobsCarry'
  <2>1. \A i \in JobIds : Carries(job'[i])
    BY <1>2 DEF Overdue, Carries, TypeOK, Jobs, NoJob, Closed
  <2> QED BY <1>2, <2>1 DEF Overdue
<1>3. CASE PostAnswers \/ LoseAnswers \/ AnswersArrive
  BY <1>3 DEF PostAnswers, LoseAnswers, AnswersArrive
<1> QED BY <1>1, <1>2, <1>3 DEF LinkStep

LEMMA CarryPostResults ==
  ASSUME TypeOK, JobsCarry, NEW r \in wire, post_results(r) PROVE JobsCarry'
<1>1. \A j \in JobIds : Carries(job'[j])
  BY DEF post_results, Closed, NoJob, Carries, IssueKinds, AskedKinds, TypeOK, JobsCarry
<1> QED BY <1>1 DEF post_results, JobsCarry

\* A job that passes leaves a record with a key and, for a client's request,
\* with its nonce.
LEMMA GrantedType ==
  ASSUME TypeOK, JobsCarry, NEW b \in batch, Passes(b)
  PROVE  /\ Granted(b) \in Records
         /\ Granted(b).status = "none" <=> Granted(b) = Unknown
         /\ Granted(b).status = "none" <=> Granted(b).idk = None
         /\ b.kind \in AskedKinds => Granted(b).nonces = mem.nonces \cup {b.nonce}
         /\ b.kind \notin AskedKinds => Granted(b).nonces = mem.nonces
<1>1. /\ b \in Handed /\ Carries(b) /\ mem \in Records
      /\ mem.status = "none" <=> mem = Unknown
      /\ mem.status = "none" <=> mem.idk = None
  BY DEF TypeOK, JobsCarry
<1>2. CASE b.kind \in IssueKinds
  BY <1>1, <1>2 DEF Granted, Handed, Records, Carries, IssueKinds, AskedKinds, Unknown
<1>3. CASE b.kind \in AskedKinds
  BY <1>1, <1>3 DEF Granted, Asked, Passes, RequestGood, Handed, Records, Carries, IssueKinds,
                    AskedKinds, Unknown
<1>4. CASE b.kind = "revoke"
  BY <1>1, <1>4 DEF Granted, Handed, Records, IssueKinds, AskedKinds, Unknown
<1> QED BY <1>1, <1>2, <1>3, <1>4 DEF Handed, JobKinds

\* The record changes only as a job that passes changes it.
LEMMA RecordStep ==
  ASSUME NEW b, Process(b) \/ Refuse(b) \/ FailToSave(b)
  PROVE  mem' = mem \/ (Passes(b) /\ mem' = Granted(b))
<1>1. b.kind = "renew" => b.kind \notin IssueKinds /\ b.kind \in AskedKinds
  BY DEF IssueKinds, AskedKinds
<1>2. b.kind = "renew" => Granted(b) = Asked(b)
  BY <1>1 DEF Granted
<1>3. CASE Process(b) \/ FailToSave(b)
  BY <1>3 DEF Process, FailToSave
<1>4. CASE Refuse(b)
  <2>1. CASE Passes(b) /\ b.kind = "renew"
    BY <1>2, <1>4, <2>1 DEF Refuse
  <2>2. CASE ~(Passes(b) /\ b.kind = "renew")
    BY <1>4, <2>2 DEF Refuse
  <2> QED BY <2>1, <2>2
<1> QED BY <1>3, <1>4

LEMMA TypeSignerStep ==
  ASSUME TypeOK, JobsCarry, SignerStep PROVE TypeOK' /\ JobsCarry'
<1> PICK b \in batch : Process(b) \/ Refuse(b) \/ FailToSave(b)
  BY DEF SignerStep
<1>1. /\ b \in Handed /\ Carries(b) /\ None \notin Nonces
      /\ mem \in Records /\ disk \in Records
  BY PassportAssumption DEF TypeOK, JobsCarry
<1>2. ASSUME NEW ok \in BOOLEAN, NEW k \in Keys \cup {None}, Answer(b, ok, k)
      PROVE  batch' \subseteq Handed /\ results' \subseteq Answers /\ JobsCarry'
  <2>1. [id |-> b.id, ok |-> ok, idk |-> k] \in Answers
    BY <1>1, <1>2 DEF Handed, Answers
  <2> QED BY <1>2, <2>1 DEF Answer, TypeOK, JobsCarry
<1>3. CASE Process(b)
  <2>1. (IF b.kind = "revoke" THEN None ELSE Granted(b).idk) \in Keys \cup {None}
    BY <1>3, GrantedType DEF Process, Records
  <2>2. batch' \subseteq Handed /\ results' \subseteq Answers /\ JobsCarry'
    BY <1>2, <1>3, <2>1 DEF Process
  <2>3. spent' \subseteq Nonces
    BY <1>1, <1>3 DEF Process, TypeOK, Handed, Carries
  <2> QED BY <1>3, <2>2, <2>3, GrantedType DEF Process, Answer, TypeOK
<1>4. CASE Refuse(b)
  <2>1. batch' \subseteq Handed /\ results' \subseteq Answers /\ JobsCarry'
    BY <1>2, <1>4 DEF Refuse
  <2>2. mem' = mem \/ (Passes(b) /\ mem' = Granted(b))
    BY <1>4, RecordStep
  <2> QED BY <1>4, <2>1, <2>2, GrantedType DEF Refuse, Answer, TypeOK
<1>5. CASE FailToSave(b)
  <2>1. batch' \subseteq Handed /\ results' \subseteq Answers /\ JobsCarry'
    BY <1>2, <1>5 DEF FailToSave
  <2>2. faults' \in 0 .. MaxFaults
    BY <1>5, PassportAssumption DEF FailToSave, Fault, TypeOK
  <2> QED BY <1>5, <2>1, <2>2, GrantedType DEF FailToSave, Answer, TypeOK
<1> QED BY <1>3, <1>4, <1>5

LEMMA TypeTimeStep ==
  ASSUME TypeOK, JobsCarry, TimeStep \/ RestartSigner PROVE TypeOK' /\ JobsCarry'
<1>1. ASSUME NEW n \in Nonces, RequestAges(n) PROVE TypeOK' /\ JobsCarry'
  BY <1>1 DEF RequestAges, TypeOK, JobsCarry
<1>2. ASSUME NEW n \in Nonces, NonceForgotten(n) PROVE TypeOK' /\ JobsCarry'
  <2>1. mem' \in Records /\ mem'.status = mem.status /\ mem'.idk = mem.idk /\ mem'.nonces = mem.nonces \ {n}
    BY <1>2 DEF NonceForgotten, TypeOK, Records
  <2>2. mem.status # "none"
    BY <1>2 DEF NonceForgotten, TypeOK, Unknown
  <2>3. mem' # Unknown
    BY <2>1, <2>2 DEF Unknown
  <2> QED BY <1>2, <2>1, <2>2, <2>3 DEF NonceForgotten, TypeOK, JobsCarry
<1>3. CASE PassportExpires
  BY <1>3 DEF PassportExpires, TypeOK, JobsCarry
<1>4. CASE RestartSigner
  BY <1>4, PassportAssumption DEF RestartSigner, Fault, TypeOK, JobsCarry
<1> QED BY <1>1, <1>2, <1>3, <1>4 DEF TimeStep

LEMMA TypeStep ==
  ASSUME TypeOK, JobsCarry, [Next]_vars PROVE TypeOK' /\ JobsCarry'
<1>1. CASE UNCHANGED vars
  BY <1>1 DEF TypeOK, JobsCarry
<1>2. ASSUME NEW r \in wire, post_results(r) PROVE TypeOK' /\ JobsCarry'
  BY <1>2, TypePostResults, CarryPostResults
<1>3. CASE DirectoryStep
  BY <1>3, TypeDirectoryStep, CarryDirectoryStep
<1>4. CASE LinkStep
  BY <1>4, TypeLinkStep, CarryLinkStep
<1> QED BY <1>1, <1>2, <1>3, <1>4, TypeSignerStep, TypeTimeStep DEF Next

\* For every instance the queue, the link and the signer stay well formed, and
\* the signer, in memory and on disk, has a record exactly with a key.
THEOREM PassportTypes == Spec => [](TypeOK /\ JobsCarry)
<1>1. Init => JobsCarry
  BY DEF Init, JobsCarry, Carries, NoJob, IssueKinds, AskedKinds, Directory!Init
<1> QED BY TypeInit, TypeStep, <1>1, PTL DEF Spec

-----------------------------------------------------------------------------
(* The two-box rule                                                         *)

\* For every instance: whatever the link loses or repeats and whatever the
\* signer answers, a stored passport carries the key RDS lists, and RDS's key
\* changes only to one it verified.
THEOREM KeysComeFromTheDirectory == Spec => TwoBoxRule
<1> DEFINE Step ==
       /\ passport' \notin {passport, NoPassport} => passport'.idk = OnFile'
       /\ idk' \notin {idk, None} =>
            \E j \in JobIds : job[j].kind = "keyupdate" /\ Open(j) /\ job[j].idk = idk'
<1>1. ASSUME TypeOK, [Next]_vars PROVE Step \/ UNCHANGED vars
  <2>1. ASSUME NEW r \in wire, post_results(r) PROVE Step
    <3>1. r.id \in JobIds /\ r \in Answers
      BY <1>1 DEF TypeOK, Answers
    <3> DEFINE taken == Open(r.id) /\ r.idk # None /\ r.idk = Expected(r.id)
    <3>2. CASE ~taken
      BY <2>1, <3>2 DEF post_results
    <3>3. CASE taken /\ job[r.id].kind = "keyupdate"
      <4>1. idk' = r.idk /\ passport'.idk = r.idk /\ idk' = job[r.id].idk
        BY <2>1, <3>3 DEF post_results, Expected
      <4> QED BY <3>1, <3>3, <4>1 DEF OnFile
    <3>4. CASE taken /\ job[r.id].kind # "keyupdate"
      <4>1. idk' = idk /\ rdk' = rdk /\ passport'.idk = r.idk /\ r.idk = OnFile
        BY <2>1, <3>4 DEF post_results, Expected
      <4> QED BY <4>1 DEF OnFile
    <3> QED BY <3>2, <3>3, <3>4
  <2>2. CASE DirectoryStep
    BY <2>2 DEF DirectoryStep, EnrollDevice, ReturnDevice, ApproveDevice, DenyOrGrant, ShutOut,
                DeleteDevice, Authenticate, renew_device_passport, update_device_identity_key,
                ca_issue_all
  <2>3. CASE SignerStep \/ RestartSigner
    BY <2>3 DEF SignerStep, RestartSigner, Process, Refuse, FailToSave, Answer
  <2>4. CASE LinkStep \/ TimeStep
    BY <2>4 DEF LinkStep, TimeStep, get_jobs, Overdue, PostAnswers, LoseAnswers, AnswersArrive,
                RequestAges, NonceForgotten, PassportExpires
  <2> QED BY <1>1, <2>1, <2>2, <2>3, <2>4 DEF Next
<1>2. ASSUME TypeOK, [Next]_vars PROVE [Step]_vars
  BY <1>1, <1>2
<1>3. Spec => [](TypeOK /\ JobsCarry)
  BY PassportTypes
<1> QED BY <1>2, <1>3, PTL DEF Spec, TwoBoxRule

-----------------------------------------------------------------------------
(* Replay                                                                   *)

\* The nonce of an answered request stays in the signer's memory and on its
\* disk until the request is too old anyway; jobs in hand have distinct ids,
\* none of them answered.
ReplayInv ==
  /\ \A n \in spent : n \in aged \cup mem.nonces /\ n \in aged \cup disk.nonces
  /\ \A b, c \in batch : b.id = c.id => b = c
  /\ \A b \in batch, r \in results : b.id # r.id

LEMMA ReplayStep ==
  ASSUME TypeOK, JobsCarry, ReplayInv, [Next]_vars PROVE ReplayInv'
<1> USE DEF ReplayInv
<1>1. CASE UNCHANGED vars
  BY <1>1
<1>2. ASSUME NEW r \in wire, post_results(r) PROVE ReplayInv'
  BY <1>2 DEF post_results
<1>3. CASE DirectoryStep
  BY <1>3 DEF DirectoryStep, EnrollDevice, ReturnDevice, ApproveDevice, DenyOrGrant, ShutOut,
              DeleteDevice, Authenticate, renew_device_passport, update_device_identity_key,
              ca_issue_all
<1>4. ASSUME NEW received \in BOOLEAN, get_jobs(received) PROVE ReplayInv'
  <2>1. \A i, j : Hand(i).id = Hand(j).id => Hand(i) = Hand(j)
    BY DEF Hand
  <2>2. results' = {} /\ \A b \in batch' : \E j : b = Hand(j)
    BY <1>4 DEF get_jobs
  <2> QED BY <1>4, <2>1, <2>2 DEF get_jobs
<1>5. ASSUME NEW j \in JobIds, Overdue(j) PROVE ReplayInv'
  BY <1>5 DEF Overdue
<1>6. CASE PostAnswers \/ LoseAnswers \/ AnswersArrive
  BY <1>6 DEF PostAnswers, LoseAnswers, AnswersArrive
<1>7. CASE SignerStep
  <2> PICK b \in batch : Process(b) \/ Refuse(b) \/ FailToSave(b)
    BY <1>7 DEF SignerStep
  <2>1. /\ \A c, d \in batch' : c.id = d.id => c = d
        /\ \A c \in batch', r \in results' : c.id # r.id
    BY DEF Process, Refuse, FailToSave, Answer
  <2>2. mem.nonces \subseteq mem'.nonces
    BY RecordStep, GrantedType
  <2>3. CASE Process(b)
    <3>1. disk' = mem' /\ mem' = Granted(b)
      BY <2>3 DEF Process
    <3>2. \A n \in spent' : n \in spent \/ n \in mem'.nonces
      BY <2>3, <3>1, GrantedType DEF Process
    <3> QED BY <2>1, <2>2, <2>3, <3>1, <3>2 DEF Process, Answer
  <2>4. CASE Refuse(b) \/ FailToSave(b)
    BY <2>1, <2>2, <2>4 DEF Refuse, FailToSave, Answer
  <2> QED BY <2>3, <2>4
<1>8. CASE RestartSigner
  BY <1>8 DEF RestartSigner
<1>9. ASSUME NEW n \in Nonces, RequestAges(n) PROVE ReplayInv'
  BY <1>9 DEF RequestAges
<1>10. ASSUME NEW n \in Nonces, NonceForgotten(n) PROVE ReplayInv'
  BY <1>10 DEF NonceForgotten, TypeOK, Records
<1>11. CASE PassportExpires
  BY <1>11 DEF PassportExpires
<1> QED BY <1>1, <1>2, <1>3, <1>4, <1>5, <1>6, <1>7, <1>8, <1>9, <1>10, <1>11
        DEF Next, LinkStep, TimeStep

\* For every instance a signed request never yields two passports, through any
\* number of repeats, failed writes and restarts of the signer.
THEOREM RequestsUsedOnce == Spec => NoReplay
<1> DEFINE Step == \A b \in batch \ batch' :
       b.kind \in AskedKinds /\ (\E r \in results' : r.id = b.id /\ r.idk # None)
         => b.nonce \notin spent
<1>1. ASSUME TypeOK, ReplayInv, [Next]_vars PROVE [Step]_vars
  <2>1. ASSUME NEW c \in batch, SignerStep, c \notin batch', c.kind \in AskedKinds,
               NEW r \in results', r.id = c.id, r.idk # None
        PROVE  c.nonce \notin spent
    <3> PICK b \in batch : Process(b) \/ Refuse(b) \/ FailToSave(b)
      BY <2>1 DEF SignerStep
    <3>1. b = c
      BY <2>1 DEF Process, Refuse, FailToSave, Answer
    <3>2. r \notin results
      BY <1>1, <2>1 DEF ReplayInv
    <3>3. Process(b)
      BY <2>1, <3>2 DEF Refuse, FailToSave, Answer
    <3>4. c.nonce \notin aged \cup mem.nonces
      BY <2>1, <3>1, <3>3 DEF Process, Passes, RequestGood, IssueKinds, AskedKinds
    <3> QED BY <1>1, <3>4 DEF ReplayInv
  <2>2. CASE SignerStep
    BY <2>1, <2>2
  <2>3. CASE RestartSigner
    BY <2>3 DEF RestartSigner
  <2>4. CASE LinkStep \/ TimeStep
    BY <2>4 DEF LinkStep, TimeStep, get_jobs, Overdue, PostAnswers, LoseAnswers, AnswersArrive,
                RequestAges, NonceForgotten, PassportExpires
  <2>5. CASE DirectoryStep
    BY <2>5 DEF DirectoryStep, EnrollDevice, ReturnDevice, ApproveDevice, DenyOrGrant, ShutOut,
                DeleteDevice, Authenticate, renew_device_passport, update_device_identity_key,
                ca_issue_all
  <2>6. ASSUME NEW r \in wire, post_results(r) PROVE Step
    BY <2>6 DEF post_results
  <2> QED BY <1>1, <2>2, <2>3, <2>4, <2>5, <2>6 DEF Next
<1>2. Init => ReplayInv
  BY DEF Init, ReplayInv
<1> QED BY PassportTypes, ReplayStep, <1>1, <1>2, PTL DEF Spec, NoReplay

-----------------------------------------------------------------------------
(* Shutting a device out                                                    *)

\* Jobs still to be worked on: waiting, or with the signer.
Waiting == {j \in JobIds : job[j].at = "waiting"}
Due(K) == {j \in JobIds : \/ j \in Waiting /\ job[j].kind \in K
                          \/ \E b \in batch : b.id = j /\ b.kind \in K}
Revokes == Due({"revoke"})
Issues  == Due(IssueKinds)

InHands == batch \cup results \cup wire

\* What is in hand is older than what waits, and no job handed out is forgotten,
\* as long as nothing was lost, repeated or restarted.
InOrder ==
  /\ wire # {} => batch = {} /\ results = {}
  /\ \A x \in InHands : x.id <= last
  /\ faults = 0 =>
       /\ \A j \in JobIds : job[j].at = "out" => InHand(j)
       /\ \A x \in InHands, j \in Waiting : x.id < j

\* For a device that is shut out a revoke is due as long as the signer holds it
\* as approved, and a revoke is due after every passport that is due.
RevokeComesLast ==
  faults = 0 /\ st[Device] \in {"blocked", "revoked"} =>
    /\ mem.status = "approved" => Revokes # {}
    /\ \A i \in Issues : \E r \in Revokes : i < r

\* A new job is newer than everything in hand.
LEMMA OrderEnqueue ==
  ASSUME TypeOK, InOrder, NEW kind, NEW k, NEW by, NEW n, Enqueue(kind, k, by, n),
         UNCHANGED <<batch, results, wire, faults>>
  PROVE  InOrder'
<1>1. last \in Nat /\ last' = last + 1 /\ last' \in JobIds
  BY PassportAssumption DEF TypeOK, Enqueue
<1>2. InHands' = InHands /\ \A j : InHand(j)' = InHand(j)
  BY DEF InHands, InHand
<1>3. \A x \in InHands : x.id \in Nat
  BY DEF TypeOK, InHands, Handed, Answers
<1>4. \A j \in JobIds : j # last' => job'[j] = job[j]
  BY <1>1 DEF Enqueue, TypeOK
<1>5. job'[last'].at = "waiting"
  BY <1>1 DEF Enqueue, TypeOK
<1>6. \A x \in InHands' : x.id <= last'
  BY <1>1, <1>2, <1>3 DEF InOrder
<1>9. wire' # {} => batch' = {} /\ results' = {}
  BY DEF InOrder
<1>7. ASSUME faults' = 0, NEW j \in JobIds, job'[j].at = "out" PROVE InHand(j)'
  BY <1>2, <1>4, <1>5, <1>7 DEF InOrder
<1>8. ASSUME faults' = 0, NEW x \in InHands', NEW j \in Waiting' PROVE x.id < j
  <2>1. CASE j = last'
    BY <1>1, <1>2, <1>3, <1>8, <2>1 DEF InOrder
  <2>2. CASE j # last'
    BY <1>2, <1>4, <1>8, <2>2 DEF InOrder, Waiting
  <2> QED BY <2>1, <2>2
<1> QED BY <1>6, <1>7, <1>8, <1>9 DEF InOrder

\* What does not touch the queue or the hands.
LEMMA OrderSame ==
  ASSUME InOrder, UNCHANGED <<last, job, batch, results, wire, faults>> PROVE InOrder'
BY DEF InOrder, InHands, InHand, Waiting

LEMMA OrderDirectoryStep ==
  ASSUME TypeOK, InOrder, DirectoryStep PROVE InOrder'
<1>1. CASE \E k \in Keys : EnrollDevice(k) \/ ReturnDevice(k)
  BY <1>1, OrderSame DEF EnrollDevice, ReturnDevice
<1>2. CASE ApproveDevice \/ ca_issue_all
  BY <1>2, OrderSame, OrderEnqueue DEF ApproveDevice, ca_issue_all
<1>6. CASE ShutOut
  <2>1. UNCHANGED <<batch, results, wire>>
    BY <1>6 DEF ShutOut, linkVars
  <2>2. CASE Enqueue("revoke", None, None, None) /\ UNCHANGED faults
    BY <2>1, <2>2, OrderEnqueue
  <2>3. CASE Fault /\ UNCHANGED queueVars
    <3>1. faults' # 0
      BY <2>3 DEF Fault, TypeOK
    <3>2. InHands' = InHands /\ last' = last
      BY <2>1, <2>3 DEF InHands, queueVars
    <3> QED BY <2>1, <3>1, <3>2 DEF InOrder
  <2> QED BY <1>6, <2>2, <2>3 DEF ShutOut
<1>3. CASE DenyOrGrant \/ Authenticate
  BY <1>3, OrderSame DEF DenyOrGrant, Authenticate
<1>4. CASE DeleteDevice
  <2>1. \A j \in JobIds : job'[j].at \in {"none", "closed"}
    BY <1>4 DEF DeleteDevice, TypeOK, Closed, NoJob
  <2> QED BY <1>4, <2>1 DEF DeleteDevice, InOrder, InHands, InHand, Waiting
<1>5. ASSUME NEW k \in Keys, NEW n \in Nonces,
             renew_device_passport(k, n) \/ update_device_identity_key(k, n)
      PROVE  InOrder'
  BY <1>5, OrderEnqueue DEF renew_device_passport, update_device_identity_key
<1> QED BY <1>1, <1>2, <1>3, <1>4, <1>5, <1>6 DEF DirectoryStep

LEMMA OrderLinkStep ==
  ASSUME TypeOK, InOrder, LinkStep PROVE InOrder'
<1>1. ASSUME NEW received \in BOOLEAN, get_jobs(received) PROVE InOrder'
  <2>1. /\ InHands = {} /\ results' = {} /\ wire' = {} /\ last' = last
        /\ \A j \in JobIds : job'[j].at # "waiting"
    BY <1>1 DEF get_jobs, InHands, TypeOK, Jobs, NoJob, Closed
  <2>2. Waiting \subseteq JobIds /\ \A j \in Waiting : j <= last
    BY DEF Waiting, TypeOK
  <2>3. CASE batch' = {}
    <3>1. faults' # 0
      BY <1>1, <2>3 DEF get_jobs, Fault, TypeOK
    <3> QED BY <2>1, <2>3, <3>1 DEF InOrder, InHands
  <2>4. CASE batch' = {Hand(j) : j \in Waiting}
    <3>1. \A j : Hand(j).id = j
      BY DEF Hand
    <3>2. \A x \in InHands' : x.id <= last'
      BY <2>1, <2>2, <2>4, <3>1 DEF InHands
    <3>3. ASSUME faults' = 0, NEW j \in JobIds, job'[j].at = "out" PROVE InHand(j)'
      <4>1. j \in Waiting
        <5>1. faults = 0
          BY <1>1, <3>3 DEF get_jobs, Fault, TypeOK
        <5>2. ~ InHand(j)
          BY <2>1 DEF InHand, InHands
        <5> QED BY <1>1, <3>3, <5>1, <5>2 DEF get_jobs, InOrder, Waiting
      <4> QED BY <2>4, <3>1, <4>1 DEF InHand
    <3> QED BY <2>1, <3>2, <3>3 DEF InOrder, Waiting
  <2> QED BY <1>1, <2>3, <2>4 DEF get_jobs, Waiting
<1>2. ASSUME NEW j \in JobIds, Overdue(j) PROVE InOrder'
  <2>1. faults' # 0
    BY <1>2 DEF Overdue, InOrder, Fault, TypeOK
  <2> QED BY <1>2, <2>1 DEF Overdue, InOrder, InHands
<1>3. CASE PostAnswers
  <2>1. InHands' = InHands /\ batch' = {} /\ results' = {}
    BY <1>3 DEF PostAnswers, InHands, InOrder
  <2>2. \A j : InHand(j)' = InHand(j)
    BY <2>1 DEF InHand, InHands
  <2> QED BY <1>3, <2>1, <2>2 DEF PostAnswers, InOrder, Waiting
<1>4. CASE LoseAnswers
  <2>1. faults' # 0
    BY <1>4 DEF LoseAnswers, Fault, TypeOK
  <2> QED BY <1>4, <2>1 DEF LoseAnswers, InOrder, InHands
<1>5. CASE AnswersArrive
  BY <1>5, OrderSame DEF AnswersArrive
<1> QED BY <1>1, <1>2, <1>3, <1>4, <1>5 DEF LinkStep

LEMMA OrderPostResults ==
  ASSUME TypeOK, InOrder, NEW r \in wire, post_results(r) PROVE InOrder'
<1>1. r.id \in JobIds /\ faults' = faults /\ last' = last /\ wire' = wire \ {r}
  BY DEF post_results, TypeOK, Answers
<1>2. /\ \A j \in JobIds : j # r.id => job'[j] = job[j]
      /\ job'[r.id].at \notin {"waiting", "out"}
  BY <1>1 DEF post_results, Open, TypeOK, Closed, NoJob
<1>3. batch' = batch /\ results' = results
  BY DEF post_results
<1>4. InHands' \subseteq InHands /\ \A x \in InHands : x = r \/ x \in InHands'
  BY <1>1, <1>3 DEF InHands
<1>5. ASSUME faults = 0, NEW j \in JobIds, job'[j].at = "out" PROVE InHand(j)'
  <2>1. j # r.id /\ InHand(j)
    BY <1>2, <1>5 DEF InOrder
  <2> QED BY <1>4, <2>1 DEF InHand, InHands
<1>6. Waiting' \subseteq Waiting
  BY <1>2 DEF Waiting
<1> QED BY <1>1, <1>3, <1>4, <1>5, <1>6 DEF InOrder

LEMMA OrderSignerStep ==
  ASSUME TypeOK, InOrder, SignerStep PROVE InOrder'
<1> PICK b \in batch : Process(b) \/ Refuse(b) \/ FailToSave(b)
  BY DEF SignerStep
<1>1. PICK ok, k : Answer(b, ok, k)
  BY DEF Process, Refuse, FailToSave
<1> DEFINE a == [id |-> b.id, ok |-> ok, idk |-> k]
<1>2. /\ batch' = batch \ {b} /\ results' = results \cup {a} /\ UNCHANGED <<wire, last, job>>
      /\ a.id = b.id
  BY <1>1 DEF Answer
<1>3. /\ \A x \in InHands : \E y \in InHands' : y.id = x.id
      /\ \A y \in InHands' : \E x \in InHands : y.id = x.id
  BY <1>2 DEF InHands
<1>4. \A j : InHand(j) => InHand(j)'
  BY <1>3 DEF InHand, InHands
<1>5. faults' = 0 => faults = 0
  <2>1. CASE Process(b) \/ Refuse(b)
    BY <2>1 DEF Process, Refuse
  <2>2. CASE FailToSave(b)
    BY <2>2 DEF FailToSave, Fault, TypeOK
  <2> QED BY <2>1, <2>2
<1>6. wire' = {}
  BY <1>2 DEF InOrder
<1>7. Waiting' = Waiting
  BY <1>2 DEF Waiting
<1>8. \A y \in InHands' : y.id <= last'
  BY <1>2, <1>3 DEF InOrder
<1>9. ASSUME faults' = 0, NEW y \in InHands', NEW j \in Waiting' PROVE y.id < j
  BY <1>3, <1>5, <1>7, <1>9 DEF InOrder
<1>10. ASSUME faults' = 0, NEW j \in JobIds, job'[j].at = "out" PROVE InHand(j)'
  BY <1>2, <1>4, <1>5, <1>10 DEF InOrder
<1> QED BY <1>6, <1>8, <1>9, <1>10 DEF InOrder

LEMMA OrderStep ==
  ASSUME TypeOK, InOrder, [Next]_vars PROVE InOrder'
<1>1. CASE UNCHANGED vars
  BY <1>1, OrderSame
<1>2. CASE TimeStep
  BY <1>2, OrderSame DEF TimeStep, RequestAges, NonceForgotten, PassportExpires
<1>3. CASE RestartSigner
  <2>1. faults' # 0
    BY <1>3 DEF RestartSigner, Fault, TypeOK
  <2> QED BY <1>3, <2>1 DEF RestartSigner, InOrder, InHands
<1> QED BY <1>1, <1>2, <1>3, OrderDirectoryStep, OrderLinkStep, OrderPostResults, OrderSignerStep
        DEF Next

\* What changes neither what is due nor the signer's idea of the device.
LEMMA ShutOutSame ==
  ASSUME RevokeComesLast,
         faults' = 0 => faults = 0,
         faults' = 0 => Revokes' = Revokes /\ Issues' = Issues,
         faults' = 0 => mem'.status \in {mem.status, "none", "revoked"},
         st'[Device] \in {"blocked", "revoked"} => st[Device] \in {"blocked", "revoked"}
  PROVE  RevokeComesLast'
BY DEF RevokeComesLast

\* What a new job adds to what is due.
LEMMA DueEnqueue ==
  ASSUME TypeOK, NEW kind, NEW k, NEW by, NEW n, Enqueue(kind, k, by, n),
         UNCHANGED batch, NEW K
  PROVE  /\ kind \notin K => Due(K)' = Due(K)
         /\ kind \in K => Due(K)' = Due(K) \cup {last + 1}
<1>1. last + 1 \in JobIds /\ last \in Nat
  BY PassportAssumption DEF TypeOK, Enqueue
<1>2. /\ \A j \in JobIds : j # last + 1 => job'[j] = job[j]
      /\ job'[last + 1].at = "waiting" /\ job'[last + 1].kind = kind
  BY <1>1 DEF TypeOK, Enqueue
<1>3. job[last + 1].at # "waiting"
  BY <1>1 DEF TypeOK
<1>4. Waiting' = Waiting \cup {last + 1} /\ last + 1 \notin Waiting
  BY <1>1, <1>2, <1>3 DEF Waiting
<1>5. \A j \in JobIds : j \in Due(K)' <=> j \in Due(K) \/ (j = last + 1 /\ kind \in K)
  BY <1>2, <1>4 DEF Due
<1> QED BY <1>1, <1>5 DEF Due

\* A decision against the device queues its revoke behind all that is due.
LEMMA ShutOutDirectoryStep ==
  ASSUME TypeOK, InOrder, RevokeComesLast, DirectoryStep PROVE RevokeComesLast'
<1>1. CASE \E k \in Keys : EnrollDevice(k) \/ ReturnDevice(k)
  <2>1. st'[Device] = "pending"
    BY <1>1 DEF EnrollDevice, ReturnDevice, Directory!Enroll, Directory!Return,
                Directory!Becomes, TypeOK
  <2> QED BY <2>1 DEF RevokeComesLast
<1>2. CASE ApproveDevice
  <2>1. st'[Device] = "approved"
    BY <1>2 DEF ApproveDevice, Directory!Approve, Directory!Becomes, TypeOK
  <2> QED BY <2>1 DEF RevokeComesLast
<1>3. CASE DenyOrGrant
  <2>1. st'[Device] = "denied" \/ st'[Device] = st[Device]
    BY <1>3 DEF DenyOrGrant, Directory!Deny, Directory!Grant, Directory!Becomes, TypeOK
  <2> QED BY <1>3, <2>1, ShutOutSame DEF DenyOrGrant, Revokes, Issues, Due, Waiting
<1>4. CASE ShutOut
  <2>0. SUFFICES ASSUME faults' = 0 PROVE RevokeComesLast'
    BY DEF RevokeComesLast
  <2>1. UNCHANGED batch /\ Enqueue("revoke", None, None, None)
    BY <1>4, <2>0 DEF ShutOut, Fault, TypeOK, linkVars
  <2>2. "revoke" \notin IssueKinds /\ "revoke" \in {"revoke"}
    BY DEF IssueKinds
  <2>3. Issues' = Issues /\ Revokes' = Revokes \cup {last + 1}
    BY <2>1, <2>2, DueEnqueue DEF Issues, Revokes
  <2>4. \A i \in Issues : i < last + 1
    <3>1. \A j \in Waiting : j <= last
      BY DEF Waiting, TypeOK
    <3>2. \A b \in batch : b.id <= last
      BY DEF InOrder, InHands
    <3>3. last \in Nat
      BY PassportAssumption DEF TypeOK
    <3> QED BY <3>1, <3>2, <3>3 DEF Issues, Due
  <2> QED BY <2>3, <2>4 DEF RevokeComesLast
<1>5. CASE DeleteDevice
  <2>1. st'[Device] = "deleted"
    BY <1>5 DEF DeleteDevice, Directory!Delete, Directory!Becomes, TypeOK
  <2> QED BY <2>1 DEF RevokeComesLast
<1>6. CASE Authenticate
  BY <1>6, ShutOutSame DEF Authenticate, Revokes, Issues, Due, Waiting
<1>7. ASSUME NEW k \in Keys, NEW n \in Nonces,
             renew_device_passport(k, n) \/ update_device_identity_key(k, n)
      PROVE  RevokeComesLast'
  <2>1. /\ "renew" \notin IssueKinds /\ "renew" \notin {"revoke"}
        /\ "keyupdate" \notin IssueKinds /\ "keyupdate" \notin {"revoke"}
    BY DEF IssueKinds
  <2>2. Issues' = Issues /\ Revokes' = Revokes
    BY <1>7, <2>1, DueEnqueue
       DEF renew_device_passport, update_device_identity_key, Issues, Revokes
  <2> QED BY <1>7, <2>2, ShutOutSame DEF renew_device_passport, update_device_identity_key
<1>8. CASE ca_issue_all
  <2>1. st'[Device] = "approved"
    BY <1>8 DEF ca_issue_all
  <2> QED BY <2>1 DEF RevokeComesLast
<1> QED BY <1>1, <1>2, <1>3, <1>4, <1>5, <1>6, <1>7, <1>8 DEF DirectoryStep

\* The link moves jobs about and neither adds nor drops one, unless it fails.
LEMMA ShutOutLinkStep ==
  ASSUME TypeOK, InOrder, RevokeComesLast, LinkStep PROVE RevokeComesLast'
<1>1. ASSUME NEW received \in BOOLEAN, get_jobs(received), faults' = 0 PROVE RevokeComesLast'
  <2>1. faults = 0 /\ batch = {} /\ batch' = {Hand(j) : j \in Waiting} /\ UNCHANGED <<mem, st>>
    BY <1>1 DEF get_jobs, Fault, TypeOK, Waiting
  <2>2. Waiting' = {}
    BY <1>1 DEF get_jobs, TypeOK, Waiting, Jobs, NoJob, Closed
  <2>3. ASSUME NEW K PROVE Due(K)' = Due(K)
    <3>1. \A j : Hand(j).id = j /\ Hand(j).kind = job[j].kind
      BY DEF Hand
    <3>2. \A j \in JobIds : (\E b \in batch' : b.id = j /\ b.kind \in K)
                              <=> j \in Waiting /\ job[j].kind \in K
      BY <2>1, <3>1
    <3> QED BY <2>1, <2>2, <3>2 DEF Due
  <2> QED BY <2>1, <2>3, ShutOutSame DEF Revokes, Issues
<1>2. ASSUME NEW j \in JobIds, Overdue(j) PROVE faults' # 0
  BY <1>2 DEF Overdue, InOrder, Fault, TypeOK
<1>3. CASE PostAnswers \/ AnswersArrive
  BY <1>3, ShutOutSame DEF PostAnswers, AnswersArrive, Revokes, Issues, Due, Waiting
<1>4. CASE LoseAnswers
  BY <1>4 DEF LoseAnswers, Fault, TypeOK, RevokeComesLast
<1>5. faults' # 0 => RevokeComesLast'
  BY DEF RevokeComesLast
<1> QED BY <1>1, <1>2, <1>3, <1>4, <1>5 DEF LinkStep

\* An answer closes a job that was handed out, so nothing that waits.
LEMMA ShutOutPostResults ==
  ASSUME TypeOK, InOrder, RevokeComesLast, NEW r \in wire, post_results(r) PROVE RevokeComesLast'
<1>1. r.id \in JobIds /\ UNCHANGED <<batch, faults, mem, st>>
  BY DEF post_results, TypeOK, Answers
<1>2. CASE faults = 0
  <2>1. r.id \notin Waiting
    BY <1>1, <1>2 DEF InOrder, InHands
  <2>2. Waiting' = Waiting /\ \A j \in Waiting : job'[j] = job[j]
    BY <1>1, <2>1 DEF post_results, Waiting, TypeOK, Closed, NoJob
  <2>3. ASSUME NEW K PROVE Due(K)' = Due(K)
    BY <1>1, <2>2 DEF Due
  <2> QED BY <1>1, <2>3, ShutOutSame DEF Revokes, Issues
<1> QED BY <1>1, <1>2 DEF RevokeComesLast

\* The signer takes the oldest of the jobs that are due.
LEMMA ShutOutSignerStep ==
  ASSUME TypeOK, JobsCarry, ReplayInv, InOrder, RevokeComesLast, SignerStep
  PROVE  RevokeComesLast'
<1> PICK b \in batch : Process(b) \/ Refuse(b) \/ FailToSave(b)
  BY DEF SignerStep
<1> SUFFICES ASSUME faults' = 0, st'[Device] \in {"blocked", "revoked"}
             PROVE  /\ mem'.status = "approved" => Revokes' # {}
                    /\ \A i \in Issues' : \E r \in Revokes' : i < r
  BY DEF RevokeComesLast
<1>1. ~FailToSave(b)
  <2>1. faults \in Nat
    BY DEF TypeOK
  <2>2. FailToSave(b) => faults' = faults + 1
    BY DEF FailToSave, Fault
  <2> QED BY <2>1, <2>2
<1>2. /\ batch' = batch \ {b} /\ UNCHANGED <<job, st>> /\ faults = 0 /\ IsNext(b)
      /\ b \in Handed /\ mem \in Records
  BY <1>1 DEF Process, Refuse, Answer, TypeOK
<1>3. \A j \in Waiting : b.id < j
  BY <1>2 DEF InOrder, InHands
<1>4. \A c \in batch : c.id = b.id => c = b
  BY DEF ReplayInv
<1>5. b.id \in JobIds /\ \A c \in batch : c.id \in Nat
  BY DEF TypeOK, Handed
<1>6. ASSUME NEW K
      PROVE  /\ \A j \in Due(K) : b.id <= j
             /\ b.id \in Due(K) <=> b.kind \in K
             /\ Due(K)' = Due(K) \ {b.id}
  <2>1. \A j \in Due(K) : b.id <= j
    BY <1>2, <1>3, <1>5 DEF Due, IsNext, Waiting
  <2>2. b.id \notin Waiting
    BY <1>3, <1>5
  <2>3. b.id \in Due(K) <=> b.kind \in K
    BY <1>4, <1>5, <2>2 DEF Due
  <2>4. Waiting' = Waiting
    BY <1>2 DEF Waiting
  <2>5. \A j \in JobIds : j \in Due(K)' <=> j \in Due(K) /\ j # b.id
    BY <1>2, <1>4, <2>2, <2>4 DEF Due
  <2> QED BY <2>1, <2>3, <2>5 DEF Due
<1>7. /\ \A i \in Issues : b.id <= i
      /\ Revokes' = Revokes \ {b.id} /\ Issues' = Issues \ {b.id}
      /\ b.id \in Issues <=> b.kind \in IssueKinds
      /\ b.id \in Revokes <=> b.kind = "revoke"
  BY <1>6 DEF Issues, Revokes
<1>8. /\ mem.status = "approved" => Revokes # {}
      /\ \A i \in Issues : \E r \in Revokes : i < r
  BY <1>2 DEF RevokeComesLast
<1>9. Issues \subseteq Nat /\ Revokes \subseteq Nat
  BY DEF Issues, Revokes, Due
<1>10. \A i \in Issues : \E r \in Revokes' : i < r
  BY <1>5, <1>7, <1>8, <1>9
<1>11. CASE b.kind \in IssueKinds
  BY <1>7, <1>10, <1>11
<1>12. CASE b.kind = "revoke"
  <2>1. Process(b) /\ Granted(b) = [mem EXCEPT !.status = IF @ = "none" THEN @ ELSE "revoked"]
    BY <1>1, <1>12 DEF Refuse, Passes, Granted, IssueKinds, AskedKinds
  <2>2. mem'.status # "approved"
    BY <1>2, <2>1 DEF Process, Records
  <2> QED BY <1>7, <1>10, <2>2
<1>13. CASE b.kind \in AskedKinds
  <2>1. Granted(b) = Asked(b)
    BY <1>13 DEF Granted, IssueKinds, AskedKinds
  <2>2. Asked(b).status = mem.status
    BY <1>2 DEF Asked, Records
  <2>3. mem'.status = mem.status
    BY <2>1, <2>2, RecordStep
  <2>4. Revokes' = Revokes
    BY <1>7, <1>13 DEF AskedKinds
  <2> QED BY <1>7, <1>8, <1>10, <2>3, <2>4
<1> QED BY <1>2, <1>11, <1>12, <1>13 DEF Handed, JobKinds

LEMMA ShutOutStep ==
  ASSUME TypeOK, JobsCarry, ReplayInv, InOrder, RevokeComesLast, [Next]_vars
  PROVE  RevokeComesLast'
<1>1. CASE UNCHANGED vars
  BY <1>1, ShutOutSame DEF Revokes, Issues, Due, Waiting
<1>2. ASSUME NEW n \in Nonces, RequestAges(n) PROVE RevokeComesLast'
  BY <1>2, ShutOutSame DEF RequestAges, Revokes, Issues, Due, Waiting
<1>3. ASSUME NEW n \in Nonces, NonceForgotten(n) PROVE RevokeComesLast'
  <2>1. mem'.status = mem.status
    BY <1>3 DEF NonceForgotten, TypeOK, Records
  <2> QED BY <1>3, <2>1, ShutOutSame DEF NonceForgotten, Revokes, Issues, Due, Waiting
<1>4. CASE PassportExpires
  BY <1>4, ShutOutSame DEF PassportExpires, Revokes, Issues, Due, Waiting
<1>5. CASE RestartSigner
  BY <1>5 DEF RestartSigner, Fault, TypeOK, RevokeComesLast
<1> QED BY <1>1, <1>2, <1>3, <1>4, <1>5, ShutOutDirectoryStep, ShutOutLinkStep,
           ShutOutPostResults, ShutOutSignerStep
        DEF Next, TimeStep

\* For every instance: while the link delivers and the signer keeps running, a
\* blocked or revoked device is no longer approved at the signer once every job
\* is answered, whatever was queued, handed out and answered in between.
THEOREM ShutOutArrives == Spec => []ReliableShutOut
<1>1. Init => ReplayInv /\ InOrder /\ RevokeComesLast
  <2>1. Init => ReplayInv
    BY DEF Init, ReplayInv
  <2>2. Init => InOrder
    BY DEF Init, InOrder, InHands, Waiting, NoJob
  <2>3. Init => RevokeComesLast
    BY DEF Init, RevokeComesLast, Directory!Init
  <2> QED BY <2>1, <2>2, <2>3
<1>2. ASSUME InOrder, RevokeComesLast PROVE ReliableShutOut
  <2>1. ASSUME Quiet PROVE Revokes = {}
    BY <2>1 DEF Quiet, Open, Revokes, Due, Waiting
  <2> QED BY <1>2, <2>1 DEF ReliableShutOut, ShutOutReachesSigner, RevokeComesLast
<1> QED BY PassportTypes, ReplayStep, OrderStep, ShutOutStep, <1>1, <1>2, PTL DEF Spec

=============================================================================
