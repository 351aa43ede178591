------------------------------ MODULE RustDrop ------------------------------
(***************************************************************************)
(* RustDrop (rustdrop.py): a device sends a file to another through the     *)
(* API, which keeps a row per drop in filedrop_drops and relays the bytes   *)
(* to a storage VM that the API does not share transactions with.  Requests *)
(* read the row, talk to the storage VM and write the row in separate       *)
(* steps; a background task deletes drops that are due.  Handlers declared  *)
(* async run on the event loop with the task, the others in threads.        *)
(*                                                                          *)
(* A call by anyone but the drop's sender (upload) or recipient (download,  *)
(* complete, decline) ends in 404 before it changes anything, so a call in  *)
(* flight is recorded without its device.  Resume probes, listings and      *)
(* resumed downloads only read.                                             *)
(***************************************************************************)
EXTENDS Naturals, FiniteSets

CONSTANTS
  Drops,        \* ids that create_drop may hand out
  Devices,      \* devices that are approved in the beginning
  Leavers,      \* those among them that may be revoked and deleted
  Calls,        \* requests that can be in flight at a time
  None,
  Parts,        \* parts of a whole file
  MaxDropFaults \* failed blob deletions and restarts of the API, in all

ASSUME DropAssumption ==
  /\ Parts \in Nat \ {0}
  /\ MaxDropFaults \in Nat
  /\ None \notin Devices /\ Leavers \subseteq Devices

VARIABLES
  standing,    \* managed_devices: approved, revoked or deleted
  registered,  \* devices with a recent row in rustdrop_registrations
  row,         \* filedrop_drops
  blob,        \* storage VM: parts held for each drop
  call,        \* requests in flight
  sweep,       \* the background task: what it does and the drops it holds
  events,      \* filedrop_transfer_events: rows per drop
  overlapped,  \* history: drops that a call may have stored bytes for after their
               \* status had changed since the call read it
  dropFaults

dropVars == <<standing, registered, row, blob, call, sweep, events, overlapped, dropFaults>>

Present == {"uploading", "complete", "delivered", "failed"}

\* "unborn" and "gone" are drops without a row: an id is never used again.
\* ttl is expires_at (not set, ahead, past); stuck says that updated_at is
\* older than the backstop.
Row == [st : Present \cup {"unborn", "gone"}, from : Devices \cup {None},
        to : Devices \cup {None}, ttl : {"unset", "ahead", "past"}, stuck : BOOLEAN]

Idle == [op |-> "idle", drop |-> None, legacy |-> FALSE, read |-> None]
CallRow == [op : {"relay", "finish", "touch", "fail", "renew", "deliver", "erase"},
            drop : Drops, legacy : BOOLEAN, read : Present]

DropTypeOK ==
  /\ standing \in [Devices -> {"approved", "revoked", "deleted"}]
  /\ registered \subseteq Devices
  /\ row \in [Drops -> Row]
  /\ blob \in [Drops -> 0..Parts]
  /\ call \in [Calls -> CallRow \cup {Idle}]
  /\ sweep \in [pc : {"off", "idle", "delete", "erase"}, held : SUBSET Drops]
  /\ events \in [Drops -> Nat]
  /\ overlapped \subseteq Drops
  /\ dropFaults \in 0..MaxDropFaults

DropInit ==
  /\ standing = [dev \in Devices |-> "approved"]
  /\ registered = {}
  /\ row = [d \in Drops |-> [st |-> "unborn", from |-> None, to |-> None,
                             ttl |-> "unset", stuck |-> FALSE]]
  /\ blob = [d \in Drops |-> 0]
  /\ call = [c \in Calls |-> Idle]
  /\ sweep = [pc |-> "off", held |-> {}]
  /\ events = [d \in Drops |-> 0]
  /\ overlapped = {}
  /\ dropFaults = 0

-----------------------------------------------------------------------------
\* Between its select and its delete the sweep does not give up the event loop.
LoopFree == sweep.pc # "delete"

\* require_device: the caller is approved when its request begins.
Caller(dev) == dev # None /\ standing[dev] = "approved"

\* register_device: the upsert that keeps a device's registration recent.  The
\* first call since the API started starts the sweep (_ensure_sweep_started).
Register(dev) ==
  /\ LoopFree /\ Caller(dev)
  /\ registered' = registered \cup {dev}
  /\ sweep' = IF sweep.pc = "off" THEN [sweep EXCEPT !.pc = "idle"] ELSE sweep
  /\ UNCHANGED <<standing, row, blob, call, events, overlapped, dropFaults>>

\* A device that has not called register for REGISTRATION_STALE_AFTER.
RegistrationAges(dev) ==
  /\ dev \in registered
  /\ registered' = registered \ {dev}
  /\ UNCHANGED <<standing, row, blob, call, sweep, events, overlapped, dropFaults>>

\* create_drop: a new row, without expires_at, for an approved and
\* recently registered recipient.
CreateDrop(d, sender, recipient) ==
  /\ row[d].st = "unborn"
  /\ Caller(sender) /\ recipient # sender
  /\ Caller(recipient) /\ recipient \in registered
  /\ row' = [row EXCEPT ![d] = [st |-> "uploading", from |-> sender, to |-> recipient,
                                ttl |-> "unset", stuck |-> FALSE]]
  /\ UNCHANGED <<standing, registered, blob, call, sweep, events, overlapped, dropFaults>>

\* A request that has read its drop and goes on to do op.
Starts(c, d, op, legacy) ==
  /\ call[c] = Idle
  /\ call' = [call EXCEPT ![c] = [op |-> op, drop |-> d, legacy |-> legacy, read |-> row[d].st]]

GoesOn(c, op) == call' = [call EXCEPT ![c].op = op]

Ends(c) == call' = [call EXCEPT ![c] = Idle]

\* UPDATE ... WHERE id = d: nothing happens to a row that is gone.  Every
\* update but the sweep's sets updated_at.
Updated(d, st, ttl) ==
  row' = IF row[d].st \in Present
         THEN [row EXCEPT ![d].st = st, ![d].ttl = ttl, ![d].stuck = FALSE]
         ELSE row

\* The status that the call read is no longer the row's.
NoteOverlap(c) ==
  overlapped' = IF row[call[c].drop].st # call[c].read
                THEN overlapped \cup {call[c].drop} ELSE overlapped

-----------------------------------------------------------------------------
\* upload_drop: the lookup.
BeginUpload(c, d, legacy) ==
  /\ row[d].st = "uploading" /\ Caller(row[d].from)
  /\ Starts(c, d, "relay", legacy)
  /\ UNCHANGED <<standing, registered, row, blob, sweep, events, overlapped, dropFaults>>

\* A part is stored whether or not the file is whole already.
RelayAppends(c) ==
  /\ call[c].op = "relay"
  /\ LET d == call[c].drop
         n == IF call[c].legacy THEN Parts ELSE blob[d] + 1
     IN  /\ blob' = [blob EXCEPT ![d] = n]
         /\ GoesOn(c, IF n = Parts THEN "finish" ELSE "touch")
  /\ NoteOverlap(c)
  /\ UNCHANGED <<standing, registered, row, sweep, events, dropFaults>>

\* The storage VM takes the next part, or a whole file in the single-shot
\* form; it reports whether the file is now whole.
RelayStored(c) ==
  /\ call[c].op = "relay"
  /\ LET d == call[c].drop
         n == IF call[c].legacy \/ blob[d] = Parts THEN Parts ELSE blob[d] + 1
     IN  /\ blob' = [blob EXCEPT ![d] = n]
         /\ GoesOn(c, IF n = Parts THEN "finish" ELSE "touch")
  /\ NoteOverlap(c)
  /\ UNCHANGED <<standing, registered, row, sweep, events, dropFaults>>

\* The relay fails or times out, the stream is too long or the storage VM
\* rejects the part; bytes may have been stored all the same, but never fewer
\* than the storage VM had.  A single-shot
\* upload is then marked failed, unless it is the client that went away; a part
\* is left for the client to repeat.
RelayRejected(c) ==
  /\ call[c].op = "relay"
  /\ LET d == call[c].drop
     IN  \E n \in blob[d]..(IF call[c].legacy \/ blob[d] = Parts THEN Parts ELSE blob[d] + 1) :
           blob' = [blob EXCEPT ![d] = n]
  /\ Ends(c) \/ (call[c].legacy /\ GoesOn(c, "fail"))
  /\ NoteOverlap(c)
  /\ UNCHANGED <<standing, registered, row, sweep, events, dropFaults>>

\* The storage VM answers 410: it has no such upload session (any more).
RelayGone(c) ==
  /\ call[c].op = "relay" /\ ~call[c].legacy
  /\ blob[call[c].drop] = 0
  /\ GoesOn(c, "fail")
  /\ UNCHANGED <<standing, registered, row, blob, sweep, events, overlapped, dropFaults>>

\* The row becomes complete, but nothing starts its time to live.
FinishUploadUntimed(c) ==
  /\ call[c].op = "finish" /\ LoopFree
  /\ LET d == call[c].drop IN Updated(d, "complete", row[d].ttl)
  /\ Ends(c)
  /\ UNCHANGED <<standing, registered, blob, sweep, events, overlapped, dropFaults>>

\* The row becomes complete and its time to live starts, whatever its status.
FinishUpload(c) ==
  /\ call[c].op = "finish" /\ LoopFree
  /\ Updated(call[c].drop, "complete", "ahead")
  /\ Ends(c)
  /\ UNCHANGED <<standing, registered, blob, sweep, events, overlapped, dropFaults>>

\* A part that is not the last one only sets updated_at.
TouchUpload(c) ==
  /\ call[c].op = "touch"
  /\ LET d == call[c].drop IN Updated(d, row[d].st, row[d].ttl)
  /\ Ends(c)
  /\ UNCHANGED <<standing, registered, blob, sweep, events, overlapped, dropFaults>>

\* _mark_drop_failed: whatever the row's status.
MarkDropFailed(c) ==
  /\ call[c].op = "fail" /\ LoopFree
  /\ LET d == call[c].drop IN Updated(d, "failed", row[d].ttl)
  /\ Ends(c)
  /\ UNCHANGED <<standing, registered, blob, sweep, events, overlapped, dropFaults>>

-----------------------------------------------------------------------------
\* download_drop of a complete file from its first byte: no range, or one that
\* starts there, however often and however little of it is asked for.
StartDownload(c, d) ==
  /\ row[d].st = "complete" /\ Caller(row[d].to)
  /\ Starts(c, d, "renew", FALSE)
  /\ UNCHANGED <<standing, registered, row, blob, sweep, events, overlapped, dropFaults>>

\* _renew_ttl: a fresh time to live, if the drop is still complete.
RenewTtl(c) ==
  /\ call[c].op = "renew"
  /\ LET d == call[c].drop
     IN  IF row[d].st = "complete" THEN Updated(d, "complete", "ahead") ELSE row' = row
  /\ Ends(c)
  /\ UNCHANGED <<standing, registered, blob, sweep, events, overlapped, dropFaults>>

\* complete_drop: the status is read without a lock ...
BeginComplete(c, d) ==
  /\ row[d].st = "complete" /\ Caller(row[d].to)
  /\ Starts(c, d, "deliver", FALSE)
  /\ UNCHANGED <<standing, registered, row, blob, sweep, events, overlapped, dropFaults>>

\* ... and then the row is updated and the transfer recorded, in one
\* transaction that fails as a whole if the row is gone.
Deliver(c) ==
  /\ call[c].op = "deliver"
  /\ LET d == call[c].drop
     IN  /\ Updated(d, "delivered", row[d].ttl)
         /\ events' = IF row[d].st \in Present THEN [events EXCEPT ![d] = @ + 1] ELSE events
  /\ Ends(c)
  /\ UNCHANGED <<standing, registered, blob, sweep, overlapped, dropFaults>>

\* The row is deleted and the blob left to the sweep, which no longer sees it.
DeclineRowOnly(c, d) ==
  /\ row[d].st \in Present /\ Caller(row[d].to) /\ LoopFree
  /\ call[c] = Idle
  /\ row' = [row EXCEPT ![d].st = "gone"]
  /\ UNCHANGED <<standing, registered, blob, call, sweep, events, overlapped, dropFaults>>

\* decline_drop: the row is deleted ...
Decline(c, d) ==
  /\ row[d].st \in Present /\ Caller(row[d].to) /\ LoopFree
  /\ row' = [row EXCEPT ![d].st = "gone"]
  /\ Starts(c, d, "erase", FALSE)
  /\ UNCHANGED <<standing, registered, blob, sweep, events, overlapped, dropFaults>>

\* _delete_blob: an error is logged and forgotten.
DeleteBlob(d) ==
  \/ blob' = [blob EXCEPT ![d] = 0] /\ dropFaults' = dropFaults
  \/ dropFaults < MaxDropFaults /\ dropFaults' = dropFaults + 1 /\ blob' = blob

\* ... and then the blob.
EraseDeclined(c) ==
  /\ call[c].op = "erase"
  /\ DeleteBlob(call[c].drop)
  /\ Ends(c)
  /\ UNCHANGED <<standing, registered, row, sweep, events, overlapped>>

-----------------------------------------------------------------------------
TtlPasses(d) ==
  /\ row[d].st \in Present /\ row[d].ttl = "ahead"
  /\ row' = [row EXCEPT ![d].ttl = "past"]
  /\ UNCHANGED <<standing, registered, blob, call, sweep, events, overlapped, dropFaults>>

UploadStalls(d) ==
  /\ row[d].st \in Present /\ ~row[d].stuck
  /\ row' = [row EXCEPT ![d].stuck = TRUE]
  /\ UNCHANGED <<standing, registered, blob, call, sweep, events, overlapped, dropFaults>>

\* What the sweep selects: expired, or an upload that got stuck or failed.
Due(d) ==
  /\ row[d].st \in Present
  /\ \/ row[d].ttl = "past"
     \/ row[d].st \in {"uploading", "failed"} /\ row[d].stuck

\* The blobs are deleted first, the rows after them.
SweepBlobsFirst ==
  /\ sweep.pc = "idle"
  /\ \E d \in Drops : Due(d)
  /\ sweep' = [pc |-> "delete", held |-> {d \in Drops : Due(d)}]
  /\ blob' = [d \in Drops |-> IF Due(d) THEN 0 ELSE blob[d]]
  /\ UNCHANGED <<standing, registered, row, call, events, overlapped, dropFaults>>

\* _sweep_expired_drops: selects what is due ...
SweepSelect ==
  /\ sweep.pc = "idle"
  /\ \E d \in Drops : Due(d)
  /\ sweep' = [pc |-> "delete", held |-> {d \in Drops : Due(d)}]
  /\ UNCHANGED <<standing, registered, row, blob, call, events, overlapped, dropFaults>>

\* ... deletes those rows by id, in the same transaction, looking at them no more ...
SweepDelete ==
  /\ sweep.pc = "delete"
  /\ row' = [d \in Drops |-> IF d \in sweep.held THEN [row[d] EXCEPT !.st = "gone"] ELSE row[d]]
  /\ sweep' = [sweep EXCEPT !.pc = "erase"]
  /\ UNCHANGED <<standing, registered, blob, call, events, overlapped, dropFaults>>

\* ... and then their blobs, one after the other.
SweepErase ==
  /\ sweep.pc = "erase"
  /\ \E d \in sweep.held :
       /\ DeleteBlob(d)
       /\ sweep' = [pc |-> IF sweep.held = {d} THEN "idle" ELSE "erase", held |-> sweep.held \ {d}]
  /\ UNCHANGED <<standing, registered, row, call, events, overlapped>>

\* The API restarts: nothing in memory survives, the sweep included.
DropRestart ==
  /\ dropFaults < MaxDropFaults
  /\ dropFaults' = dropFaults + 1
  /\ call' = [c \in Calls |-> Idle]
  /\ sweep' = [pc |-> "off", held |-> {}]
  /\ UNCHANGED <<standing, registered, row, blob, events, overlapped>>

-----------------------------------------------------------------------------
\* Drops that the tables mention the device for.
DropsOf(dev) == {d \in Drops : dev \in {row[d].from, row[d].to}}

\* filedrop_transfer_events, whose rows are never deleted, names the device.
Recorded(dev) == \E d \in DropsOf(dev) : events[d] > 0

\* The registration blocks the deletion too, if it does not go with the device.
UnreferencedUncascaded(dev) ==
  /\ \A d \in DropsOf(dev) : row[d].st \notin Present
  /\ ~Recorded(dev)
  /\ dev \notin registered

\* No row that refers to the device without ON DELETE stands in the way.
Unreferenced(dev) ==
  /\ \A d \in DropsOf(dev) : row[d].st \notin Present
  /\ ~Recorded(dev)

\* revoke_device: requests that were let in go on.
RevokeParty(dev) ==
  /\ standing[dev] = "approved"
  /\ standing' = [standing EXCEPT ![dev] = "revoked"]
  /\ UNCHANGED <<registered, row, blob, call, sweep, events, overlapped, dropFaults>>

\* The dashboard's delete: the registration goes with the device; a row that
\* still refers to the device makes the whole transaction fail.
DeleteParty(dev) ==
  /\ standing[dev] = "revoked" /\ Unreferenced(dev)
  /\ standing' = [standing EXCEPT ![dev] = "deleted"]
  /\ registered' = registered \ {dev}
  /\ UNCHANGED <<row, blob, call, sweep, events, overlapped, dropFaults>>

-----------------------------------------------------------------------------
CallGoesOn(c) ==
  \/ RelayStored(c) \/ RelayRejected(c) \/ RelayGone(c)
  \/ FinishUpload(c) \/ TouchUpload(c) \/ MarkDropFailed(c)
  \/ RenewTtl(c) \/ Deliver(c) \/ EraseDeclined(c)

SweepGoesOn == SweepSelect \/ SweepDelete \/ SweepErase

DropNext ==
  \/ \E dev \in Devices : Register(dev) \/ RegistrationAges(dev)
  \/ \E dev \in Leavers : RevokeParty(dev) \/ DeleteParty(dev)
  \/ \E d \in Drops, s, r \in Devices : CreateDrop(d, s, r)
  \/ \E c \in Calls, d \in Drops :
       \/ \E legacy \in BOOLEAN : BeginUpload(c, d, legacy)
       \/ StartDownload(c, d) \/ BeginComplete(c, d) \/ Decline(c, d)
  \/ \E c \in Calls : CallGoesOn(c)
  \/ \E d \in Drops : TtlPasses(d) \/ UploadStalls(d)
  \/ SweepGoesOn
  \/ DropRestart

DropSpec == DropInit /\ [][DropNext]_dropVars

\* Some client starts and registers while there are drops, time passes, the
\* event loop runs the sweep, and a request that was let in comes to an end
\* with an answer of the storage VM or an error.
DropFairness ==
  /\ WF_dropVars(/\ sweep.pc = "off" /\ \E d \in Drops : row[d].st \in Present
                 /\ \E dev \in Devices : Register(dev))
  /\ \A d \in Drops : WF_dropVars(TtlPasses(d)) /\ WF_dropVars(UploadStalls(d))
  /\ WF_dropVars(SweepGoesOn)
  /\ \A c \in Calls : WF_dropVars(CallGoesOn(c))

-----------------------------------------------------------------------------
\* A drop that is offered or delivered has its whole file on the storage VM:
\* every path deletes the row before the blob and completes the row only
\* after the last part, whatever overlaps.
OfferHasFile ==
  \A d \in Drops : row[d].st \in {"complete", "delivered"} => blob[d] = Parts

\* When a row is gone and nobody is about to delete its blob, the blob is
\* gone, unless a call overlapped the deletion or a deletion failed.
BlobReclaimed ==
  \A d \in Drops :
    /\ row[d].st = "gone" /\ blob[d] # 0
    /\ dropFaults = 0 /\ d \notin overlapped
    => d \in sweep.held \/ \E c \in Calls : call[c].op = "erase" /\ call[c].drop = d

\* A download of the drop from its first byte is under way.
Renewing(d) == \E c \in Calls : call[c].op = "renew" /\ call[c].drop = d

\* Every drop is removed in the end, however its upload, download and delivery
\* went and whatever failed, unless its recipient starts to download it again
\* and again for ever.  That is all the API promises: the comment on the renewal
\* says that a drop must not be "kept alive forever via repeated tiny range
\* requests", but a request for the first byte is one of these and renews.
DropsDrain ==
  \A d \in Drops : []<>Renewing(d) \/ ((row[d].st \in Present) ~> (row[d].st = "gone"))

\* The record of a revoked device can be deleted in the end, unless a transfer
\* of the device is on record or the recipient of one of its drops renews it for
\* ever: open drops, calls in flight and a registration do not hold it.
RevokedCanGo ==
  \A dev \in Leavers :
    \/ \E d \in Drops : []<>(d \in DropsOf(dev) /\ Renewing(d))
    \/ (standing[dev] = "revoked") ~> (standing[dev] = "deleted" \/ Unreferenced(dev) \/ Recorded(dev))
=============================================================================
