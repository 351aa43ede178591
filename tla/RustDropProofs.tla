--------------------------- MODULE RustDropProofs ---------------------------
(***************************************************************************)
(* What holds of RustDrop for any number of drops, devices, requests in     *)
(* flight, parts of a file and failures.                                    *)
(*                                                                          *)
(* OfferHasFile is about the table and the storage VM, which share no       *)
(* transaction.  What ties them together is what requests in flight and the *)
(* sweep know: a request about to complete or deliver a drop whose row is   *)
(* there has seen the whole file arrive (CallsRight), and nothing erases a  *)
(* blob before its row is gone (CallsRight, SweepRight).                    *)
(***************************************************************************)
EXTENDS RustDrop, TLAPS

\* What a request in flight relies on when it acts on what it has read.
CallsRight ==
  \A c \in Calls :
    LET d == call[c].drop
    IN  /\ call[c].op # "idle" => d \in Drops /\ row[d].st # "unborn"
        /\ call[c].op \in {"finish", "renew", "deliver"} /\ row[d].st \in Present
             => blob[d] = Parts
        /\ call[c].op = "erase" => row[d].st = "gone"

\* What the sweep relies on: it holds nothing between two rounds, and erases
\* blobs only of rows that are gone.
SweepRight ==
  /\ sweep.pc \in {"off", "idle"} => sweep.held = {}
  /\ \A d \in sweep.held : /\ row[d].st # "unborn"
                           /\ sweep.pc = "erase" => row[d].st = "gone"

DropInv == DropTypeOK /\ CallsRight /\ SweepRight /\ OfferHasFile /\ BlobReclaimed

USE DEF Present

-----------------------------------------------------------------------------
(* Rows, blobs and calls change in few ways                                  *)

\* A row that is there stays or goes for good; a whole file is not touched
\* while its row is there.
Monotone ==
  \A d \in Drops :
    /\ row[d].st # "unborn" => row'[d].st # "unborn"
    /\ row[d].st = "gone" => row'[d].st = "gone"
    /\ row[d].st = "unborn" => row'[d].st \in {"unborn", "uploading"}
    /\ row'[d].st \in Present /\ row[d].st \in Present /\ blob[d] = Parts => blob'[d] = Parts

\* Call c is in order in the state that a step leads to.
CallRight(c) ==
  LET d == call[c].drop
  IN  /\ call[c].op # "idle" => d \in Drops /\ row[d].st # "unborn"
      /\ call[c].op \in {"finish", "renew", "deliver"} /\ row[d].st \in Present => blob[d] = Parts
      /\ call[c].op = "erase" => row[d].st = "gone"

LEMMA CallsKept ==
  ASSUME CallsRight, DropTypeOK, Monotone,
         \A c \in Calls : call'[c] = call[c] \/ call'[c] = Idle \/ CallRight(c)'
  PROVE  CallsRight'
<1> SUFFICES ASSUME NEW c \in Calls PROVE CallRight(c)'
  BY DEF CallsRight, CallRight
<1>1. CASE call'[c] = call[c]
  <2>1. CallRight(c)
    BY DEF CallsRight, CallRight
  <2>2. CASE call[c].op = "idle"
    BY <1>1, <2>2 DEF CallRight
  <2>3. CASE call[c].op # "idle"
    <3>1. call[c].drop \in Drops /\ row[call[c].drop].st # "unborn"
      BY <2>1, <2>3 DEF CallRight
    <3>2. /\ row'[call[c].drop].st # "unborn"
          /\ row[call[c].drop].st = "gone" => row'[call[c].drop].st = "gone"
          /\ row'[call[c].drop].st \in Present => row[call[c].drop].st \in Present
      BY <3>1 DEF Monotone, DropTypeOK, Row
    <3> QED BY <1>1, <2>1, <3>1, <3>2 DEF CallRight, Monotone
  <2> QED BY <2>2, <2>3
<1>2. CASE call'[c] = Idle
  BY <1>2 DEF Idle, CallRight
<1> QED BY <1>1, <1>2

LEMMA SweepKept ==
  ASSUME SweepRight, DropTypeOK, Monotone, sweep' = sweep
  PROVE  SweepRight'
BY DEF SweepRight, DropTypeOK, Monotone

\* Shapes of a call.
LEMMA CallShapes ==
  ASSUME DropTypeOK, NEW c \in Calls, call[c].op # "idle"
  PROVE  call[c] \in CallRow
BY DEF DropTypeOK, Idle

LEMMA DropCallEnds ==
  ASSUME DropTypeOK, NEW c \in Calls, Ends(c)
  PROVE  /\ call' \in [Calls -> CallRow \cup {Idle}]
         /\ call'[c] = Idle
         /\ \A e \in Calls : e # c => call'[e] = call[e]
BY DEF DropTypeOK, Ends

LEMMA CallMoves ==
  ASSUME DropTypeOK, NEW c \in Calls, NEW op \in {"finish", "touch", "fail"},
         call[c].op = "relay", GoesOn(c, op)
  PROVE  /\ call' \in [Calls -> CallRow \cup {Idle}]
         /\ call'[c].op = op /\ call'[c].drop = call[c].drop
         /\ \A e \in Calls : e # c => call'[e] = call[e]
<1>1. call[c] \in CallRow
  BY CallShapes
<1>2. call'[c] = [call[c] EXCEPT !.op = op] /\ \A e \in Calls : e # c => call'[e] = call[e]
  BY DEF DropTypeOK, GoesOn
<1>3. call'[c] \in CallRow /\ call'[c].op = op /\ call'[c].drop = call[c].drop
  BY <1>1, <1>2 DEF CallRow
<1>4. call' = [call EXCEPT ![c] = call'[c]]
  BY <1>2 DEF DropTypeOK, GoesOn
<1> QED BY <1>2, <1>3, <1>4 DEF DropTypeOK

LEMMA CallStarts ==
  ASSUME DropTypeOK, NEW c \in Calls, NEW d \in Drops, NEW legacy \in BOOLEAN,
         NEW op \in {"relay", "renew", "deliver", "erase"},
         row[d].st \in Present, Starts(c, d, op, legacy)
  PROVE  /\ call' \in [Calls -> CallRow \cup {Idle}]
         /\ call[c] = Idle
         /\ call'[c].op = op /\ call'[c].drop = d
         /\ \A e \in Calls : e # c => call'[e] = call[e]
<1> DEFINE r == [op |-> op, drop |-> d, legacy |-> legacy, read |-> row[d].st]
<1>1. r \in CallRow /\ r.op = op /\ r.drop = d
  BY DEF CallRow
<1>2. call' = [call EXCEPT ![c] = r] /\ call[c] = Idle
  BY DEF Starts
<1> HIDE DEF r
<1> QED BY <1>1, <1>2 DEF DropTypeOK

\* An update of a row that is there; none of one that is not.
LEMMA RowUpdated ==
  ASSUME DropTypeOK, NEW d \in Drops, NEW st \in Present, NEW ttl \in {"unset", "ahead", "past"},
         Updated(d, st, ttl)
  PROVE  /\ row' \in [Drops -> Row]
         /\ \A e \in Drops : e # d => row'[e] = row[e]
         /\ row[d].st \in Present => row'[d].st = st
         /\ row[d].st \notin Present => row' = row
<1>1. row[d] \in Row
  BY DEF DropTypeOK
<1>2. CASE row[d].st \in Present
  <2> DEFINE r == [row[d] EXCEPT !.st = st, !.ttl = ttl, !.stuck = FALSE]
  <2>1. r \in Row /\ r.st = st
    BY <1>1 DEF Row
  <2>2. row' = [row EXCEPT ![d] = r]
    BY <1>2 DEF Updated, DropTypeOK
  <2> HIDE DEF r
  <2> QED BY <1>2, <2>1, <2>2 DEF DropTypeOK
<1>3. CASE row[d].st \notin Present
  BY <1>3 DEF Updated, DropTypeOK
<1> QED BY <1>2, <1>3

-----------------------------------------------------------------------------
(* Steps that touch neither blobs nor the sweep                              *)

\* Such a step keeps the invariant if it takes no row away and no erasing
\* call, and offers only whole files.
LEMMA QuietStep ==
  ASSUME DropInv, DropTypeOK', Monotone, UNCHANGED <<blob, sweep, overlapped, dropFaults>>,
         \A c \in Calls : call'[c] = call[c] \/ call'[c] = Idle \/ CallRight(c)',
         \A c \in Calls : call[c].op = "erase" => call'[c] = call[c],
         \A d \in Drops : row'[d].st = "gone" => row[d].st = "gone",
         \A d \in Drops : row'[d].st \in {"complete", "delivered"}
                            => row[d].st \in {"complete", "delivered"} \/ blob[d] = Parts
  PROVE  DropInv'
<1>1. CallsRight'
  BY CallsKept DEF DropInv
<1>2. SweepRight'
  BY SweepKept DEF DropInv
<1>3. OfferHasFile'
  BY DEF DropInv, OfferHasFile
<1>4. BlobReclaimed'
  BY DEF DropInv, BlobReclaimed
<1> QED BY <1>1, <1>2, <1>3, <1>4 DEF DropInv

\* Devices come and go; no row changes its status.
LEMMA DeviceStep ==
  ASSUME DropInv, NEW dev \in Devices,
         RegistrationAges(dev) \/ RevokeParty(dev) \/ DeleteParty(dev)
  PROVE  DropInv'
<1>1. UNCHANGED <<row, blob, call, sweep, events, overlapped, dropFaults>>
  BY DEF RegistrationAges, RevokeParty, DeleteParty
<1>2. /\ standing' \in [Devices -> {"approved", "revoked", "deleted"}]
      /\ registered' \subseteq Devices
  BY DEF DropInv, DropTypeOK, RegistrationAges, RevokeParty, DeleteParty
<1>3. DropTypeOK'
  BY <1>1, <1>2 DEF DropInv, DropTypeOK
<1>4. Monotone
  BY <1>1 DEF Monotone
<1> QED BY <1>1, <1>3, <1>4, QuietStep

\* The first registration also wakes the sweep, which holds nothing.
LEMMA DropRegisterStep ==
  ASSUME DropInv, NEW dev \in Devices, Register(dev)
  PROVE  DropInv'
<1>1. UNCHANGED <<standing, row, blob, call, events, overlapped, dropFaults>>
  BY DEF Register
<1>2. /\ sweep' \in [pc : {"off", "idle", "delete", "erase"}, held : SUBSET Drops]
      /\ sweep'.held = sweep.held
      /\ sweep'.pc = sweep.pc \/ (sweep.pc = "off" /\ sweep'.pc = "idle")
  BY DEF DropInv, DropTypeOK, Register
<1>3. DropTypeOK'
  BY <1>1, <1>2 DEF DropInv, DropTypeOK, Register
<1>4. CallsRight' /\ OfferHasFile'
  BY <1>1 DEF DropInv, CallsRight, OfferHasFile
<1>5. SweepRight'
  BY <1>1, <1>2 DEF DropInv, SweepRight
<1>6. BlobReclaimed'
  BY <1>1, <1>2 DEF DropInv, BlobReclaimed
<1> QED BY <1>3, <1>4, <1>5, <1>6 DEF DropInv

\* A new row, and rows that get older.
LEMMA RowStep ==
  ASSUME DropInv, NEW d \in Drops,
         \/ \E s, r \in Devices : CreateDrop(d, s, r)
         \/ TtlPasses(d) \/ UploadStalls(d)
  PROVE  DropInv'
<1>1. UNCHANGED <<standing, registered, blob, call, sweep, events, overlapped, dropFaults>>
  BY DEF CreateDrop, TtlPasses, UploadStalls
<1>2. PICK r \in Row : /\ row' = [row EXCEPT ![d] = r]
                       /\ \/ row[d].st = "unborn" /\ r.st = "uploading"
                          \/ r.st = row[d].st
  <2>1. row[d] \in Row
    BY DEF DropInv, DropTypeOK
  <2>2. CASE \E s, r \in Devices : CreateDrop(d, s, r)
    <3>1. PICK s \in Devices, r \in Devices : CreateDrop(d, s, r)
      BY <2>2
    <3> DEFINE new == [st |-> "uploading", from |-> s, to |-> r, ttl |-> "unset", stuck |-> FALSE]
    <3>2. new \in Row /\ new.st = "uploading"
      BY DEF Row
    <3>3. row' = [row EXCEPT ![d] = new] /\ row[d].st = "unborn"
      BY <3>1 DEF CreateDrop
    <3> HIDE DEF new
    <3> QED BY <3>2, <3>3
  <2>3. CASE TtlPasses(d)
    <3> DEFINE new == [row[d] EXCEPT !.ttl = "past"]
    <3>1. new \in Row /\ new.st = row[d].st
      BY <2>1 DEF Row
    <3>2. row' = [row EXCEPT ![d] = new]
      BY <2>3 DEF TtlPasses, DropInv, DropTypeOK
    <3> HIDE DEF new
    <3> QED BY <3>1, <3>2
  <2>4. CASE UploadStalls(d)
    <3> DEFINE new == [row[d] EXCEPT !.stuck = TRUE]
    <3>1. new \in Row /\ new.st = row[d].st
      BY <2>1 DEF Row
    <3>2. row' = [row EXCEPT ![d] = new]
      BY <2>4 DEF UploadStalls, DropInv, DropTypeOK
    <3> HIDE DEF new
    <3> QED BY <3>1, <3>2
  <2> QED BY <2>2, <2>3, <2>4
<1>3. row' \in [Drops -> Row] /\ row'[d] = r /\ \A e \in Drops : e # d => row'[e] = row[e]
  BY <1>2 DEF DropInv, DropTypeOK
<1>4. DropTypeOK'
  BY <1>1, <1>3 DEF DropInv, DropTypeOK
<1>5. Monotone
  BY <1>1, <1>2, <1>3 DEF Monotone
<1> QED BY <1>1, <1>2, <1>3, <1>4, <1>5, QuietStep

\* A request reads a row that is there.
LEMMA DropBeginStep ==
  ASSUME DropInv, NEW c \in Calls, NEW d \in Drops,
         \/ \E legacy \in BOOLEAN : BeginUpload(c, d, legacy)
         \/ StartDownload(c, d) \/ BeginComplete(c, d)
  PROVE  DropInv'
<1>1. PICK op \in {"relay", "renew", "deliver"}, legacy \in BOOLEAN :
        /\ Starts(c, d, op, legacy)
        /\ row[d].st \in {"uploading", "complete"}
        /\ op # "relay" => row[d].st = "complete"
        /\ UNCHANGED <<standing, registered, row, blob, sweep, events, overlapped, dropFaults>>
  <2>1. CASE \E legacy \in BOOLEAN : BeginUpload(c, d, legacy)
    BY <2>1 DEF BeginUpload
  <2>2. CASE StartDownload(c, d)
    BY <2>2, Zenon DEF StartDownload
  <2>3. CASE BeginComplete(c, d)
    BY <2>3 DEF BeginComplete
  <2> QED BY <2>1, <2>2, <2>3
<1>2. /\ call' \in [Calls -> CallRow \cup {Idle}]
      /\ call[c] = Idle
      /\ call'[c].op = op /\ call'[c].drop = d
      /\ \A e \in Calls : e # c => call'[e] = call[e]
  BY <1>1, CallStarts DEF DropInv
<1>3. DropTypeOK'
  BY <1>1, <1>2 DEF DropInv, DropTypeOK
<1>4. Monotone
  BY <1>1 DEF Monotone
<1>5. CallRight(c)'
  BY <1>1, <1>2 DEF CallRight, DropInv, OfferHasFile
<1>6. \A e \in Calls : call[e].op = "erase" => call'[e] = call[e]
  BY <1>2 DEF Idle
<1> QED BY <1>1, <1>2, <1>3, <1>4, <1>5, <1>6, QuietStep

\* A request writes the row it has read, whatever became of it, and ends.
LEMMA WriteStep ==
  ASSUME DropInv, NEW c \in Calls,
         \/ FinishUpload(c) \/ TouchUpload(c) \/ MarkDropFailed(c) \/ RenewTtl(c) \/ Deliver(c)
  PROVE  DropInv'
<1> DEFINE d == call[c].drop
<1>1. /\ call[c].op \in {"finish", "touch", "fail", "renew", "deliver"} /\ Ends(c)
      /\ UNCHANGED <<standing, registered, blob, sweep, overlapped, dropFaults>>
  BY DEF FinishUpload, TouchUpload, MarkDropFailed, RenewTtl, Deliver
<1>2. call[c] \in CallRow /\ d \in Drops
  BY <1>1, CallShapes DEF DropInv, CallRow
<1>3. row[d] \in Row /\ row[d].ttl \in {"unset", "ahead", "past"}
  BY <1>2 DEF DropInv, DropTypeOK, Row
<1>4. /\ row' \in [Drops -> Row]
      /\ \A e \in Drops : e # d => row'[e] = row[e]
      /\ row[d].st \notin Present => row'[d].st = row[d].st
      /\ row[d].st \in Present => /\ row'[d].st \in Present
                                  /\ \/ row'[d].st \in {row[d].st, "failed"}
                                     \/ call[c].op \in {"finish", "renew", "deliver"}
  <2>1. CASE FinishUpload(c)
    BY <1>2, <1>3, <2>1, RowUpdated DEF FinishUpload, DropInv
  <2>2. CASE TouchUpload(c)
    <3>1. CASE row[d].st \in Present
      BY <1>2, <1>3, <2>2, <3>1, RowUpdated DEF TouchUpload, DropInv
    <3>2. CASE row[d].st \notin Present
      BY <2>2, <3>2 DEF TouchUpload, Updated, DropInv, DropTypeOK
    <3> QED BY <3>1, <3>2
  <2>3. CASE MarkDropFailed(c)
    BY <1>2, <1>3, <2>3, RowUpdated DEF MarkDropFailed, DropInv
  <2>4. CASE RenewTtl(c)
    <3>1. CASE row[d].st = "complete"
      BY <1>2, <1>3, <2>4, <3>1, RowUpdated DEF RenewTtl, DropInv
    <3>2. CASE row[d].st # "complete"
      BY <2>4, <3>2 DEF RenewTtl, DropInv, DropTypeOK
    <3> QED BY <3>1, <3>2
  <2>5. CASE Deliver(c)
    BY <1>2, <1>3, <2>5, RowUpdated DEF Deliver, DropInv
  <2> QED BY <2>1, <2>2, <2>3, <2>4, <2>5
<1>5. events' \in [Drops -> Nat]
  <2>1. events' = events \/ events' = [events EXCEPT ![d] = @ + 1]
    BY DEF FinishUpload, TouchUpload, MarkDropFailed, RenewTtl, Deliver
  <2> QED BY <1>2, <2>1 DEF DropInv, DropTypeOK
<1>6. /\ call' \in [Calls -> CallRow \cup {Idle}] /\ call'[c] = Idle
      /\ \A e \in Calls : e # c => call'[e] = call[e]
  BY <1>1, DropCallEnds DEF DropInv
<1>7. DropTypeOK'
  BY <1>1, <1>4, <1>5, <1>6 DEF DropInv, DropTypeOK
<1>8. row[d].st \in Present /\ call[c].op \in {"finish", "renew", "deliver"} => blob[d] = Parts
  BY <1>2 DEF DropInv, CallsRight
<1>9. Monotone
  BY <1>1, <1>2, <1>3, <1>4 DEF Monotone, Row
<1>10. \A e \in Calls : call[e].op = "erase" => call'[e] = call[e]
  BY <1>1, <1>6
<1>11. \A e \in Drops : row'[e].st = "gone" => row[e].st = "gone"
  BY <1>3, <1>4 DEF Row
<1>12. \A e \in Drops : row'[e].st \in {"complete", "delivered"}
                          => row[e].st \in {"complete", "delivered"} \/ blob[e] = Parts
  BY <1>3, <1>4, <1>8 DEF Row
<1> HIDE DEF d
<1> QED BY <1>1, <1>6, <1>7, <1>9, <1>10, <1>11, <1>12, QuietStep

-----------------------------------------------------------------------------
(* The storage VM                                                            *)

\* What a relay comes to: the blob grows or stays, the request is marked to
\* finish only when the file is whole, and a blob whose row is gone grows only
\* on record.
LEMMA RelayOutcome ==
  ASSUME DropTypeOK, NEW c \in Calls, RelayStored(c) \/ RelayRejected(c) \/ RelayGone(c)
  PROVE  LET d == call[c].drop
         IN  /\ call[c].op = "relay" /\ d \in Drops
             /\ blob' \in [Drops -> 0..Parts] /\ blob[d] <= blob'[d]
             /\ \A e \in Drops : e # d => blob'[e] = blob[e]
             /\ call'[c].op = "finish" => blob'[d] = Parts
             /\ call' \in [Calls -> CallRow \cup {Idle}]
             /\ call'[c] = Idle \/ (call'[c].op \in {"finish", "touch", "fail"} /\ call'[c].drop = d)
             /\ \A e \in Calls : e # c => call'[e] = call[e]
             /\ overlapped \subseteq overlapped' /\ overlapped' \subseteq Drops
             /\ blob' = blob \/ row[d].st # "gone" \/ d \in overlapped'
             /\ UNCHANGED <<standing, registered, row, sweep, events, dropFaults>>
<1> DEFINE d == call[c].drop
           top == IF call[c].legacy \/ blob[d] = Parts THEN Parts ELSE blob[d] + 1
<1>1. call[c].op = "relay"
  BY DEF RelayStored, RelayRejected, RelayGone
<1>2. call[c] \in CallRow /\ d \in Drops /\ call[c].read \in Present
  BY <1>1, CallShapes DEF CallRow
<1>3. /\ blob[d] \in 0..Parts /\ Parts \in Nat \ {0}
      /\ top \in 0..Parts /\ blob[d] <= top
  BY <1>2, DropAssumption DEF DropAssumption, DropTypeOK
<1>4. /\ overlapped \subseteq overlapped' /\ overlapped' \subseteq Drops
      /\ blob' = blob \/ row[d].st # "gone" \/ d \in overlapped'
  <2>1. CASE NoteOverlap(c)
    BY <1>2, <2>1 DEF NoteOverlap, DropTypeOK
  <2>2. CASE overlapped' = overlapped /\ blob' = blob
    BY <2>2 DEF DropTypeOK
  <2> QED BY <2>1, <2>2 DEF RelayStored, RelayRejected, RelayGone
<1>5. UNCHANGED <<standing, registered, row, sweep, events, dropFaults>>
  BY DEF RelayStored, RelayRejected, RelayGone
<1>6. CASE RelayStored(c)
  <2> DEFINE op == IF top = Parts THEN "finish" ELSE "touch"
  <2>1. blob' = [blob EXCEPT ![d] = top] /\ GoesOn(c, op) /\ op \in {"finish", "touch", "fail"}
    BY <1>6 DEF RelayStored
  <2>2. /\ call' \in [Calls -> CallRow \cup {Idle}]
        /\ call'[c].op = op /\ call'[c].drop = call[c].drop
        /\ \A e \in Calls : e # c => call'[e] = call[e]
    <3> HIDE DEF op
    <3> QED BY <1>1, <2>1, CallMoves
  <2>3. op = "finish" => top = Parts
    OBVIOUS
  <2> HIDE DEF top
  <2>4. /\ blob' \in [Drops -> 0..Parts] /\ blob[d] <= blob'[d]
        /\ \A e \in Drops : e # d => blob'[e] = blob[e]
        /\ call'[c].op = "finish" => blob'[d] = Parts
    BY <1>2, <1>3, <2>1, <2>2, <2>3 DEF DropTypeOK
  <2> QED BY <1>1, <1>2, <1>4, <1>5, <2>1, <2>2, <2>4
<1>7. CASE RelayRejected(c)
  <2>1. PICK n \in blob[d]..top : blob' = [blob EXCEPT ![d] = n]
    BY <1>7 DEF RelayRejected
  <2>2. /\ blob' \in [Drops -> 0..Parts] /\ blob[d] <= blob'[d]
        /\ \A e \in Drops : e # d => blob'[e] = blob[e]
    BY <1>2, <1>3, <2>1 DEF DropTypeOK
  <2>3. /\ call' \in [Calls -> CallRow \cup {Idle}]
        /\ call'[c] = Idle \/ (call'[c].op = "fail" /\ call'[c].drop = d)
        /\ \A e \in Calls : e # c => call'[e] = call[e]
    <3>1. CASE GoesOn(c, "fail")
      BY <1>1, <3>1, CallMoves
    <3>2. CASE Ends(c)
      BY <3>2, DropCallEnds
    <3> QED BY <1>7, <3>1, <3>2 DEF RelayRejected
  <2>4. call'[c].op # "finish"
    BY <2>3 DEF Idle
  <2> QED BY <1>1, <1>2, <1>4, <1>5, <2>1, <2>2, <2>3, <2>4
<1>8. CASE RelayGone(c)
  <2>1. blob' = blob /\ GoesOn(c, "fail")
    BY <1>8 DEF RelayGone
  <2>2. /\ call' \in [Calls -> CallRow \cup {Idle}]
        /\ call'[c].op = "fail" /\ call'[c].drop = call[c].drop
        /\ \A e \in Calls : e # c => call'[e] = call[e]
    BY <1>1, <2>1, CallMoves
  <2>3. blob' \in [Drops -> 0..Parts] /\ blob[d] <= blob'[d]
    BY <1>3, <2>1 DEF DropTypeOK
  <2> QED BY <1>1, <1>2, <1>3, <1>4, <1>5, <2>1, <2>2, <2>3
<1> QED BY <1>6, <1>7, <1>8

\* A relay.
LEMMA RelayStep ==
  ASSUME DropInv, NEW c \in Calls, RelayStored(c) \/ RelayRejected(c) \/ RelayGone(c)
  PROVE  DropInv'
<1> DEFINE d == call[c].drop
<1>1. /\ call[c].op = "relay" /\ d \in Drops
      /\ call' \in [Calls -> CallRow \cup {Idle}]
      /\ call'[c] = Idle \/ (call'[c].op \in {"finish", "touch", "fail"} /\ call'[c].drop = d)
      /\ \A e \in Calls : e # c => call'[e] = call[e]
      /\ overlapped \subseteq overlapped' /\ overlapped' \subseteq Drops
      /\ blob' = blob \/ row[d].st # "gone" \/ d \in overlapped'
      /\ UNCHANGED <<standing, registered, row, sweep, events, dropFaults>>
  BY RelayOutcome DEF DropInv
<1>2. /\ blob' \in [Drops -> 0..Parts] /\ blob[d] <= blob'[d]
      /\ \A e \in Drops : e # d => blob'[e] = blob[e]
      /\ call'[c].op = "finish" => blob'[d] = Parts
  BY RelayOutcome DEF DropInv
<1> HIDE DEF d
<1>3. \A e \in Drops : blob[e] = Parts => blob'[e] = Parts
  <2>1. blob'[d] \in 0..Parts /\ Parts \in Nat
    BY <1>1, <1>2, DropAssumption DEF DropAssumption
  <2> QED BY <1>1, <1>2, <2>1
<1>4. DropTypeOK'
  BY <1>1, <1>2 DEF DropInv, DropTypeOK
<1>5. Monotone
  BY <1>1, <1>3 DEF Monotone
<1>6. CASE call'[c] = Idle \/ CallRight(c)'
  <2>1. CallsRight'
    BY <1>1, <1>5, <1>6, CallsKept DEF DropInv
  <2>2. SweepRight'
    BY <1>1, <1>5, SweepKept DEF DropInv
  <2>3. OfferHasFile'
    BY <1>1, <1>3 DEF DropInv, OfferHasFile
  <2>4. \A e \in Calls : call[e].op = "erase" => call'[e] = call[e]
    BY <1>1
  <2>5. BlobReclaimed'
    BY <1>1, <1>2, <2>4 DEF DropInv, BlobReclaimed
  <2> QED BY <1>4, <2>1, <2>2, <2>3, <2>5 DEF DropInv
<1>7. CASE call'[c].op \in {"finish", "touch", "fail"} /\ call'[c].drop = d
  <2>1. row[d].st # "unborn"
    BY <1>1 DEF d, DropInv, CallsRight
  <2>2. CallRight(c)'
    BY <1>1, <1>2, <1>7, <2>1 DEF CallRight
  <2> QED BY <1>6, <2>2
<1> QED BY <1>1, <1>6, <1>7

\* A declined drop: its row goes, and the call is about to erase its blob.
LEMMA DeclineStep ==
  ASSUME DropInv, NEW c \in Calls, NEW d \in Drops, Decline(c, d)
  PROVE  DropInv'
<1> DEFINE r == [row[d] EXCEPT !.st = "gone"]
<1>1. /\ row[d].st \in Present /\ Starts(c, d, "erase", FALSE)
      /\ UNCHANGED <<standing, registered, blob, sweep, events, overlapped, dropFaults>>
  BY DEF Decline
<1>2. row[d] \in Row /\ r \in Row /\ r.st = "gone"
  BY DEF DropInv, DropTypeOK, Row
<1>3. row' = [row EXCEPT ![d] = r]
  BY DEF Decline, DropInv, DropTypeOK
<1> HIDE DEF r
<1>4. /\ row' \in [Drops -> Row] /\ row'[d].st = "gone"
      /\ \A e \in Drops : e # d => row'[e] = row[e]
  BY <1>2, <1>3 DEF DropInv, DropTypeOK
<1>5. /\ call' \in [Calls -> CallRow \cup {Idle}] /\ call[c] = Idle
      /\ call'[c].op = "erase" /\ call'[c].drop = d
      /\ \A e \in Calls : e # c => call'[e] = call[e]
  BY <1>1, CallStarts DEF DropInv
<1>6. DropTypeOK'
  BY <1>1, <1>4, <1>5 DEF DropInv, DropTypeOK
<1>7. Monotone
  BY <1>1, <1>4 DEF Monotone
<1>8. CallRight(c)'
  BY <1>4, <1>5 DEF CallRight
<1>9. CallsRight'
  BY <1>5, <1>7, <1>8, CallsKept DEF DropInv
<1>10. SweepRight'
  BY <1>1, <1>7, SweepKept DEF DropInv
<1>11. OfferHasFile'
  BY <1>1, <1>4 DEF DropInv, OfferHasFile
<1>12. \A e \in Calls : call[e].op = "erase" => call'[e] = call[e]
  BY <1>5 DEF Idle
<1>13. BlobReclaimed'
  BY <1>1, <1>4, <1>5, <1>12 DEF DropInv, BlobReclaimed
<1> QED BY <1>6, <1>9, <1>10, <1>11, <1>13 DEF DropInv

\* _delete_blob.
LEMMA BlobDeleted ==
  ASSUME DropTypeOK, NEW d \in Drops, DeleteBlob(d)
  PROVE  /\ blob' \in [Drops -> 0..Parts] /\ dropFaults' \in 0..MaxDropFaults
         /\ \A e \in Drops : e # d => blob'[e] = blob[e]
         /\ dropFaults' = 0 => blob'[d] = 0 /\ dropFaults = 0
<1>1. dropFaults \in 0..MaxDropFaults /\ MaxDropFaults \in Nat /\ Parts \in Nat /\ blob \in [Drops -> 0..Parts]
  BY DropAssumption DEF DropAssumption, DropTypeOK
<1>2. CASE blob' = [blob EXCEPT ![d] = 0] /\ dropFaults' = dropFaults
  BY <1>1, <1>2
<1>3. CASE dropFaults < MaxDropFaults /\ dropFaults' = dropFaults + 1 /\ blob' = blob
  BY <1>1, <1>3
<1> QED BY <1>2, <1>3 DEF DeleteBlob

\* Erasing the blob of a row that is gone.
LEMMA EraseStep ==
  ASSUME DropInv, NEW c \in Calls, EraseDeclined(c)
  PROVE  DropInv'
<1> DEFINE d == call[c].drop
<1>1. /\ call[c].op = "erase" /\ Ends(c) /\ DeleteBlob(d)
      /\ UNCHANGED <<standing, registered, row, sweep, events, overlapped>>
  BY DEF EraseDeclined
<1>2. d \in Drops /\ row[d].st = "gone"
  BY <1>1 DEF DropInv, CallsRight
<1>3. /\ call' \in [Calls -> CallRow \cup {Idle}] /\ call'[c] = Idle
      /\ \A e \in Calls : e # c => call'[e] = call[e]
  BY <1>1, DropCallEnds DEF DropInv
<1>4. /\ blob' \in [Drops -> 0..Parts] /\ dropFaults' \in 0..MaxDropFaults
      /\ \A e \in Drops : e # d => blob'[e] = blob[e]
      /\ dropFaults' = 0 => blob'[d] = 0 /\ dropFaults = 0
  BY <1>1, <1>2, BlobDeleted DEF DropInv
<1>5. DropTypeOK'
  BY <1>1, <1>3, <1>4 DEF DropInv, DropTypeOK
<1>6. Monotone
  BY <1>1, <1>2, <1>4 DEF Monotone
<1>7. CallsRight'
  BY <1>3, <1>6, CallsKept DEF DropInv
<1>8. SweepRight'
  BY <1>1, <1>6, SweepKept DEF DropInv
<1>9. OfferHasFile'
  BY <1>1, <1>2, <1>4 DEF DropInv, OfferHasFile
<1>10. BlobReclaimed'
  <2> SUFFICES ASSUME NEW e \in Drops, row[e].st = "gone", blob'[e] # 0, dropFaults' = 0, e \notin overlapped
               PROVE  e \in sweep.held \/ \E x \in Calls : call'[x].op = "erase" /\ call'[x].drop = e
    BY <1>1 DEF BlobReclaimed
  <2>1. e # d /\ dropFaults = 0 /\ blob[e] # 0
    BY <1>4
  <2>2. e \in sweep.held \/ \E x \in Calls : call[x].op = "erase" /\ call[x].drop = e
    BY <2>1 DEF DropInv, BlobReclaimed
  <2> QED BY <1>3, <2>1, <2>2
<1> QED BY <1>5, <1>7, <1>8, <1>9, <1>10 DEF DropInv

-----------------------------------------------------------------------------
(* The sweep                                                                 *)

LEMMA SweepStep ==
  ASSUME DropInv, SweepSelect \/ SweepDelete
  PROVE  DropInv'
<1>1. CASE SweepSelect
  <2>1. /\ sweep.pc = "idle" /\ sweep' = [pc |-> "delete", held |-> {d \in Drops : Due(d)}]
        /\ UNCHANGED <<standing, registered, row, blob, call, events, overlapped, dropFaults>>
    BY <1>1 DEF SweepSelect
  <2>2. DropTypeOK'
    BY <2>1 DEF DropInv, DropTypeOK
  <2>3. CallsRight' /\ OfferHasFile'
    BY <2>1 DEF DropInv, CallsRight, OfferHasFile
  <2>4. SweepRight'
    BY <2>1 DEF SweepRight, Due
  <2>5. BlobReclaimed'
    <3>1. sweep.held = {}
      BY <2>1 DEF DropInv, SweepRight
    <3> QED BY <2>1, <3>1 DEF DropInv, BlobReclaimed
  <2> QED BY <2>2, <2>3, <2>4, <2>5 DEF DropInv
<1>2. CASE SweepDelete
  <2>1. /\ sweep.pc = "delete" /\ sweep' = [sweep EXCEPT !.pc = "erase"]
        /\ row' = [d \in Drops |-> IF d \in sweep.held THEN [row[d] EXCEPT !.st = "gone"] ELSE row[d]]
        /\ UNCHANGED <<standing, registered, blob, call, events, overlapped, dropFaults>>
    BY <1>2 DEF SweepDelete
  <2>2. /\ sweep' \in [pc : {"off", "idle", "delete", "erase"}, held : SUBSET Drops]
        /\ sweep'.pc = "erase" /\ sweep'.held = sweep.held /\ sweep.held \subseteq Drops
    BY <2>1 DEF DropInv, DropTypeOK
  <2>3. \A d \in Drops : /\ row'[d] \in Row
                         /\ d \in sweep.held => row'[d].st = "gone"
                         /\ d \notin sweep.held => row'[d] = row[d]
    BY <2>1 DEF DropInv, DropTypeOK, Row
  <2>4. row' \in [Drops -> Row]
    BY <2>1, <2>3
  <2>5. DropTypeOK'
    BY <2>1, <2>2, <2>4 DEF DropInv, DropTypeOK
  <2>6. \A d \in sweep.held : row[d].st # "unborn"
    BY DEF DropInv, SweepRight
  <2>7. Monotone
    BY <2>1, <2>3, <2>6 DEF Monotone
  <2>8. CallsRight'
    BY <2>1, <2>7, CallsKept DEF DropInv
  <2>9. SweepRight'
    BY <2>2, <2>3 DEF SweepRight
  <2>10. OfferHasFile'
    BY <2>1, <2>3 DEF DropInv, OfferHasFile
  <2>11. BlobReclaimed'
    BY <2>1, <2>2, <2>3 DEF DropInv, BlobReclaimed
  <2> QED BY <2>5, <2>8, <2>9, <2>10, <2>11 DEF DropInv
<1> QED BY <1>1, <1>2

LEMMA SweepEraseStep ==
  ASSUME DropInv, SweepErase
  PROVE  DropInv'
<1>1. /\ sweep.pc = "erase"
      /\ UNCHANGED <<standing, registered, row, call, events, overlapped>>
  BY DEF SweepErase
<1>2. PICK d \in sweep.held :
        /\ DeleteBlob(d)
        /\ sweep' = [pc |-> IF sweep.held = {d} THEN "idle" ELSE "erase", held |-> sweep.held \ {d}]
  BY DEF SweepErase
<1>3. d \in Drops /\ sweep.held \subseteq Drops /\ row[d].st = "gone"
  BY <1>1, <1>2 DEF DropInv, DropTypeOK, SweepRight
<1>4. /\ sweep' \in [pc : {"off", "idle", "delete", "erase"}, held : SUBSET Drops]
      /\ sweep'.held = sweep.held \ {d}
      /\ sweep'.pc = "erase" \/ (sweep'.pc = "idle" /\ sweep'.held = {})
  BY <1>2, <1>3
<1>5. /\ blob' \in [Drops -> 0..Parts] /\ dropFaults' \in 0..MaxDropFaults
      /\ \A e \in Drops : e # d => blob'[e] = blob[e]
      /\ dropFaults' = 0 => blob'[d] = 0 /\ dropFaults = 0
  BY <1>2, <1>3, BlobDeleted DEF DropInv
<1>6. DropTypeOK'
  BY <1>1, <1>4, <1>5 DEF DropInv, DropTypeOK
<1>7. Monotone
  BY <1>1, <1>3, <1>5 DEF Monotone
<1>8. CallsRight'
  BY <1>1, <1>7, CallsKept DEF DropInv
<1>9. SweepRight'
  BY <1>1, <1>4 DEF DropInv, SweepRight
<1>10. OfferHasFile'
  BY <1>1, <1>3, <1>5 DEF DropInv, OfferHasFile
<1>11. BlobReclaimed'
  BY <1>1, <1>3, <1>4, <1>5 DEF DropInv, BlobReclaimed
<1> QED BY <1>6, <1>8, <1>9, <1>10, <1>11 DEF DropInv

\* A restart forgets the calls and what the sweep held, and is a fault.
LEMMA DropRestartStep ==
  ASSUME DropInv, DropRestart
  PROVE  DropInv'
<1>1. /\ dropFaults' = dropFaults + 1 /\ dropFaults < MaxDropFaults
      /\ call' = [c \in Calls |-> Idle] /\ sweep' = [pc |-> "off", held |-> {}]
      /\ UNCHANGED <<standing, registered, row, blob, events, overlapped>>
  BY DEF DropRestart
<1>2. dropFaults' \in 0..MaxDropFaults /\ dropFaults' # 0
  BY <1>1, DropAssumption DEF DropAssumption, DropInv, DropTypeOK
<1>3. DropTypeOK'
  BY <1>1, <1>2 DEF DropInv, DropTypeOK
<1>4. CallsRight' /\ SweepRight' /\ OfferHasFile'
  BY <1>1 DEF DropInv, CallsRight, SweepRight, OfferHasFile, Idle
<1>5. BlobReclaimed'
  BY <1>2 DEF BlobReclaimed
<1> QED BY <1>3, <1>4, <1>5 DEF DropInv

-----------------------------------------------------------------------------
LEMMA DropInit_Inv == DropInit => DropInv
<1> SUFFICES ASSUME DropInit PROVE DropInv
  OBVIOUS
<1>1. DropTypeOK
  BY DropAssumption DEF DropAssumption, DropInit, DropTypeOK, Row
<1> QED BY <1>1 DEF DropInit, DropInv, CallsRight, SweepRight, OfferHasFile, BlobReclaimed, Idle

LEMMA DropInductive == DropInv /\ [DropNext]_dropVars => DropInv'
<1> SUFFICES ASSUME DropInv, [DropNext]_dropVars PROVE DropInv'
  OBVIOUS
<1>1. ASSUME NEW dev \in Devices, Register(dev) \/ RegistrationAges(dev) PROVE DropInv'
  BY <1>1, DropRegisterStep, DeviceStep
<1>2. ASSUME NEW dev \in Leavers, RevokeParty(dev) \/ DeleteParty(dev) PROVE DropInv'
  BY <1>2, DeviceStep, DropAssumption DEF DropAssumption
<1>3. ASSUME NEW d \in Drops, NEW s \in Devices, NEW r \in Devices, CreateDrop(d, s, r)
      PROVE  DropInv'
  BY <1>3, RowStep
<1>4. ASSUME NEW c \in Calls, NEW d \in Drops,
             \/ \E legacy \in BOOLEAN : BeginUpload(c, d, legacy)
             \/ StartDownload(c, d) \/ BeginComplete(c, d) \/ Decline(c, d)
      PROVE  DropInv'
  BY <1>4, DropBeginStep, DeclineStep
<1>5. ASSUME NEW c \in Calls, CallGoesOn(c) PROVE DropInv'
  BY <1>5, RelayStep, WriteStep, EraseStep DEF CallGoesOn
<1>6. ASSUME NEW d \in Drops, TtlPasses(d) \/ UploadStalls(d) PROVE DropInv'
  BY <1>6, RowStep
<1>7. CASE SweepGoesOn
  BY <1>7, SweepStep, SweepEraseStep DEF SweepGoesOn
<1>8. CASE DropRestart
  BY <1>8, DropRestartStep
<1>9. CASE UNCHANGED dropVars
  BY <1>9 DEF dropVars, DropInv, DropTypeOK, CallsRight, SweepRight, OfferHasFile, BlobReclaimed
<1> QED BY <1>1, <1>2, <1>3, <1>4, <1>5, <1>6, <1>7, <1>8, <1>9 DEF DropNext

\* A drop that its recipient is offered, or has confirmed, has its whole file on
\* the storage VM, whichever uploads, downloads, confirmations, refusals and
\* rounds of the sweep overlapped and whichever of them failed.
THEOREM OffersHaveFiles == DropSpec => []OfferHasFile
BY DropInit_Inv, DropInductive, PTL DEF DropSpec, DropInv

\* No blob outlives its row for good, except after a failed deletion, a restart,
\* or an upload that stored bytes when its row had changed under it.
THEOREM BlobsReclaimed == DropSpec => []BlobReclaimed
BY DropInit_Inv, DropInductive, PTL DEF DropSpec, DropInv

\* The table, the storage VM and the requests in flight hold what the handlers
\* take them for; in particular no blob is longer than its file.
THEOREM DropTypes == DropSpec => []DropTypeOK
BY DropInit_Inv, DropInductive, PTL DEF DropSpec, DropInv
=============================================================================
