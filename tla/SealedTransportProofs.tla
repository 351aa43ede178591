------------------------ MODULE SealedTransportProofs ------------------------
(***************************************************************************)
(* The two halves of sealed.py, for every value of their constants.        *)
(*                                                                         *)
(* No sealed call runs twice, for every number of envelopes and deliveries *)
(* and every skew, retention and delay that satisfy WindowAssumption.  The *)
(* argument: a claim is made at the earliest Skew before the timestamp, so *)
(* an entry is purged only when no copy that was checked in time can still *)
(* be on its way to the claim.                                             *)
(*                                                                         *)
(* Inspected networks: an observation has a row as long as it exists       *)
(* (RowsOfObserved), so work about it never ends without an alert; what    *)
(* the Owner decided is not pending (OwnerDecides), so a classification    *)
(* that ends late does not touch it; and the gate decides only about calls *)
(* with a device or that need none (GatedClaims).                          *)
(***************************************************************************)
EXTENDS SealedTransport, InspectedNetworks, FiniteSetTheorems, TLAPS

\* A copy under way was checked near its timestamp, and one that is still to
\* be claimed was checked at most ClaimDelay ago.
CopiesTimely ==
  \A c \in Copies : copy[c] # NoCopy =>
    /\ stamp[copy[c].env] # Never
    /\ stamp[copy[c].env] - Skew <= copy[c].at
    /\ copy[c].at <= stamp[copy[c].env] + Skew
    /\ copy[c].at <= wall
    /\ copy[c].pc = "checked" => wall <= copy[c].at + ClaimDelay

\* An entry is no older than Skew before the timestamp.
ClaimsTimely ==
  \A e \in Envelopes : replay[e] # Never =>
    /\ stamp[e] # Never
    /\ stamp[e] - Skew <= replay[e]
    /\ replay[e] <= wall

\* No copy of the envelope can be claimed any more: it has an entry, or every
\* check that succeeded is too long ago.
Shut(e) ==
  /\ stamp[e] # Never
  /\ replay[e] # Never \/ wall > stamp[e] + Skew + ClaimDelay

\* An envelope whose call ran, or that a copy has claimed, is shut, and not
\* both happened, nor one of them twice.
ClaimedOnce ==
  /\ \A e \in Envelopes : runs[e] # 0 => runs[e] = 1 /\ Shut(e)
  /\ \A c \in Copies : copy[c].pc = "claimed" => runs[copy[c].env] = 0 /\ Shut(copy[c].env)
  /\ \A c, d \in Copies :
       copy[c].pc = "claimed" /\ copy[d].pc = "claimed" /\ copy[c].env = copy[d].env => c = d

SealInv == SealTypeOK /\ CopiesTimely /\ ClaimsTimely /\ ClaimedOnce

-----------------------------------------------------------------------------
\* Deliveries that are not free are of an envelope and have a time.
LEMMA BusyCopy ==
  ASSUME SealTypeOK, NEW c \in Copies
  PROVE  /\ copy[c].pc = "free" <=> copy[c] = NoCopy
         /\ copy[c] # NoCopy => copy[c] \in CopyRow
         /\ copy[c] # NoCopy => copy[c].env \in Envelopes /\ copy[c].at \in Int
                                /\ copy[c].pc \in {"checked", "claimed"}
  BY DEF SealTypeOK, CopyRow, NoCopy

\* Times are integers.
LEMMA Times ==
  ASSUME SealTypeOK, NEW e \in Envelopes
  PROVE  /\ wall \in Int
         /\ stamp[e] # Never => stamp[e] \in Int
         /\ replay[e] # Never => replay[e] \in Int
  <1>1. stamp[e] \in Stamps \cup {Never}
    BY DEF SealTypeOK
  <1>2. replay[e] \in Int \cup {Never}
    BY DEF SealTypeOK
  <1>3. Stamps \subseteq Int
    BY WindowAssumption DEF WindowAssumption
  <1>4. wall \in Int
    BY WindowAssumption DEF WindowAssumption, SealTypeOK
  <1> QED
    BY <1>1, <1>2, <1>3, <1>4

\* Nothing has happened yet.
LEMMA SealInitial == SealInit => SealInv
  <1> SUFFICES ASSUME SealInit PROVE SealInv
    OBVIOUS
  <1>1. SealTypeOK
    BY WindowAssumption DEF WindowAssumption, SealInit, SealTypeOK
  <1>2. CopiesTimely /\ ClaimsTimely
    BY DEF SealInit, CopiesTimely, ClaimsTimely
  <1>3. ClaimedOnce
    BY DEF SealInit, ClaimedOnce, NoCopy
  <1> QED
    BY <1>1, <1>2, <1>3 DEF SealInv

\* The tables and copies stay what the handlers take them for.
LEMMA SealTypes == SealTypeOK /\ [SealNext]_sealVars => SealTypeOK'
  <1> SUFFICES ASSUME SealTypeOK, [SealNext]_sealVars PROVE SealTypeOK'
    OBVIOUS
  <1> USE WindowAssumption DEF WindowAssumption
  <1>1. ASSUME NEW e \in Envelopes, NEW t \in Stamps, Seal(e, t) PROVE SealTypeOK'
    BY <1>1 DEF SealTypeOK, Seal
  <1>2. ASSUME NEW c \in Copies, NEW e \in Envelopes, OpenEnvelope(c, e) PROVE SealTypeOK'
    BY <1>2 DEF SealTypeOK, OpenEnvelope, CopyRow
  <1>3. ASSUME NEW c \in Copies, ClaimReplaySlot(c) PROVE SealTypeOK'
    <2>1. copy[c] \in CopyRow
      BY <1>3, BusyCopy DEF ClaimReplaySlot, NoCopy
    <2>2. [copy[c] EXCEPT !.pc = "claimed"] \in CopyRow
      BY <2>1 DEF CopyRow
    <2>3. copy' \in [Copies -> CopyRow \cup {NoCopy}]
      BY <1>3, <2>2 DEF SealTypeOK, ClaimReplaySlot
    <2>4. replay' \in [Envelopes -> Int \cup {Never}]
      BY <1>3 DEF SealTypeOK, ClaimReplaySlot
    <2> QED
      BY <1>3, <2>3, <2>4 DEF SealTypeOK, ClaimReplaySlot
  <1>4. ASSUME NEW c \in Copies, RunInner(c) PROVE SealTypeOK'
    BY <1>4, BusyCopy DEF SealTypeOK, RunInner, NoCopy
  <1>5. ASSUME NEW c \in Copies, EndCopy(c) PROVE SealTypeOK'
    BY <1>5 DEF SealTypeOK, EndCopy
  <1>6. CASE Purge
    BY <1>6 DEF SealTypeOK, Purge
  <1>7. CASE SealTick
    BY <1>7 DEF SealTypeOK, SealTick
  <1>8. CASE UNCHANGED sealVars
    BY <1>8 DEF SealTypeOK, sealVars
  <1> QED
    BY <1>1, <1>2, <1>3, <1>4, <1>5, <1>6, <1>7, <1>8 DEF SealNext

-----------------------------------------------------------------------------
\* A timestamp is written once, and nothing is under way before.
LEMMA SealStep ==
  ASSUME SealInv, NEW e \in Envelopes, NEW t \in Stamps, Seal(e, t)
  PROVE  CopiesTimely' /\ ClaimsTimely' /\ ClaimedOnce'
  <1> USE WindowAssumption DEF WindowAssumption, SealInv
  <1>1. \A f \in Envelopes : stamp[f] # Never => stamp'[f] = stamp[f]
    BY DEF Seal, SealTypeOK
  <1>2. CopiesTimely'
    BY <1>1, BusyCopy DEF Seal, CopiesTimely
  <1>3. ClaimsTimely'
    BY <1>1 DEF Seal, ClaimsTimely
  <1>4. \A f \in Envelopes : Shut(f) => Shut(f)'
    BY <1>1 DEF Seal, Shut
  <1>5. ClaimedOnce'
    <2>1. \A c \in Copies : copy[c].pc = "claimed" => copy[c].env \in Envelopes
      BY BusyCopy DEF NoCopy
    <2> QED
      BY <1>4, <2>1 DEF Seal, ClaimedOnce
  <1> QED
    BY <1>2, <1>3, <1>5

\* A copy that is opened is checked now.
LEMMA OpenStep ==
  ASSUME SealInv, NEW c \in Copies, NEW e \in Envelopes, OpenEnvelope(c, e)
  PROVE  CopiesTimely' /\ ClaimsTimely' /\ ClaimedOnce'
  <1> USE WindowAssumption DEF WindowAssumption, SealInv
  <1>1. stamp[e] \in Int /\ wall \in Int
    BY Times DEF OpenEnvelope
  <1>2. /\ copy'[c] = [pc |-> "checked", env |-> e, at |-> wall]
        /\ \A d \in Copies : d # c => copy'[d] = copy[d]
    BY DEF OpenEnvelope, SealTypeOK
  <1>3. CopiesTimely'
    <2> SUFFICES ASSUME NEW d \in Copies, copy'[d] # NoCopy
                 PROVE  /\ stamp[copy'[d].env] # Never
                        /\ stamp[copy'[d].env] - Skew <= copy'[d].at
                        /\ copy'[d].at <= stamp[copy'[d].env] + Skew
                        /\ copy'[d].at <= wall
                        /\ copy'[d].pc = "checked" => wall <= copy'[d].at + ClaimDelay
      BY DEF OpenEnvelope, CopiesTimely
    <2>1. CASE d = c
      BY <1>1, <1>2, <2>1 DEF OpenEnvelope
    <2>2. CASE d # c
      BY <1>2, <2>2 DEF CopiesTimely
    <2> QED
      BY <2>1, <2>2
  <1>4. ClaimsTimely'
    BY DEF OpenEnvelope, ClaimsTimely
  <1>5. \A f \in Envelopes : Shut(f)' <=> Shut(f)
    BY DEF OpenEnvelope, Shut
  <1>6. \A d \in Copies : copy'[d].pc = "claimed" => d # c /\ copy'[d] = copy[d]
    BY <1>2
  <1>7. \A d \in Copies : copy[d].pc = "claimed" => copy[d].env \in Envelopes
    BY BusyCopy DEF NoCopy
  <1>8. ClaimedOnce'
    BY <1>5, <1>6, <1>7 DEF OpenEnvelope, ClaimedOnce
  <1> QED
    BY <1>3, <1>4, <1>8

\* A claim finds no entry only if the call neither ran nor is claimed.
LEMMA ClaimStep ==
  ASSUME SealInv, NEW c \in Copies, ClaimReplaySlot(c)
  PROVE  CopiesTimely' /\ ClaimsTimely' /\ ClaimedOnce'
  <1> USE WindowAssumption DEF WindowAssumption, SealInv
  <1>0. copy[c] # NoCopy /\ copy[c].env \in Envelopes
    BY BusyCopy DEF ClaimReplaySlot, NoCopy
  <1> PICK e \in Envelopes : copy[c].env = e
    BY <1>0
  <1>1. copy[c] \in CopyRow /\ copy[c].at \in Int /\ wall \in Int
    BY <1>0, BusyCopy DEF SealTypeOK
  <1>2. /\ stamp[e] \in Int
        /\ stamp[e] - Skew <= copy[c].at /\ copy[c].at <= stamp[e] + Skew
        /\ copy[c].at <= wall /\ wall <= copy[c].at + ClaimDelay
    BY <1>0, <1>1 DEF CopiesTimely, ClaimReplaySlot, SealTypeOK
  <1>3. \A d \in Copies : copy[d].pc = "claimed" => copy[d].env \in Envelopes
    BY BusyCopy DEF NoCopy
  <1>4. CASE replay[e] = Never
    <2>1. /\ replay' = [replay EXCEPT ![e] = wall]
          /\ copy'[c] = [copy[c] EXCEPT !.pc = "claimed"]
          /\ \A d \in Copies : d # c => copy'[d] = copy[d]
      BY <1>4 DEF ClaimReplaySlot, SealTypeOK
    <2>2. copy'[c].pc = "claimed" /\ copy'[c].env = e /\ copy'[c].at = copy[c].at
      BY <1>1, <2>1 DEF CopyRow
    <2>3. ~Shut(e)
      <3>1. wall <= stamp[e] + Skew + ClaimDelay
        BY <1>1, <1>2
      <3>2. ~(wall > stamp[e] + Skew + ClaimDelay)
        BY <1>1, <1>2, <3>1
      <3> QED
        BY <1>4, <3>2 DEF Shut
    <2>4. runs[e] = 0 /\ \A d \in Copies : copy[d].pc = "claimed" => copy[d].env # e
      BY <1>1, <1>3, <2>3 DEF ClaimedOnce, SealTypeOK
    <2>5. replay'[e] = wall /\ \A f \in Envelopes : f # e => replay'[f] = replay[f]
      BY <1>1, <2>1 DEF SealTypeOK
    <2>6. CopiesTimely'
      <3> SUFFICES ASSUME NEW d \in Copies, copy'[d] # NoCopy
                   PROVE  /\ stamp[copy'[d].env] # Never
                          /\ stamp[copy'[d].env] - Skew <= copy'[d].at
                          /\ copy'[d].at <= stamp[copy'[d].env] + Skew
                          /\ copy'[d].at <= wall
                          /\ copy'[d].pc = "checked" => wall <= copy'[d].at + ClaimDelay
        BY DEF ClaimReplaySlot, CopiesTimely
      <3>1. CASE d = c
        BY <1>2, <2>2, <3>1
      <3>2. CASE d # c
        BY <2>1, <3>2 DEF CopiesTimely
      <3> QED
        BY <3>1, <3>2
    <2>7. ClaimsTimely'
      <3> SUFFICES ASSUME NEW f \in Envelopes, replay'[f] # Never
                   PROVE  stamp[f] # Never /\ stamp[f] - Skew <= replay'[f] /\ replay'[f] <= wall
        BY DEF ClaimReplaySlot, ClaimsTimely
      <3>1. CASE f = e
        BY <1>1, <1>2, <2>5, <3>1
      <3>2. CASE f # e
        BY <2>5, <3>2 DEF ClaimsTimely
      <3> QED
        BY <3>1, <3>2
    <2>8. \A f \in Envelopes : Shut(f) => Shut(f)'
      BY <1>1, <2>5 DEF ClaimReplaySlot, Shut
    <2>9. Shut(e)'
      BY <1>1, <1>2, <2>5 DEF ClaimReplaySlot, Shut
    <2>10. ClaimedOnce'
      <3>1. \A f \in Envelopes : runs'[f] # 0 => runs'[f] = 1 /\ Shut(f)'
        BY <2>8 DEF ClaimReplaySlot, ClaimedOnce
      <3>2. \A d \in Copies : copy'[d].pc = "claimed" => (runs[copy[d].env] = 0 /\ Shut(copy[d].env))'
        <4> SUFFICES ASSUME NEW d \in Copies, copy'[d].pc = "claimed"
                     PROVE  (runs[copy[d].env] = 0 /\ Shut(copy[d].env))'
          OBVIOUS
        <4>1. runs' = runs
          BY DEF ClaimReplaySlot
        <4>2. CASE d = c
          <5>1. copy'[d].env = e
            BY <2>2, <4>2
          <5>2. Shut(copy[d].env)'
            BY <2>9, <5>1 DEF Shut
          <5> QED
            BY <2>4, <4>1, <5>1, <5>2
        <4>3. CASE d # c
          <5>1. copy'[d] = copy[d] /\ copy[d].pc = "claimed"
            BY <2>1, <4>3
          <5>2. runs[copy[d].env] = 0 /\ Shut(copy[d].env) /\ copy[d].env \in Envelopes
            BY <1>3, <5>1 DEF ClaimedOnce
          <5>3. Shut(copy[d].env)'
            BY <2>8, <5>1, <5>2 DEF Shut
          <5> QED
            BY <4>1, <5>1, <5>2, <5>3
        <4> QED
          BY <4>2, <4>3
      <3>3. \A d1, d2 \in Copies :
              copy'[d1].pc = "claimed" /\ copy'[d2].pc = "claimed" /\ copy'[d1].env = copy'[d2].env
                => d1 = d2
        <4> SUFFICES ASSUME NEW d1 \in Copies, NEW d2 \in Copies,
                            copy'[d1].pc = "claimed", copy'[d2].pc = "claimed",
                            copy'[d1].env = copy'[d2].env
                     PROVE  d1 = d2
          OBVIOUS
        <4>1. \A d \in Copies : d # c /\ copy'[d].pc = "claimed" => copy'[d].env # e
          BY <2>1, <2>4
        <4>2. CASE d1 # c /\ d2 # c
          <5>1. copy'[d1] = copy[d1] /\ copy'[d2] = copy[d2]
            BY <2>1, <4>2
          <5> QED
            BY <5>1 DEF ClaimedOnce
        <4> QED
          BY <2>2, <4>1, <4>2
      <3> QED
        BY <3>1, <3>2, <3>3 DEF ClaimedOnce
    <2> QED
      BY <2>6, <2>7, <2>10
  <1>5. CASE replay[e] # Never
    <2>1. /\ copy'[c] = NoCopy /\ UNCHANGED <<replay, wall, stamp, runs>>
          /\ \A d \in Copies : d # c => copy'[d] = copy[d]
      BY <1>5 DEF ClaimReplaySlot, SealTypeOK
    <2>2. CopiesTimely'
      BY <2>1 DEF CopiesTimely
    <2>3. ClaimsTimely'
      BY <2>1 DEF ClaimsTimely
    <2>4. \A f \in Envelopes : Shut(f)' <=> Shut(f)
      BY <2>1 DEF Shut
    <2>5. \A d \in Copies : copy'[d].pc = "claimed" => d # c /\ copy'[d] = copy[d]
      BY <2>1 DEF NoCopy
    <2>6. ClaimedOnce'
      BY <1>3, <2>1, <2>4, <2>5 DEF ClaimedOnce
    <2> QED
      BY <2>2, <2>3, <2>6
  <1> QED
    BY <1>4, <1>5

\* The claim becomes the one run of the call.
LEMMA RunStep ==
  ASSUME SealInv, NEW c \in Copies, RunInner(c)
  PROVE  CopiesTimely' /\ ClaimsTimely' /\ ClaimedOnce'
  <1> USE WindowAssumption DEF WindowAssumption, SealInv
  <1>0. copy[c].env \in Envelopes
    BY BusyCopy DEF RunInner, NoCopy
  <1> PICK e \in Envelopes : copy[c].env = e
    BY <1>0
  <1>1. runs[e] = 0 /\ Shut(e)
    BY DEF RunInner, ClaimedOnce
  <1>2. /\ copy'[c] = NoCopy /\ UNCHANGED <<replay, wall, stamp>>
        /\ \A d \in Copies : d # c => copy'[d] = copy[d]
    BY DEF RunInner, SealTypeOK
  <1>3. runs'[e] = 1 /\ \A f \in Envelopes : f # e => runs'[f] = runs[f]
    BY <1>1 DEF RunInner, SealTypeOK
  <1>4. CopiesTimely' /\ ClaimsTimely'
    BY <1>2 DEF CopiesTimely, ClaimsTimely
  <1>5. \A f \in Envelopes : Shut(f)' <=> Shut(f)
    BY <1>2 DEF Shut
  <1>6. \A d \in Copies : copy'[d].pc = "claimed" =>
          d # c /\ copy'[d] = copy[d] /\ copy[d].env \in Envelopes /\ copy[d].env # e
    BY <1>2, BusyCopy DEF NoCopy, RunInner, ClaimedOnce
  <1>7. ClaimedOnce'
    BY <1>1, <1>3, <1>5, <1>6 DEF ClaimedOnce
  <1> QED
    BY <1>4, <1>7

\* A delivery that ends leaves everything else alone.
LEMMA SealEndStep ==
  ASSUME SealInv, NEW c \in Copies, EndCopy(c)
  PROVE  CopiesTimely' /\ ClaimsTimely' /\ ClaimedOnce'
  <1> USE DEF SealInv
  <1>1. /\ copy'[c] = NoCopy /\ UNCHANGED <<replay, wall, stamp, runs>>
        /\ \A d \in Copies : d # c => copy'[d] = copy[d]
    BY DEF EndCopy, SealTypeOK
  <1>2. CopiesTimely' /\ ClaimsTimely'
    BY <1>1 DEF CopiesTimely, ClaimsTimely
  <1>3. \A f \in Envelopes : Shut(f)' <=> Shut(f)
    BY <1>1 DEF Shut
  <1>4. \A d \in Copies : copy'[d].pc = "claimed" =>
          d # c /\ copy'[d] = copy[d] /\ copy[d].env \in Envelopes
    BY <1>1, BusyCopy DEF NoCopy
  <1>5. ClaimedOnce'
    BY <1>1, <1>3, <1>4 DEF ClaimedOnce
  <1> QED
    BY <1>2, <1>5

\* An entry that is purged was claimed more than Retention ago, hence at a time
\* at which its envelope is shut without it.
LEMMA PurgeStep ==
  ASSUME SealInv, Purge
  PROVE  CopiesTimely' /\ ClaimsTimely' /\ ClaimedOnce'
  <1> USE WindowAssumption DEF WindowAssumption, SealInv
  <1>1. /\ UNCHANGED <<wall, stamp, copy, runs>>
        /\ \A f \in Envelopes : replay'[f] # Never => replay'[f] = replay[f]
    BY DEF Purge, SealTypeOK
  <1>2. CopiesTimely' /\ ClaimsTimely'
    BY <1>1 DEF CopiesTimely, ClaimsTimely
  <1>3. ASSUME NEW f \in Envelopes, Shut(f) PROVE Shut(f)'
    <2>1. CASE replay'[f] # Never
      BY <1>1, <1>3, <2>1 DEF Shut
    <2>2. CASE replay[f] = Never
      BY <1>1, <1>3, <2>2 DEF Shut
    <2>3. CASE replay'[f] = Never /\ replay[f] # Never
      <3>1. replay[f] < wall - Retention
        BY <2>3 DEF Purge
      <3>2. stamp[f] \in Int /\ replay[f] \in Int /\ wall \in Int /\ stamp[f] - Skew <= replay[f]
        BY <2>3, Times DEF ClaimsTimely
      <3>3. wall > stamp[f] + Skew + ClaimDelay
        BY <3>1, <3>2
      <3> QED
        BY <1>1, <1>3, <3>3 DEF Shut
    <2> QED
      BY <2>1, <2>2, <2>3
  <1>4. \A d \in Copies : copy[d].pc = "claimed" => copy[d].env \in Envelopes
    BY BusyCopy DEF NoCopy
  <1>5. ClaimedOnce'
    BY <1>1, <1>3, <1>4 DEF ClaimedOnce
  <1> QED
    BY <1>2, <1>5

\* Time does not overtake a copy that is still to be claimed.
LEMMA TickStep ==
  ASSUME SealInv, SealTick
  PROVE  CopiesTimely' /\ ClaimsTimely' /\ ClaimedOnce'
  <1> USE WindowAssumption DEF WindowAssumption, SealInv
  <1>1. wall \in Int /\ wall' = wall + 1 /\ UNCHANGED <<stamp, copy, replay, runs>>
    BY DEF SealTick, SealTypeOK
  <1>2. \A f \in Envelopes : /\ stamp[f] # Never => stamp[f] \in Int
                             /\ replay[f] # Never => replay[f] \in Int
    BY Times
  <1>3. CopiesTimely'
    <2> SUFFICES ASSUME NEW d \in Copies, copy[d] # NoCopy
                 PROVE  /\ stamp[copy[d].env] # Never
                        /\ stamp[copy[d].env] - Skew <= copy[d].at
                        /\ copy[d].at <= stamp[copy[d].env] + Skew
                        /\ copy[d].at <= wall'
                        /\ copy[d].pc = "checked" => wall' <= copy[d].at + ClaimDelay
      BY <1>1 DEF CopiesTimely
    <2>1. copy[d].at \in Int
      BY BusyCopy
    <2>2. copy[d].pc = "checked" => wall < copy[d].at + ClaimDelay
      BY DEF SealTick
    <2> QED
      BY <1>1, <2>1, <2>2 DEF CopiesTimely
  <1>4. ClaimsTimely'
    BY <1>1, <1>2 DEF ClaimsTimely
  <1>5. \A f \in Envelopes : Shut(f) => Shut(f)'
    BY <1>1, <1>2 DEF Shut
  <1>6. \A d \in Copies : copy[d].pc = "claimed" => copy[d].env \in Envelopes
    BY BusyCopy DEF NoCopy
  <1>7. ClaimedOnce'
    BY <1>1, <1>5, <1>6 DEF ClaimedOnce
  <1> QED
    BY <1>3, <1>4, <1>7

\* Every step keeps the argument.
LEMMA SealInductive == SealInv /\ [SealNext]_sealVars => SealInv'
  <1> SUFFICES ASSUME SealInv, [SealNext]_sealVars PROVE SealInv'
    OBVIOUS
  <1>1. SealTypeOK'
    BY SealTypes DEF SealInv
  <1>2. CASE UNCHANGED sealVars
    BY <1>2 DEF SealInv, sealVars, SealTypeOK, CopiesTimely, ClaimsTimely, ClaimedOnce, Shut
  <1>3. CASE SealNext
    <2>1. CopiesTimely' /\ ClaimsTimely' /\ ClaimedOnce'
      BY <1>3, SealStep, OpenStep, ClaimStep, RunStep, SealEndStep, PurgeStep, TickStep DEF SealNext
    <2> QED
      BY <1>1, <2>1 DEF SealInv
  <1> QED
    BY <1>2, <1>3

-----------------------------------------------------------------------------
\* sealed_call, its replay table and the purge keep their data well formed.
THEOREM SealedTypesCorrect == SealSpec => []SealTypeOK
  <1>1. SealInit => SealTypeOK
    BY SealInitial DEF SealInv
  <1> QED
    BY <1>1, SealTypes, PTL DEF SealSpec

\* However often, early or late the copies of an envelope are delivered, and
\* whatever the client's clock says, the sealed call runs at most once.
THEOREM NoReplayedCall == SealSpec => []AtMostOnce
  <1>1. SealInv => AtMostOnce
    <2> SUFFICES ASSUME SealInv, NEW e \in Envelopes PROVE runs[e] <= 1
      BY DEF AtMostOnce
    <2>1. runs[e] = 0 \/ runs[e] = 1
      BY DEF SealInv, ClaimedOnce
    <2> QED
      BY <2>1
  <1> QED
    BY <1>1, SealInitial, SealInductive, PTL DEF SealSpec

-----------------------------------------------------------------------------
(* Inspected networks                                                        *)

\* The network of an observation exists.
RowsOfObserved == \A pair \in observed : NetExists(pair[1])

\* A network that the Owner decided about is not pending.
OwnerDecides == \A n \in Nets : net[n].by = "owner" => net[n].st \in {"approved", "denied"}

\* A call that waits for the gate's decision claims interception, comes from an
\* address, and has a device or is one that needs none.
GatedClaims ==
  \A g \in Gates : gate[g].pc = "found" =>
    gate[g].claims /\ gate[g].from \in Addresses /\ (gate[g].who # Nobody \/ gate[g].bootstrap)

NetInv == NetTypeOK /\ RowsOfObserved /\ NewcomersAlerted /\ OwnerDecides /\ GatedClaims

-----------------------------------------------------------------------------
(* The lookup, answers and decisions                                         *)

\* Among the rows that contain an address there is a most specific one.
LEMMA SomeMostSpecific ==
  ASSUME NetTypeOK, NEW a \in Addresses, Covering(a) # {}
  PROVE  MostSpecific(a) \in Covering(a)
<1> DEFINE size(n) == Cardinality(net[n].cidr)
           T == {size(n) : n \in Covering(a)}
<1>1. ASSUME NEW n \in Covering(a) PROVE size(n) \in Nat
  <2>1. net[n].cidr \in SUBSET Addresses /\ IsFiniteSet(Addresses)
    BY NetAssumption DEF NetAssumption, NetTypeOK, NetRow, Covering
  <2> QED BY <2>1, FS_Subset, FS_CardinalityType
<1> HIDE DEF size
<1>2. T \subseteq Nat /\ T # {}
  BY <1>1
<1>3. PICK x \in T : \A y \in T : ~(y < x)
  <2> DEFINE R == {ss \in Nat \X Nat : ss[1] < ss[2]}
  <2>1. IsWellFoundedOn(R, Nat)
    BY NatLessThanWellFounded DEF OpToRel
  <2>2. \A x, y \in Nat : y < x => <<y, x>> \in R
    OBVIOUS
  <2> HIDE DEF R, T
  <2>3. \E x \in T : \A y \in T : ~(<<y, x>> \in R)
    BY <1>2, <2>1, WFMin
  <2> QED BY <1>2, <2>2, <2>3
<1>4. \A y \in T : x <= y
  <2> HIDE DEF T
  <2> QED BY <1>2, <1>3
<1>5. \E n \in Covering(a) : \A k \in Covering(a) : size(n) <= size(k)
  BY <1>3, <1>4
<1> QED BY <1>5 DEF MostSpecific, size

\* What the gate answers is the end of the call.
LEMMA GateAnswered ==
  ASSUME NetTypeOK, NEW g \in Gates, NEW ok \in BOOLEAN, Answer(g, ok)
  PROVE  /\ gate' \in [Gates -> CallRows \cup {NoCall}]
         /\ gate'[g].pc = IF ok THEN "allowed" ELSE "refused"
         /\ \A h \in Gates : h # g => gate'[h] = gate[h]
<1> DEFINE r == [NoCall EXCEPT !.pc = IF ok THEN "allowed" ELSE "refused"]
<1>1. r \in CallRows /\ r.pc = IF ok THEN "allowed" ELSE "refused"
  BY DEF CallRows, NoCall
<1>2. gate' = [gate EXCEPT ![g] = r]
  BY DEF Answer
<1> HIDE DEF r
<1> QED BY <1>1, <1>2 DEF NetTypeOK

\* A call in progress is a well-formed one.
LEMMA InProgress ==
  ASSUME NetTypeOK, NEW g \in Gates, gate[g].pc \in {"arrived", "found"}
  PROVE  /\ gate[g].who \in Phones \cup {Nobody} /\ gate[g].seen \in Nets \cup {NoNet}
         /\ gate[g].status \in {"unused", "pending", "approved", "denied"}
         /\ gate[g].needs \in BOOLEAN /\ gate[g].bootstrap \in BOOLEAN /\ gate[g].claims \in BOOLEAN
BY DEF NetTypeOK, CallRows, NoCall

\* Deciding about a device of a network that exists: the device is observed, and
\* if it was not before it is on its way to be reported.
LEMMA Decision ==
  ASSUME NetTypeOK, NewcomersAlerted, GatedClaims, NEW g \in Gates, gate[g].pc = "found",
         NEW n \in Nets, NEW new \in BOOLEAN, NEW status, Decide(g, n, new, status)
  PROVE  /\ gate' \in [Gates -> CallRows \cup {NoCall}]
         /\ gate'[g].pc \in {"allowed", "refused"}
         /\ \A h \in Gates : h # g => gate'[h] = gate[h]
         /\ gate'[g].pc = "allowed" /\ gate[g].needs /\ ~gate[g].bootstrap => gate[g].who \in certified
         /\ work \subseteq work' /\ work' \subseteq WorkRows
         /\ quiet' \subseteq observed' /\ observed' \subseteq Nets \X Phones
         /\ observed \subseteq observed'
         /\ \A pair \in observed' : pair \notin observed => gate[g].who # Nobody /\ pair = <<n, gate[g].who>>
         /\ \A pair \in observed' \ observed : \E w \in work' : <<w.net, w.who>> = pair
<1> DEFINE call == gate[g]
           pair == <<n, call.who>>
           allowed == Allowed(call, status)
           tell == new \/ ((~allowed \/ pair \notin observed) /\ pair \notin quiet)
<1>1. /\ call.who \in Phones \cup {Nobody} /\ call.claims /\ (call.who # Nobody \/ call.bootstrap)
      /\ call.needs \in BOOLEAN /\ call.bootstrap \in BOOLEAN
  BY InProgress DEF GatedClaims
<1>2. CASE call.who = Nobody
  <2>1. /\ Answer(g, TRUE) /\ UNCHANGED <<observed, quiet>>
        /\ work' = IF new THEN work \cup {[kind |-> "classify", net |-> n, who |-> Nobody]} ELSE work
    BY <1>2 DEF Decide
  <2>2. [kind |-> "classify", net |-> n, who |-> Nobody] \in WorkRows
    BY DEF WorkRows
  <2>3. work \subseteq work' /\ work' \subseteq WorkRows
    BY <2>1, <2>2 DEF NetTypeOK
  <2> QED BY <1>1, <1>2, <2>1, <2>3, GateAnswered DEF NetTypeOK
<1>3. CASE call.who # Nobody
  <2> DEFINE job == [kind |-> IF new THEN "classify" ELSE "alert", net |-> n, who |-> call.who]
  <2>1. /\ Answer(g, allowed)
        /\ observed' = observed \cup {pair}
        /\ quiet' = IF tell THEN quiet \cup {pair} ELSE quiet
        /\ work' = IF tell THEN work \cup {job} ELSE work
    BY <1>3 DEF Decide
  <2>2. job \in WorkRows /\ job.net = n /\ job.who = call.who
    BY <1>1 DEF WorkRows
  <2>3. allowed \in BOOLEAN /\ (allowed /\ call.needs /\ ~call.bootstrap => call.who \in certified)
    BY DEF Allowed
  <2>4. pair \notin observed => tell
    BY DEF NetTypeOK
  <2>5. pair \in Nets \X Phones
    BY <1>1, <1>3
  <2> HIDE DEF job, tell, allowed, pair
  <2>6. /\ gate' \in [Gates -> CallRows \cup {NoCall}]
        /\ gate'[g].pc = IF allowed THEN "allowed" ELSE "refused"
        /\ \A h \in Gates : h # g => gate'[h] = gate[h]
    BY <2>1, <2>3, GateAnswered
  <2>7. work \subseteq work' /\ work' \subseteq WorkRows
    BY <2>1, <2>2 DEF NetTypeOK
  <2>8. quiet' \subseteq observed' /\ observed' \subseteq Nets \X Phones /\ observed \subseteq observed'
    BY <2>1, <2>5 DEF NetTypeOK
  <2>9. \A q \in observed' : q \notin observed => gate[g].who # Nobody /\ q = <<n, gate[g].who>>
    BY <1>3, <2>1 DEF pair
  <2>10. \A q \in observed' \ observed : \E w \in work' : <<w.net, w.who>> = q
    BY <2>1, <2>2, <2>4 DEF pair
  <2> QED BY <2>3, <2>6, <2>7, <2>8, <2>9, <2>10
<1> QED BY <1>2, <1>3

-----------------------------------------------------------------------------
(* What a step may do                                                        *)

\* The two action properties, for one step.
DecisionKept ==
  \A n \in Nets : net[n].by = "owner" /\ NetExists(n) => net'[n].st = net[n].st /\ net'[n].by = "owner"
HeldToCert ==
  \A g \in Gates :
    (/\ gate[g].pc \in {"arrived", "found"} /\ gate'[g].pc = "allowed"
     /\ gate[g].needs /\ ~gate[g].bootstrap)
    => gate[g].claims /\ gate[g].who \in certified

\* A call comes in or ends, without a decision of the gate.
LEMMA CallStep ==
  ASSUME NetInv, NEW g \in Gates,
         \/ \E call \in UngatedCalls : CallArrives(g, call)
         \/ \E call \in GatedCalls : GateLookup(g, call)
         \/ PassWithoutGate(g) \/ CallEnds(g)
  PROVE  NetInv' /\ DecisionKept /\ HeldToCert
<1>1. UNCHANGED <<net, observed, quiet, strict, certified, work, alerted, lost, netFaults>>
  BY DEF CallArrives, GateLookup, PassWithoutGate, CallEnds
<1>2. /\ gate' \in [Gates -> CallRows \cup {NoCall}]
      /\ \A h \in Gates : h # g => gate'[h] = gate[h]
      /\ gate'[g].pc = "found" => /\ gate'[g].claims /\ gate'[g].from \in Addresses
                                  /\ gate'[g].who # Nobody \/ gate'[g].bootstrap
      /\ gate[g].pc \in {"arrived", "found"} /\ gate'[g].pc = "allowed" => (gate[g].needs => gate[g].bootstrap)
  <2>1. ASSUME NEW call \in UngatedCalls, CallArrives(g, call)
        PROVE  <1>2!:
    <3>1. call \in CallRows /\ call.pc = "arrived"
      BY <2>1 DEF UngatedCalls, CallRows
    <3>2. gate' = [gate EXCEPT ![g] = call]
      BY <2>1 DEF CallArrives
    <3> QED BY <3>1, <3>2 DEF NetInv, NetTypeOK
  <2>2. ASSUME NEW call \in GatedCalls, GateLookup(g, call)
        PROVE  <1>2!:
    <3> DEFINE n == MostSpecific(call.from)
               r == IF Covering(call.from) = {} THEN call ELSE [call EXCEPT !.seen = n, !.status = net[n].st]
    <3>1. /\ call \in [pc : {"found"}, who : Phones \cup {Nobody}, from : Addresses, claims : {TRUE},
                       needs : BOOLEAN, bootstrap : BOOLEAN, seen : {NoNet}, status : {"unused"}]
          /\ call.who # Nobody \/ call.bootstrap
      BY <2>2 DEF GatedCalls
    <3>2. Covering(call.from) # {} => n \in Nets /\ net[n].st \in {"pending", "approved", "denied"}
      BY <3>1, SomeMostSpecific DEF NetInv, Covering, NetExists
    <3> HIDE DEF n
    <3>3. r \in CallRows /\ r.pc = "found" /\ r.claims /\ r.from \in Addresses /\ (r.who # Nobody \/ r.bootstrap)
      BY <3>1, <3>2 DEF CallRows
    <3>4. gate' = [gate EXCEPT ![g] = r]
      BY <2>2 DEF GateLookup, n
    <3> HIDE DEF r
    <3> QED BY <3>3, <3>4 DEF NetInv, NetTypeOK
  <2>3. ASSUME PassWithoutGate(g) PROVE <1>2!:
    <3> DEFINE ok == gate[g].needs => gate[g].bootstrap
    <3>1. ok \in BOOLEAN /\ Answer(g, ok)
      BY <2>3 DEF PassWithoutGate
    <3>2. /\ gate' \in [Gates -> CallRows \cup {NoCall}]
          /\ gate'[g].pc = IF ok THEN "allowed" ELSE "refused"
          /\ \A h \in Gates : h # g => gate'[h] = gate[h]
      BY <3>1, GateAnswered DEF NetInv
    <3> QED BY <3>2
  <2>4. ASSUME CallEnds(g) PROVE <1>2!:
    BY <2>4 DEF CallEnds, NetInv, NetTypeOK, NoCall
  <2> QED BY <2>1, <2>2, <2>3, <2>4
<1>3. NetTypeOK'
  BY <1>1, <1>2 DEF NetInv, NetTypeOK
<1>4. RowsOfObserved' /\ NewcomersAlerted' /\ OwnerDecides'
  BY <1>1 DEF NetInv, RowsOfObserved, NetExists, NewcomersAlerted, OwnerDecides
<1>5. GatedClaims'
  BY <1>2 DEF NetInv, GatedClaims
<1>6. DecisionKept
  BY <1>1 DEF DecisionKept
<1>7. HeldToCert
  BY <1>2 DEF HeldToCert
<1> QED BY <1>3, <1>4, <1>5, <1>6, <1>7 DEF NetInv

\* After a decision of the gate about a network that exists.
LEMMA DecisionStep ==
  ASSUME NetInv, NEW g \in Gates, gate[g].pc = "found",
         NEW n \in Nets, NEW new \in BOOLEAN, NEW status, Decide(g, n, new, status),
         UNCHANGED <<strict, certified, alerted, lost, netFaults>>,
         net' \in [Nets -> NetRow],
         \A k \in Nets : NetExists(k) => net'[k] = net[k],
         OwnerDecides', gate[g].who # Nobody => NetExists(n)'
  PROVE  NetInv' /\ DecisionKept /\ HeldToCert
<1>1. /\ gate' \in [Gates -> CallRows \cup {NoCall}]
      /\ gate'[g].pc \in {"allowed", "refused"}
      /\ \A h \in Gates : h # g => gate'[h] = gate[h]
      /\ gate'[g].pc = "allowed" /\ gate[g].needs /\ ~gate[g].bootstrap => gate[g].who \in certified
      /\ work \subseteq work' /\ work' \subseteq WorkRows
      /\ quiet' \subseteq observed' /\ observed' \subseteq Nets \X Phones
      /\ observed \subseteq observed'
      /\ \A pair \in observed' : pair \notin observed => gate[g].who # Nobody /\ pair = <<n, gate[g].who>>
      /\ \A pair \in observed' \ observed : \E w \in work' : <<w.net, w.who>> = pair
  BY Decision DEF NetInv
<1>2. NetTypeOK'
  BY <1>1 DEF NetInv, NetTypeOK
<1>3. RowsOfObserved'
  <2> SUFFICES ASSUME NEW pair \in observed' PROVE net'[pair[1]].st \in {"pending", "approved", "denied"}
    BY DEF RowsOfObserved, NetExists
  <2>1. CASE pair \in observed
    BY <2>1 DEF NetInv, NetTypeOK, RowsOfObserved, NetExists
  <2>2. CASE pair \notin observed
    BY <1>1, <2>2 DEF NetExists
  <2> QED BY <2>1, <2>2
<1>4. NewcomersAlerted'
  BY <1>1 DEF NetInv, NewcomersAlerted
<1>5. GatedClaims'
  BY <1>1 DEF NetInv, GatedClaims
<1>6. DecisionKept
  BY DEF DecisionKept
<1>7. HeldToCert
  BY <1>1 DEF HeldToCert, NetInv, GatedClaims
<1> QED BY <1>2, <1>3, <1>4, <1>5, <1>6, <1>7 DEF NetInv

LEMMA KnownStep ==
  ASSUME NetInv, NEW g \in Gates, GateKnown(g)
  PROVE  NetInv' /\ DecisionKept /\ HeldToCert
<1>1. /\ gate[g].pc = "found" /\ gate[g].seen # NoNet /\ gate[g].seen \in Nets
      /\ UNCHANGED <<net, strict, certified, alerted, lost, netFaults>>
  BY InProgress DEF NetInv, GateKnown
<1> PICK n \in Nets : gate[g].seen = n
  BY <1>1
<1>2. CASE NetExists(n) \/ gate[g].who = Nobody
  <2>1. Decide(g, n, FALSE, gate[g].status)
    BY <1>2 DEF GateKnown
  <2>2. net' \in [Nets -> NetRow] /\ OwnerDecides' /\ (gate[g].who # Nobody => NetExists(n)')
    BY <1>1, <1>2 DEF NetInv, NetTypeOK, OwnerDecides, NetExists
  <2> QED BY <1>1, <2>1, <2>2, DecisionStep
<1>3. CASE ~(NetExists(n) \/ gate[g].who = Nobody)
  <2>1. Answer(g, FALSE) /\ UNCHANGED <<observed, quiet, work>>
    BY <1>3 DEF GateKnown
  <2>2. /\ gate' \in [Gates -> CallRows \cup {NoCall}] /\ gate'[g].pc = "refused"
        /\ \A h \in Gates : h # g => gate'[h] = gate[h]
    BY <2>1, GateAnswered DEF NetInv
  <2>3. NetTypeOK'
    BY <1>1, <2>1, <2>2 DEF NetInv, NetTypeOK
  <2>4. RowsOfObserved' /\ NewcomersAlerted' /\ OwnerDecides'
    BY <1>1, <2>1 DEF NetInv, RowsOfObserved, NetExists, NewcomersAlerted, OwnerDecides
  <2>5. GatedClaims'
    BY <2>2 DEF NetInv, GatedClaims
  <2>6. DecisionKept /\ HeldToCert
    BY <1>1, <2>2 DEF DecisionKept, HeldToCert
  <2> QED BY <2>3, <2>4, <2>5, <2>6 DEF NetInv
<1> QED BY <1>2, <1>3

LEMMA NewStep ==
  ASSUME NetInv, NEW g \in Gates, NEW n \in Nets, GateNew(g, n)
  PROVE  NetInv' /\ DecisionKept /\ HeldToCert
<1> DEFINE same == {k \in Nets : NetExists(k) /\ net[k].cidr = {gate[g].from}}
           r == [st |-> "pending", cidr |-> {gate[g].from}, by |-> "nobody", block |-> FALSE]
<1>1. gate[g].pc = "found" /\ gate[g].seen = NoNet /\ UNCHANGED <<strict, certified, alerted, lost, netFaults>>
  BY DEF GateNew
<1>2. CASE same = {}
  <2>1. net[n].st = "unused" /\ net' = [net EXCEPT ![n] = r] /\ Decide(g, n, TRUE, "pending")
    BY <1>2 DEF GateNew
  <2>2. r \in NetRow /\ r.st = "pending" /\ r.by = "nobody"
    BY <1>1 DEF NetInv, NetRow, GatedClaims
  <2> HIDE DEF r
  <2>3. /\ net' \in [Nets -> NetRow] /\ net'[n] = r
        /\ \A k \in Nets : k # n => net'[k] = net[k]
    BY <2>1, <2>2 DEF NetInv, NetTypeOK
  <2>4. OwnerDecides' /\ NetExists(n)' /\ \A k \in Nets : NetExists(k) => net'[k] = net[k]
    BY <2>1, <2>2, <2>3 DEF NetInv, OwnerDecides, NetExists
  <2> QED BY <1>1, <2>1, <2>3, <2>4, DecisionStep
<1>3. CASE same # {}
  <2>1. n \in same /\ Decide(g, n, TRUE, net[n].st) /\ UNCHANGED net
    BY <1>3 DEF GateNew
  <2>2. net' \in [Nets -> NetRow] /\ OwnerDecides' /\ NetExists(n)'
    BY <2>1 DEF NetInv, NetTypeOK, OwnerDecides, NetExists
  <2> QED BY <1>1, <2>1, <2>2, DecisionStep
<1> QED BY <1>2, <1>3

-----------------------------------------------------------------------------
(* Background work                                                           *)

\* Work that ends has told the Owner of its device, unless the network is gone.
LEMMA WorkDone ==
  ASSUME NetInv, NEW w \in work, work' = work \ {w}, alerted' = alerted \cup TellOwner(w),
         UNCHANGED <<observed, lost>>
  PROVE  NewcomersAlerted' /\ alerted' \subseteq Nets \X Phones /\ work' \subseteq WorkRows
<1>1. w.net \in Nets /\ w.who \in Phones \cup {Nobody} /\ work' \subseteq WorkRows
  BY DEF NetInv, NetTypeOK, WorkRows
<1>2. alerted' \subseteq Nets \X Phones
  BY <1>1 DEF NetInv, NetTypeOK, TellOwner
<1>3. ASSUME <<w.net, w.who>> \in observed PROVE <<w.net, w.who>> \in alerted'
  <2>1. w.who # Nobody
    BY <1>3, NetAssumption DEF NetAssumption, NetInv, NetTypeOK
  <2>2. NetExists(w.net)
    BY <1>3 DEF NetInv, RowsOfObserved
  <2> QED BY <2>1, <2>2 DEF TellOwner
<1>4. NewcomersAlerted'
  <2> SUFFICES ASSUME NEW pair \in observed, pair \notin alerted', pair \notin lost
               PROVE  \E v \in work' : <<v.net, v.who>> = pair
    BY DEF NewcomersAlerted
  <2>1. PICK v \in work : <<v.net, v.who>> = pair
    BY DEF NetInv, NewcomersAlerted
  <2>2. v # w
    BY <1>3, <2>1
  <2> QED BY <2>1, <2>2
<1> QED BY <1>1, <1>2, <1>4

LEMMA ClassifyStartStep ==
  ASSUME NetInv, NEW w \in WorkRows, ClassifyStart(w)
  PROVE  NetInv' /\ DecisionKept /\ HeldToCert
<1> DEFINE v == [w EXCEPT !.kind = "store"]
<1>1. /\ w \in work /\ UNCHANGED <<net, observed, quiet, strict, certified, gate, alerted, lost, netFaults>>
      /\ work' = (work \ {w}) \cup (IF NetExists(w.net) THEN {v} ELSE {})
  BY DEF ClassifyStart
<1>2. v \in WorkRows /\ v.net = w.net /\ v.who = w.who
  BY DEF WorkRows
<1> HIDE DEF v
<1>3. NetTypeOK'
  BY <1>1, <1>2 DEF NetInv, NetTypeOK
<1>4. NewcomersAlerted'
  <2> SUFFICES ASSUME NEW pair \in observed, pair \notin alerted, pair \notin lost
               PROVE  \E u \in work' : <<u.net, u.who>> = pair
    BY <1>1 DEF NewcomersAlerted
  <2>1. PICK u \in work : <<u.net, u.who>> = pair
    BY DEF NetInv, NewcomersAlerted
  <2>2. CASE u # w
    BY <1>1, <2>1, <2>2
  <2>3. CASE u = w
    <3>1. NetExists(w.net)
      BY <2>1, <2>3 DEF NetInv, RowsOfObserved
    <3> QED BY <1>1, <1>2, <2>1, <2>3, <3>1
  <2> QED BY <2>2, <2>3
<1>5. RowsOfObserved' /\ OwnerDecides' /\ GatedClaims'
  BY <1>1 DEF NetInv, RowsOfObserved, NetExists, OwnerDecides, GatedClaims
<1>6. DecisionKept /\ HeldToCert
  BY <1>1 DEF DecisionKept, HeldToCert
<1> QED BY <1>3, <1>4, <1>5, <1>6 DEF NetInv

\* The classification approves a pending row only.
LEMMA Classification ==
  ASSUME NetInv, NEW w \in WorkRows, \E auto, block \in BOOLEAN : net' = ClassifiedNets(w, auto, block)
  PROVE  /\ net' \in [Nets -> NetRow]
         /\ \A k \in Nets : k # w.net => net'[k] = net[k]
         /\ net[w.net].st = "pending" => net'[w.net].st \in {"pending", "approved"}
         /\ net[w.net].st # "pending" => net'[w.net].st = net[w.net].st /\ net'[w.net].by = net[w.net].by
         /\ net'[w.net].by = "owner" => net[w.net].by = "owner"
<1> DEFINE n == w.net
<1>2. PICK auto \in BOOLEAN, block \in BOOLEAN :
        net' = IF NetExists(n)
               THEN LET approves == auto /\ net[n].st = "pending"
                    IN  [net EXCEPT ![n].block = block,
                                    ![n].st = IF approves THEN "approved" ELSE @,
                                    ![n].by = IF approves THEN "auto" ELSE @]
               ELSE net
  BY DEF ClassifiedNets
<1>3. n \in Nets
  BY DEF WorkRows
<1> HIDE DEF n
<1>4. /\ net' \in [Nets -> NetRow]
      /\ \A k \in Nets : k # n => net'[k] = net[k]
      /\ net[n].st = "pending" => net'[n].st \in {"pending", "approved"}
      /\ net[n].st # "pending" => net'[n].st = net[n].st /\ net'[n].by = net[n].by
      /\ net'[n].by = "owner" => net[n].by = "owner"
  <2>1. net \in [Nets -> NetRow] /\ net[n] \in NetRow
    BY <1>3 DEF NetInv, NetTypeOK
  <2>2. CASE ~NetExists(n)
    BY <1>2, <2>1, <2>2
  <2>3. CASE NetExists(n) /\ auto /\ net[n].st = "pending"
    <3>1. net' = [net EXCEPT ![n].block = block, ![n].st = "approved", ![n].by = "auto"]
      BY <1>2, <2>3
    <3>2. net'[n] \in NetRow /\ net'[n].st = "approved" /\ net'[n].by = "auto"
      BY <1>3, <2>1, <3>1 DEF NetRow
    <3> QED BY <1>3, <2>1, <2>3, <3>1, <3>2
  <2>4. CASE NetExists(n) /\ ~(auto /\ net[n].st = "pending")
    <3>1. net' = [net EXCEPT ![n].block = block, ![n].st = @, ![n].by = @]
      BY <1>2, <2>4
    <3>2. net'[n] \in NetRow /\ net'[n].st = net[n].st /\ net'[n].by = net[n].by
      BY <1>3, <2>1, <3>1 DEF NetRow
    <3> QED BY <1>3, <2>1, <3>1, <3>2
  <2> QED BY <2>2, <2>3, <2>4
<1> QED BY <1>4 DEF n

\* The classification approves a pending row only, and what the Owner decided is
\* not pending.
LEMMA ClassifyStoreStep ==
  ASSUME NetInv, NEW w \in WorkRows, ClassifyStore(w)
  PROVE  NetInv' /\ DecisionKept /\ HeldToCert
<1> DEFINE n == w.net
<1>1. /\ w \in work /\ work' = work \ {w} /\ alerted' = alerted \cup TellOwner(w)
      /\ UNCHANGED <<observed, quiet, strict, certified, gate, lost, netFaults>>
  BY DEF ClassifyStore
<1>4. /\ net' \in [Nets -> NetRow]
      /\ \A k \in Nets : k # n => net'[k] = net[k]
      /\ net[n].st = "pending" => net'[n].st \in {"pending", "approved"}
      /\ net[n].st # "pending" => net'[n].st = net[n].st /\ net'[n].by = net[n].by
      /\ net'[n].by = "owner" => net[n].by = "owner"
  BY Classification DEF ClassifyStore
<1>3. n \in Nets
  BY DEF WorkRows
<1> HIDE DEF n
<1>5. NewcomersAlerted' /\ NetTypeOK'
  <2>1. NewcomersAlerted' /\ alerted' \subseteq Nets \X Phones /\ work' \subseteq WorkRows
    BY <1>1, WorkDone
  <2> QED BY <1>1, <1>4, <2>1 DEF NetInv, NetTypeOK
<1>6. RowsOfObserved'
  <2>1. \A k \in Nets : NetExists(k) => NetExists(k)'
    BY <1>3, <1>4 DEF NetExists
  <2> QED BY <1>1, <2>1 DEF NetInv, NetTypeOK, RowsOfObserved, NetExists
<1>7. OwnerDecides' /\ DecisionKept
  BY <1>3, <1>4 DEF NetInv, OwnerDecides, DecisionKept
<1>8. GatedClaims' /\ HeldToCert
  BY <1>1 DEF NetInv, GatedClaims, HeldToCert
<1> QED BY <1>5, <1>6, <1>7, <1>8 DEF NetInv

\* Work that raises: its own device may stay unreported, no other one.
LEMMA WorkFailsStep ==
  ASSUME NetInv, NEW w \in WorkRows, WorkFails(w)
  PROVE  NetInv' /\ DecisionKept /\ HeldToCert
<1> DEFINE n == w.net
<1>1. /\ w \in work /\ work' = work \ {w} /\ lost' = lost \cup Subject(w)
      /\ netFaults' \in 0..MaxNetFaults
      /\ UNCHANGED <<observed, quiet, strict, certified, gate, alerted>>
  BY NetAssumption DEF NetAssumption, WorkFails, NetInv, NetTypeOK
<1>2. n \in Nets
  BY DEF WorkRows
<1>3. /\ net' \in [Nets -> NetRow]
      /\ \A k \in Nets : k # n => net'[k] = net[k]
      /\ net[n].st = "pending" => net'[n].st \in {"pending", "approved"}
      /\ net[n].st # "pending" => net'[n].st = net[n].st /\ net'[n].by = net[n].by
      /\ net'[n].by = "owner" => net[n].by = "owner"
  <2>1. CASE UNCHANGED net
    BY <1>2, <2>1 DEF NetInv, NetTypeOK
  <2>2. CASE \E auto, block \in BOOLEAN : net' = ClassifiedNets(w, auto, block)
    BY <2>2, Classification
  <2> QED BY <2>1, <2>2 DEF WorkFails
<1> HIDE DEF n
<1>4. NetTypeOK'
  BY <1>1, <1>3 DEF NetInv, NetTypeOK, Subject
<1>5. NewcomersAlerted'
  <2> SUFFICES ASSUME NEW pair \in observed, pair \notin alerted, pair \notin lost'
               PROVE  \E v \in work' : <<v.net, v.who>> = pair
    BY <1>1 DEF NewcomersAlerted
  <2>1. PICK v \in work : <<v.net, v.who>> = pair
    BY <1>1 DEF NetInv, NewcomersAlerted
  <2>2. pair \in Nets \X Phones
    BY DEF NetInv, NetTypeOK
  <2>3. v # w
    BY <1>1, <2>1, <2>2 DEF Subject
  <2> QED BY <1>1, <2>1, <2>3
<1>6. RowsOfObserved'
  <2>1. \A k \in Nets : NetExists(k) => NetExists(k)'
    BY <1>2, <1>3 DEF NetExists
  <2> QED BY <1>1, <2>1 DEF NetInv, NetTypeOK, RowsOfObserved, NetExists
<1>7. OwnerDecides' /\ DecisionKept
  BY <1>2, <1>3 DEF NetInv, OwnerDecides, DecisionKept
<1>8. GatedClaims' /\ HeldToCert
  BY <1>1 DEF NetInv, GatedClaims, HeldToCert
<1> QED BY <1>4, <1>5, <1>6, <1>7, <1>8 DEF NetInv

LEMMA AlertStep ==
  ASSUME NetInv,
         \/ \E w \in WorkRows : AlertExisting(w)
         \/ \E pair \in Nets \X Phones : AlertAges(pair)
  PROVE  NetInv' /\ DecisionKept /\ HeldToCert
<1>1. UNCHANGED <<net, observed, strict, certified, gate, lost, netFaults>> /\ quiet' \subseteq quiet
  BY DEF AlertExisting, AlertAges
<1>2. NewcomersAlerted' /\ alerted' \subseteq Nets \X Phones /\ work' \subseteq WorkRows
  <2>1. ASSUME NEW w \in WorkRows, AlertExisting(w) PROVE <1>2!:
    BY <1>1, <2>1, WorkDone DEF AlertExisting
  <2>2. ASSUME NEW pair \in Nets \X Phones, AlertAges(pair) PROVE <1>2!:
    BY <2>2 DEF AlertAges, NetInv, NetTypeOK, NewcomersAlerted
  <2> QED BY <2>1, <2>2
<1>3. NetTypeOK'
  BY <1>1, <1>2 DEF NetInv, NetTypeOK
<1>4. RowsOfObserved' /\ OwnerDecides' /\ GatedClaims' /\ DecisionKept /\ HeldToCert
  BY <1>1 DEF NetInv, RowsOfObserved, NetExists, OwnerDecides, GatedClaims, DecisionKept, HeldToCert
<1> QED BY <1>2, <1>3, <1>4 DEF NetInv

-----------------------------------------------------------------------------
(* The Owner, devices and the restart                                        *)

LEMMA OwnerStep ==
  ASSUME NetInv, OwnerActs
  PROVE  NetInv' /\ HeldToCert
<1>1. UNCHANGED <<strict, certified, gate, work, netFaults>>
  BY DEF OwnerActs, DecideAddress, DecideBlock, ForgetNetwork
<1>2. /\ net' \in [Nets -> NetRow] /\ OwnerDecides' /\ RowsOfObserved'
      /\ quiet' \subseteq observed' /\ observed' \subseteq observed /\ alerted' \subseteq alerted
      /\ \A pair \in observed' : pair \in alerted => pair \in alerted'
      /\ lost' \subseteq lost /\ \A pair \in observed' : pair \in lost => pair \in lost'
  <2>1. ASSUME NEW n \in Nets, NEW st \in {"approved", "denied", "pending"}, DecideAddress(n, st)
        PROVE  <1>2!:
    <3> DEFINE r == Decided(net[n], st)
    <3>1. r \in NetRow /\ r.st = st /\ (r.by = "owner" => st # "pending")
      BY DEF Decided, NetInv, NetTypeOK, NetRow
    <3>2. net' = [net EXCEPT ![n] = r] /\ UNCHANGED <<observed, quiet, alerted, lost>>
      BY <2>1 DEF DecideAddress
    <3> HIDE DEF r
    <3>3. net' \in [Nets -> NetRow] /\ net'[n] = r /\ \A k \in Nets : k # n => net'[k] = net[k]
      BY <3>1, <3>2 DEF NetInv, NetTypeOK
    <3>4. OwnerDecides'
      BY <3>1, <3>3 DEF NetInv, OwnerDecides
    <3>5. RowsOfObserved'
      BY <3>1, <3>2, <3>3 DEF NetInv, NetTypeOK, RowsOfObserved, NetExists
    <3> QED BY <3>2, <3>3, <3>4, <3>5 DEF NetInv, NetTypeOK
  <2>2. ASSUME NEW n \in Nets, NEW st \in {"approved", "denied", "pending"}, DecideBlock(n, st)
        PROVE  <1>2!:
    <3> DEFINE inside == {k \in Nets \ {n} : net[k].st = "pending"}
               r == [Decided(net[n], st) EXCEPT !.cidr = Addresses]
    <3>1. r \in NetRow /\ r.st = st /\ (r.by = "owner" => st # "pending")
      BY DEF Decided, NetInv, NetTypeOK, NetRow
    <3>2. Deleted \in NetRow /\ Deleted.by = "nobody"
      BY DEF Deleted, NoRow, NetRow
    <3>3. /\ net' = [k \in Nets |-> CASE k = n -> r [] k \in inside -> Deleted [] OTHER -> net[k]]
          /\ WithoutNets(inside)
      BY <2>2 DEF DecideBlock
    <3> HIDE DEF r
    <3>4. /\ net'[n] = r
          /\ \A k \in Nets : k # n => net'[k] = IF k \in inside THEN Deleted ELSE net[k]
      BY <3>3
    <3> HIDE DEF inside
    <3>5. net' \in [Nets -> NetRow]
      <4>1. \A k \in Nets : net'[k] \in NetRow
        BY <3>1, <3>2, <3>4 DEF NetInv, NetTypeOK
      <4> QED BY <3>3, <4>1
    <3>6. OwnerDecides'
      BY <3>1, <3>2, <3>4 DEF NetInv, OwnerDecides
    <3>7. RowsOfObserved'
      <4> SUFFICES ASSUME NEW pair \in observed' PROVE net'[pair[1]].st \in {"pending", "approved", "denied"}
        BY DEF RowsOfObserved, NetExists
      <4>1. pair \in observed /\ pair[1] \notin inside /\ pair[1] \in Nets
        BY <3>3 DEF WithoutNets, NetInv, NetTypeOK
      <4> QED BY <3>1, <3>4, <4>1 DEF NetInv, RowsOfObserved, NetExists
    <3> QED BY <3>3, <3>5, <3>6, <3>7 DEF WithoutNets, NetInv, NetTypeOK
  <2>3. ASSUME NEW n \in Nets, ForgetNetwork(n)
        PROVE  <1>2!:
    <3>1. Deleted \in NetRow /\ Deleted.by = "nobody"
      BY DEF Deleted, NoRow, NetRow
    <3>2. net' = [net EXCEPT ![n] = Deleted] /\ WithoutNets({n})
      BY <2>3 DEF ForgetNetwork
    <3>3. net' \in [Nets -> NetRow] /\ net'[n] = Deleted /\ \A k \in Nets : k # n => net'[k] = net[k]
      BY <3>1, <3>2 DEF NetInv, NetTypeOK
    <3>4. OwnerDecides'
      BY <3>1, <3>3 DEF NetInv, OwnerDecides
    <3>5. RowsOfObserved'
      <4> SUFFICES ASSUME NEW pair \in observed' PROVE net'[pair[1]].st \in {"pending", "approved", "denied"}
        BY DEF RowsOfObserved, NetExists
      <4>1. pair \in observed /\ pair[1] # n /\ pair[1] \in Nets
        BY <3>2 DEF WithoutNets, NetInv, NetTypeOK
      <4> QED BY <3>3, <4>1 DEF NetInv, RowsOfObserved, NetExists
    <3> QED BY <3>2, <3>3, <3>4, <3>5 DEF WithoutNets, NetInv, NetTypeOK
  <2> QED BY <2>1, <2>2, <2>3 DEF OwnerActs
<1>3. NetTypeOK'
  BY <1>1, <1>2 DEF NetInv, NetTypeOK
<1>4. NewcomersAlerted'
  BY <1>1, <1>2 DEF NetInv, NewcomersAlerted
<1>5. GatedClaims' /\ HeldToCert
  BY <1>1 DEF NetInv, GatedClaims, HeldToCert
<1> QED BY <1>2, <1>3, <1>4, <1>5 DEF NetInv

LEMMA OtherStep ==
  ASSUME NetInv,
         \/ \E d \in Phones : SetPolicy(d) \/ CertChanges(d)
         \/ NetRestart
         \/ UNCHANGED netVars
  PROVE  NetInv' /\ DecisionKept /\ HeldToCert
<1>1. /\ UNCHANGED <<net, observed, quiet, alerted>>
      /\ strict' \subseteq Phones /\ certified' \subseteq Phones
  BY DEF NetInv, NetTypeOK, SetPolicy, CertChanges, NetRestart, netVars
<1>2. \/ NetRestart
      \/ UNCHANGED <<gate, work, lost, netFaults>>
  BY DEF SetPolicy, CertChanges, netVars
<1>3. CASE NetRestart
  <2>1. /\ gate' = [g \in Gates |-> NoCall] /\ work' = {}
        /\ netFaults' \in 0..MaxNetFaults
        /\ lost' = lost \cup UNION {Subject(w) : w \in work}
    BY <1>3, NetAssumption DEF NetAssumption, NetRestart, NetInv, NetTypeOK
  <2>2. NetTypeOK'
    BY <1>1, <2>1 DEF NetInv, NetTypeOK, Subject
  <2>3. RowsOfObserved' /\ OwnerDecides' /\ DecisionKept
    BY <1>1, <2>1 DEF NetInv, RowsOfObserved, NetExists, OwnerDecides, DecisionKept
  <2>5. NewcomersAlerted'
    <3> SUFFICES ASSUME NEW pair \in observed, pair \notin alerted, pair \notin lost
                 PROVE  pair \in lost'
      BY <1>1, <2>1 DEF NewcomersAlerted
    <3>1. PICK w \in work : <<w.net, w.who>> = pair
      BY DEF NetInv, NewcomersAlerted
    <3>2. pair \in Subject(w)
      BY <3>1 DEF Subject, NetInv, NetTypeOK
    <3> QED BY <2>1, <3>2
  <2>4. GatedClaims' /\ HeldToCert
    BY <2>1 DEF GatedClaims, HeldToCert, NoCall
  <2> QED BY <2>2, <2>3, <2>4, <2>5 DEF NetInv
<1>4. CASE UNCHANGED <<gate, work, lost, netFaults>>
  <2>1. NetTypeOK'
    BY <1>1, <1>4 DEF NetInv, NetTypeOK
  <2>2. RowsOfObserved' /\ OwnerDecides' /\ NewcomersAlerted' /\ DecisionKept
    BY <1>1, <1>4 DEF NetInv, RowsOfObserved, NetExists, OwnerDecides, NewcomersAlerted, DecisionKept
  <2>3. GatedClaims' /\ HeldToCert
    BY <1>4 DEF NetInv, GatedClaims, HeldToCert
  <2> QED BY <2>1, <2>2, <2>3 DEF NetInv
<1> QED BY <1>2, <1>3, <1>4

-----------------------------------------------------------------------------
(* The theorems about inspected networks                                     *)

LEMMA NetStarts == NetInit => NetInv
<1> SUFFICES ASSUME NetInit PROVE NetInv
  OBVIOUS
<1>1. NoRow \in NetRow /\ NoRow.by = "nobody" /\ NoCall.pc = "free"
  BY DEF NoRow, NetRow, NoCall
<1>2. NetTypeOK
  BY <1>1, NetAssumption DEF NetAssumption, NetInit, NetTypeOK
<1>3. RowsOfObserved /\ NewcomersAlerted /\ OwnerDecides /\ GatedClaims
  BY <1>1 DEF NetInit, RowsOfObserved, NewcomersAlerted, OwnerDecides, GatedClaims
<1> QED BY <1>2, <1>3 DEF NetInv

LEMMA NetStep ==
  ASSUME NetInv, [NetNext]_netVars
  PROVE  NetInv' /\ HeldToCert /\ (DecisionKept \/ OwnerActs)
<1>1. CASE OwnerActs
  BY <1>1, OwnerStep
<1>2. CASE \/ \E d \in Phones : SetPolicy(d) \/ CertChanges(d)
           \/ NetRestart
           \/ UNCHANGED netVars
  BY <1>2, OtherStep
<1>3. CASE \E w \in WorkRows : Classify(w)
  BY <1>3, ClassifyStartStep, ClassifyStoreStep DEF Classify
<1>4. CASE \/ \E w \in WorkRows : AlertExisting(w)
           \/ \E pair \in Nets \X Phones : AlertAges(pair)
  BY <1>4, AlertStep
<1>5. CASE \E g \in Gates : \/ \E call \in UngatedCalls : CallArrives(g, call)
                            \/ \E call \in GatedCalls : GateLookup(g, call)
                            \/ PassWithoutGate(g) \/ CallEnds(g)
  BY <1>5, CallStep
<1>6. CASE \E g \in Gates : GateKnown(g) \/ \E n \in Nets : GateNew(g, n)
  BY <1>6, KnownStep, NewStep
<1>7. CASE \E w \in WorkRows : WorkFails(w)
  BY <1>7, WorkFailsStep
<1> QED BY <1>1, <1>2, <1>3, <1>4, <1>5, <1>6, <1>7 DEF NetNext

LEMMA NetAlways == NetSpec => []NetInv
<1>1. NetInv /\ [NetNext]_netVars => NetInv'
  BY NetStep
<1> QED BY <1>1, NetStarts, PTL DEF NetSpec

\* A device that _gate saw on an inspected network is on its way to be reported
\* to the Owner or was, unless its own alert was lost: its background work raised
\* or was in memory when the API restarted.
THEOREM NewcomersAreAlerted == NetSpec => []NewcomersAlerted
<1>1. NetInv => NewcomersAlerted
  BY DEF NetInv
<1> QED BY <1>1, NetAlways, PTL

\* Whatever calls and classifications are under way, what decide_network wrote
\* stands until the Owner acts again.
THEOREM DecisionsStand == NetSpec => OwnerDecisionStands
<1>1. NetInv /\ [NetNext]_netVars
        => [\A n \in Nets : net[n].by = "owner" /\ NetExists(n) /\ ~OwnerActs
              => net'[n].st = net[n].st /\ net'[n].by = "owner"]_netVars
  BY NetStep DEF DecisionKept
<1> QED BY <1>1, NetAlways, PTL DEF NetSpec, OwnerDecisionStands

\* A sealed call that needs an edge certificate is not let through for claiming
\* interception: its device has one on file.
THEOREM ClaimsAreNoWayAround == NetSpec => ClaimIsNoWayAround
<1>1. NetInv /\ [NetNext]_netVars
        => [\A g \in Gates :
              (/\ gate[g].pc \in {"arrived", "found"} /\ gate'[g].pc = "allowed"
               /\ gate[g].needs /\ ~gate[g].bootstrap)
              => gate[g].claims /\ gate[g].who \in certified]_netVars
  BY NetStep DEF HeldToCert
<1> QED BY <1>1, NetAlways, PTL DEF NetSpec, ClaimIsNoWayAround
=============================================================================
