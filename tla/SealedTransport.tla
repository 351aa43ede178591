--------------------------- MODULE SealedTransport ---------------------------
(***************************************************************************)
(* Sealed calls (sealed.py): a client wraps an API call in an envelope for  *)
(* RDS's key.  Whoever carries the envelope can keep it and deliver it      *)
(* again, as often and as late as he likes; RDS keeps the hashes of the     *)
(* ephemeral keys it has seen for a while and refuses envelopes whose       *)
(* timestamp is too far from its own clock.                                 *)
(*                                                                          *)
(* The timestamp is the client's and may be wrong either way.  It is        *)
(* checked on the event loop, the key is claimed later in a thread of a     *)
(* pool: ClaimDelay is the longest that may take.  Encryption is perfect:   *)
(* an envelope that was altered is not one (open_request refuses it).       *)
(* Whether the gate lets an inspected call pass is InspectedNetworks'.      *)
(***************************************************************************)
EXTENDS Integers

CONSTANTS
  Envelopes,
  Copies,     \* deliveries that can be in progress at a time
  Stamps,     \* timestamps a client may put in
  Skew,       \* CLOCK_SKEW_SECONDS
  Retention,  \* REPLAY_RETENTION
  ClaimDelay,
  Never,      \* stands for no time and no envelope
  MaxTime

\* "must outlast the clock-skew window on both sides"
ASSUME WindowAssumption ==
  /\ Stamps \subseteq Int
  /\ Skew \in Nat /\ Retention \in Nat /\ ClaimDelay \in Nat /\ MaxTime \in Nat
  /\ 2 * Skew + ClaimDelay <= Retention
  /\ Never \notin Int /\ Never \notin Envelopes

VARIABLES
  wall,      \* the server's clock
  stamp,     \* the timestamp in each envelope, Never while it is not made
  copy,      \* deliveries in progress
  replay,    \* sealed_replay: when an envelope was claimed
  runs       \* how often the call in an envelope was let run

sealVars == <<wall, stamp, copy, replay, runs>>

NoCopy == [pc |-> "free", env |-> Never, at |-> Never]
CopyRow == [pc : {"checked", "claimed"}, env : Envelopes, at : Int]

SealTypeOK ==
  /\ wall \in 0..MaxTime
  /\ stamp \in [Envelopes -> Stamps \cup {Never}]
  /\ copy \in [Copies -> CopyRow \cup {NoCopy}]
  /\ replay \in [Envelopes -> Int \cup {Never}]
  /\ runs \in [Envelopes -> Nat]

SealInit ==
  /\ wall = 0
  /\ stamp = [e \in Envelopes |-> Never]
  /\ copy = [c \in Copies |-> NoCopy]
  /\ replay = [e \in Envelopes |-> Never]
  /\ runs = [e \in Envelopes |-> 0]

-----------------------------------------------------------------------------
\* A client seals a call, with whatever its clock says.
Seal(e, t) ==
  /\ stamp[e] = Never
  /\ stamp' = [stamp EXCEPT ![e] = t]
  /\ UNCHANGED <<wall, copy, replay, runs>>

\* sealed_call up to the claim: a copy is delivered, opened, and its timestamp
\* found to be near enough (inner_target).
OpenEnvelope(c, e) ==
  /\ copy[c] = NoCopy
  /\ stamp[e] # Never
  /\ wall - stamp[e] <= Skew /\ stamp[e] - wall <= Skew
  /\ copy' = [copy EXCEPT ![c] = [pc |-> "checked", env |-> e, at |-> wall]]
  /\ UNCHANGED <<wall, stamp, replay, runs>>

\* _claim_replay_slot: INSERT ... ON CONFLICT DO NOTHING.
ClaimReplaySlot(c) ==
  /\ copy[c].pc = "checked"
  /\ IF replay[copy[c].env] = Never
     THEN /\ replay' = [replay EXCEPT ![copy[c].env] = wall]
          /\ copy' = [copy EXCEPT ![c].pc = "claimed"]
     ELSE /\ copy' = [copy EXCEPT ![c] = NoCopy]
          /\ UNCHANGED replay
  /\ UNCHANGED <<wall, stamp, runs>>

\* The gate and the edge-certificate rule let the call pass: it runs inside.
RunInner(c) ==
  /\ copy[c].pc = "claimed"
  /\ runs' = [runs EXCEPT ![copy[c].env] = @ + 1]
  /\ copy' = [copy EXCEPT ![c] = NoCopy]
  /\ UNCHANGED <<wall, stamp, replay>>

\* They refuse it, or the delivery ends because the API restarts.
EndCopy(c) ==
  /\ copy[c].pc # "free"
  /\ copy' = [copy EXCEPT ![c] = NoCopy]
  /\ UNCHANGED <<wall, stamp, replay, runs>>

\* Entries go after the skew window on one side only.
PurgeEarly ==
  /\ \E e \in Envelopes : replay[e] # Never /\ replay[e] < wall - Skew
  /\ replay' = [e \in Envelopes |->
       IF replay[e] # Never /\ replay[e] < wall - Skew THEN Never ELSE replay[e]]
  /\ UNCHANGED <<wall, stamp, copy, runs>>

\* purge: deletes what was claimed longer than Retention ago.
Purge ==
  /\ \E e \in Envelopes : replay[e] # Never /\ replay[e] < wall - Retention
  /\ replay' = [e \in Envelopes |->
       IF replay[e] # Never /\ replay[e] < wall - Retention THEN Never ELSE replay[e]]
  /\ UNCHANGED <<wall, stamp, copy, runs>>

\* Time passes; a checked copy is claimed within ClaimDelay.
SealTick ==
  /\ wall < MaxTime
  /\ \A c \in Copies : copy[c].pc = "checked" => wall < copy[c].at + ClaimDelay
  /\ wall' = wall + 1
  /\ UNCHANGED <<stamp, copy, replay, runs>>

SealNext ==
  \/ \E e \in Envelopes, t \in Stamps : Seal(e, t)
  \/ \E c \in Copies, e \in Envelopes : OpenEnvelope(c, e)
  \/ \E c \in Copies : ClaimReplaySlot(c) \/ RunInner(c) \/ EndCopy(c)
  \/ Purge
  \/ SealTick

SealSpec == SealInit /\ [][SealNext]_sealVars

-----------------------------------------------------------------------------
\* The call in an envelope runs at most once, however often, early or late its
\* copies are delivered, however wrong the client's clock, and although the
\* check of the timestamp and the claim are apart and entries are purged.
AtMostOnce == \A e \in Envelopes : runs[e] <= 1

=============================================================================
