-------------------------- MODULE InspectedNetworks --------------------------
(***************************************************************************)
(* Inspected networks (sealed.py): a sealed call may say that it came       *)
(* through a TLS interceptor.  _gate then decides by the network's row, the *)
(* device's policy and its edge certificate whether the call is served,     *)
(* records the network and the device, and starts background work that      *)
(* classifies a new network and alerts the Owner.  The Owner approves,      *)
(* denies, resets and forgets networks, for an address or its whole block.  *)
(*                                                                          *)
(* Rows are not locked between a lookup and the write that follows, and the *)
(* background work lives in memory.                                         *)
(***************************************************************************)
EXTENDS Naturals, FiniteSets

CONSTANTS
  Nets,        \* ids of rows of inspection_networks
  Addresses,   \* public addresses, all of one registered block
  Phones,      \* approved devices
  Gates,       \* sealed calls that can be in progress at a time
  Nobody,      \* no device: no valid credential
  NoNet,
  MaxNetFaults \* restarts of the API and background work that raises

ASSUME NetAssumption ==
  Nobody \notin Phones /\ NoNet \notin Nets /\ IsFiniteSet(Addresses) /\ MaxNetFaults \in Nat

VARIABLES
  net,        \* inspection_networks
  observed,   \* inspection_observations
  quiet,      \* observations with an alert less than ALERT_REPEAT old
  strict,     \* devices with inspected_network_policy = 'strict'
  certified,  \* devices with an active row in edge_client_certs
  gate,       \* calls in progress
  work,       \* background work
  alerted,    \* devices on networks that the Owner was told of
  lost,       \* those whose background work raised or was in memory at a restart
  netFaults

netVars == <<net, observed, quiet, strict, certified, gate, work, alerted, lost, netFaults>>

NetRow == [st : {"unused", "pending", "approved", "denied", "gone"}, cidr : SUBSET Addresses,
           by : {"nobody", "owner", "auto"}, block : BOOLEAN]
NetExists(n) == net[n].st \in {"pending", "approved", "denied"}

NoRow == [st |-> "unused", cidr |-> {}, by |-> "nobody", block |-> FALSE]

\* claims: the client says that it was intercepted.  needs: an edge certificate
\* is required (SEALED_REQUIRE_EDGE_CERT) and the edge has verified none.
\* seen, status: the row that the lookup found.
NoCall == [pc |-> "free", who |-> Nobody, from |-> NoNet, claims |-> FALSE, needs |-> FALSE,
           bootstrap |-> FALSE, seen |-> NoNet, status |-> "unused"]
CallRows == [pc : {"arrived", "found", "allowed", "refused"}, who : Phones \cup {Nobody},
             from : Addresses \cup {NoNet}, claims : BOOLEAN, needs : BOOLEAN, bootstrap : BOOLEAN,
             seen : Nets \cup {NoNet}, status : {"unused", "pending", "approved", "denied"}]
WorkRows == [kind : {"classify", "store", "alert"}, net : Nets, who : Phones \cup {Nobody}]

NetTypeOK ==
  /\ net \in [Nets -> NetRow]
  /\ observed \subseteq Nets \X Phones /\ quiet \subseteq observed
  /\ strict \subseteq Phones /\ certified \subseteq Phones
  /\ gate \in [Gates -> CallRows \cup {NoCall}]
  /\ work \subseteq WorkRows
  /\ alerted \subseteq Nets \X Phones /\ lost \subseteq Nets \X Phones
  /\ netFaults \in 0..MaxNetFaults

NetInit ==
  /\ net = [n \in Nets |-> NoRow]
  /\ observed = {} /\ quiet = {} /\ strict = {} /\ certified = {}
  /\ gate = [g \in Gates |-> NoCall]
  /\ work = {} /\ alerted = {} /\ lost = {} /\ netFaults = 0

-----------------------------------------------------------------------------
\* A row goes with its observations (ON DELETE CASCADE).
Deleted == [NoRow EXCEPT !.st = "gone"]
WithoutNets(gone) ==
  /\ observed' = {p \in observed : p[1] \notin gone}
  /\ quiet' = {p \in quiet : p[1] \notin gone}
  /\ alerted' = {p \in alerted : p[1] \notin gone}
  /\ lost' = {p \in lost : p[1] \notin gone}

\* The rows that contain an address; the most specific one is looked up.
Covering(a) == {n \in Nets : NetExists(n) /\ a \in net[n].cidr}
MostSpecific(a) ==
  CHOOSE n \in Covering(a) : \A k \in Covering(a) : Cardinality(net[n].cidr) <= Cardinality(net[k].cidr)

Answer(g, allowed) ==
  gate' = [gate EXCEPT ![g] = [NoCall EXCEPT !.pc = IF allowed THEN "allowed" ELSE "refused"]]

\* sealed_call after the claim: a call comes in.  Who sends it, from where, to
\* which path and what the edge says of it are as they come; the first two only
\* matter to the gate.
GatedCalls == {call \in [pc : {"found"}, who : Phones \cup {Nobody}, from : Addresses, claims : {TRUE},
                         needs : BOOLEAN, bootstrap : BOOLEAN, seen : {NoNet}, status : {"unused"}] :
                 call.who # Nobody \/ call.bootstrap}
UngatedCalls == {call \in [pc : {"arrived"}, who : {Nobody}, from : {NoNet}, claims : BOOLEAN,
                           needs : BOOLEAN, bootstrap : BOOLEAN, seen : {NoNet}, status : {"unused"}] :
                   ~call.claims \/ ~call.bootstrap}

CallArrives(g, call) ==
  /\ gate[g] = NoCall
  /\ gate' = [gate EXCEPT ![g] = call]
  /\ UNCHANGED <<net, observed, quiet, strict, certified, work, alerted, lost, netFaults>>

\* Interception is taken for granted where there is no credential to check.
PassUnauthenticated(g) ==
  /\ gate[g].pc = "arrived"
  /\ Answer(g, ~gate[g].claims /\ gate[g].needs => gate[g].bootstrap)
  /\ UNCHANGED <<net, observed, quiet, strict, certified, work, alerted, lost, netFaults>>

\* A call that claims nothing is held to the edge certificate, if required; so
\* is one that claims interception without a credential.
PassWithoutGate(g) ==
  /\ gate[g].pc = "arrived"
  /\ Answer(g, gate[g].needs => gate[g].bootstrap)
  /\ UNCHANGED <<net, observed, quiet, strict, certified, work, alerted, lost, netFaults>>

\* _gate up to the lookup, which is the first thing it reads that others write.
GateLookup(g, call) ==
  /\ gate[g] = NoCall
  /\ gate' = [gate EXCEPT ![g] =
       IF Covering(call.from) = {} THEN call
       ELSE LET n == MostSpecific(call.from)
            IN  [call EXCEPT !.seen = n, !.status = net[n].st]]
  /\ UNCHANGED <<net, observed, quiet, strict, certified, work, alerted, lost, netFaults>>

\* The decision about a device, by the status that the gate has read.
Allowed(call, status) ==
  /\ status # "denied" /\ call.who \notin strict
  /\ IF status = "approved" THEN call.needs => call.who \in certified
                            ELSE call.needs => call.bootstrap

\* Only a new network or a refusal starts an alert.
DecideSilently(g, n, new, status) ==
  LET call == gate[g]
      pair == <<n, call.who>>
      allowed == Allowed(call, status)
      tell == new \/ (~allowed /\ pair \notin quiet)
  IN  IF call.who = Nobody
      THEN /\ Answer(g, TRUE)
           /\ work' = IF new THEN work \cup {[kind |-> "classify", net |-> n, who |-> Nobody]} ELSE work
           /\ UNCHANGED <<observed, quiet>>
      ELSE /\ Answer(g, allowed)
           /\ observed' = observed \cup {pair}
           /\ quiet' = IF tell THEN quiet \cup {pair} ELSE quiet
           /\ work' = IF tell
                      THEN work \cup {[kind |-> IF new THEN "classify" ELSE "alert", net |-> n, who |-> call.who]}
                      ELSE work

\* The rest of _gate for network n, which is new or was found with this status:
\* the observation, and an alert for a new or a refused device unless there was
\* one of late.
Decide(g, n, new, status) ==
  LET call == gate[g]
      pair == <<n, call.who>>
      allowed == Allowed(call, status)
      tell == new \/ ((~allowed \/ pair \notin observed) /\ pair \notin quiet)
  IN  IF call.who = Nobody
      THEN /\ Answer(g, TRUE)
           /\ work' = IF new THEN work \cup {[kind |-> "classify", net |-> n, who |-> Nobody]} ELSE work
           /\ UNCHANGED <<observed, quiet>>
      ELSE /\ Answer(g, allowed)
           /\ observed' = observed \cup {pair}
           /\ quiet' = IF tell THEN quiet \cup {pair} ELSE quiet
           /\ work' = IF tell
                      THEN work \cup {[kind |-> IF new THEN "classify" ELSE "alert", net |-> n, who |-> call.who]}
                      ELSE work

\* The lookup found a row.  If it is gone by now the observation fails, and the
\* call with it; a call without a device does not notice.
GateKnown(g) ==
  /\ gate[g].pc = "found" /\ gate[g].seen # NoNet
  /\ IF NetExists(gate[g].seen) \/ gate[g].who = Nobody
     THEN Decide(g, gate[g].seen, FALSE, gate[g].status)
     ELSE Answer(g, FALSE) /\ UNCHANGED <<observed, quiet, work>>
  /\ UNCHANGED <<net, strict, certified, alerted, lost, netFaults>>

\* It found none: a row for the address is inserted, or the one that was
\* inserted meanwhile is taken.
GateNew(g, n) ==
  /\ gate[g].pc = "found" /\ gate[g].seen = NoNet
  /\ LET same == {k \in Nets : NetExists(k) /\ net[k].cidr = {gate[g].from}}
     IN  IF same = {}
         THEN /\ net[n].st = "unused"
              /\ net' = [net EXCEPT ![n] = [st |-> "pending", cidr |-> {gate[g].from},
                                            by |-> "nobody", block |-> FALSE]]
              /\ Decide(g, n, TRUE, "pending")
         ELSE /\ n \in same
              /\ Decide(g, n, TRUE, net[n].st)
              /\ UNCHANGED net
  /\ UNCHANGED <<strict, certified, alerted, lost, netFaults>>

\* The inner call has run, or the refusal was sent.
CallEnds(g) ==
  /\ gate[g].pc \in {"allowed", "refused"}
  /\ gate' = [gate EXCEPT ![g] = NoCall]
  /\ UNCHANGED <<net, observed, quiet, strict, certified, work, alerted, lost, netFaults>>

-----------------------------------------------------------------------------
\* _alert: mail and push, best effort.
TellOwner(w) == IF NetExists(w.net) /\ w.who # Nobody THEN {<<w.net, w.who>>} ELSE {}

\* _classify_and_alert: nothing to do for a row that is gone; otherwise the
\* registry is asked.
ClassifyStart(w) ==
  /\ w \in work /\ w.kind = "classify"
  /\ work' = (work \ {w}) \cup (IF NetExists(w.net) THEN {[w EXCEPT !.kind = "store"]} ELSE {})
  /\ UNCHANGED <<net, observed, quiet, strict, certified, gate, alerted, lost, netFaults>>

\* What the UPDATE makes of the rows: a network that looks like a school, a
\* hospital or a government office is approved whatever became of it meanwhile.
OverridingNets(w, auto, block) ==
  IF NetExists(w.net)
  THEN [net EXCEPT ![w.net].block = block,
                   ![w.net].st = IF auto THEN "approved" ELSE @,
                   ![w.net].by = IF auto THEN "auto" ELSE @]
  ELSE net

\* It is approved if it is still pending.
ClassifiedNets(w, auto, block) ==
  IF NetExists(w.net)
  THEN LET approves == auto /\ net[w.net].st = "pending"
       IN  [net EXCEPT ![w.net].block = block,
                       ![w.net].st = IF approves THEN "approved" ELSE @,
                       ![w.net].by = IF approves THEN "auto" ELSE @]
  ELSE net

\* The answer is stored, then the alert.
ClassifyStore(w) ==
  /\ w \in work /\ w.kind = "store"
  /\ work' = work \ {w}
  /\ \E auto, block \in BOOLEAN : net' = ClassifiedNets(w, auto, block)
  /\ alerted' = alerted \cup TellOwner(w)
  /\ UNCHANGED <<observed, quiet, strict, certified, gate, lost, netFaults>>

\* _alert_existing.
AlertExisting(w) ==
  /\ w \in work /\ w.kind = "alert"
  /\ work' = work \ {w}
  /\ alerted' = alerted \cup TellOwner(w)
  /\ UNCHANGED <<net, observed, quiet, strict, certified, gate, lost, netFaults>>

\* The device that a piece of work is about.
Subject(w) == {<<w.net, w.who>>} \cap (Nets \X Phones)

\* The work raises, at a query or a commit, and _logged swallows it.  The alert
\* is not sent and last_alert_at stays as the gate has set it; the classification
\* may have been stored before.
WorkFails(w) ==
  /\ w \in work /\ netFaults < MaxNetFaults
  /\ netFaults' = netFaults + 1
  /\ work' = work \ {w}
  /\ lost' = lost \cup Subject(w)
  /\ \/ UNCHANGED net
     \/ w.kind = "store" /\ \E auto, block \in BOOLEAN : net' = ClassifiedNets(w, auto, block)
  /\ UNCHANGED <<observed, quiet, strict, certified, gate, alerted>>

\* ALERT_REPEAT passes.
AlertAges(pair) ==
  /\ pair \in quiet
  /\ quiet' = quiet \ {pair}
  /\ UNCHANGED <<net, observed, strict, certified, gate, work, alerted, lost, netFaults>>

-----------------------------------------------------------------------------
Decided(row, st) == [row EXCEPT !.st = st, !.by = IF st = "pending" THEN "nobody" ELSE "owner"]

\* decide_network for the address.
DecideAddress(n, st) ==
  /\ NetExists(n)
  /\ net' = [net EXCEPT ![n] = Decided(@, st)]
  /\ UNCHANGED <<observed, quiet, strict, certified, gate, work, alerted, lost, netFaults>>

\* decide_network for the registered block, which must be known and have no
\* row of its own: the row takes the block over, pending rows inside it go.
DecideBlock(n, st) ==
  /\ NetExists(n) /\ net[n].block
  /\ \A k \in Nets \ {n} : NetExists(k) => net[k].cidr # Addresses
  /\ LET inside == {k \in Nets \ {n} : net[k].st = "pending"}
     IN  /\ net' = [k \in Nets |-> CASE k = n -> [Decided(net[n], st) EXCEPT !.cidr = Addresses]
                                     [] k \in inside -> Deleted
                                     [] OTHER -> net[k]]
         /\ WithoutNets(inside)
  /\ UNCHANGED <<strict, certified, gate, work, netFaults>>

\* forget_network.
ForgetNetwork(n) ==
  /\ NetExists(n)
  /\ net' = [net EXCEPT ![n] = Deleted]
  /\ WithoutNets({n})
  /\ UNCHANGED <<strict, certified, gate, work, netFaults>>

\* set_device_policy.
SetPolicy(d) ==
  /\ strict' = IF d \in strict THEN strict \ {d} ELSE strict \cup {d}
  /\ UNCHANGED <<net, observed, quiet, certified, gate, work, alerted, lost, netFaults>>

\* A certificate is issued to a device, or expires or is revoked (EdgeCerts).
CertChanges(d) ==
  /\ certified' = IF d \in certified THEN certified \ {d} ELSE certified \cup {d}
  /\ UNCHANGED <<net, observed, quiet, strict, gate, work, alerted, lost, netFaults>>

\* The API restarts and forgets the work it had started.
NetRestart ==
  /\ netFaults < MaxNetFaults
  /\ netFaults' = netFaults + 1
  /\ gate' = [g \in Gates |-> NoCall]
  /\ work' = {}
  /\ lost' = lost \cup UNION {Subject(w) : w \in work}
  /\ UNCHANGED <<net, observed, quiet, strict, certified, alerted>>

-----------------------------------------------------------------------------
Classify(w) == ClassifyStart(w) \/ ClassifyStore(w)

OwnerActs ==
  \/ \E n \in Nets, st \in {"approved", "denied", "pending"} : DecideAddress(n, st) \/ DecideBlock(n, st)
  \/ \E n \in Nets : ForgetNetwork(n)

NetNext ==
  \/ \E g \in Gates : \E call \in UngatedCalls : CallArrives(g, call)
  \/ \E g \in Gates : \E call \in GatedCalls : GateLookup(g, call)
  \/ \E g \in Gates : PassWithoutGate(g) \/ GateKnown(g) \/ CallEnds(g)
  \/ \E g \in Gates, n \in Nets : GateNew(g, n)
  \/ \E w \in WorkRows : Classify(w) \/ AlertExisting(w) \/ WorkFails(w)
  \/ \E pair \in Nets \X Phones : AlertAges(pair)
  \/ OwnerActs
  \/ \E d \in Phones : SetPolicy(d) \/ CertChanges(d)
  \/ NetRestart

NetSpec == NetInit /\ [][NetNext]_netVars

-----------------------------------------------------------------------------
\* What the Owner decided about a network only the Owner changes: a
\* classification that was started before and ends after the decision leaves
\* it alone.
OwnerDecisionStands ==
  [][\A n \in Nets : net[n].by = "owner" /\ NetExists(n) /\ ~OwnerActs
       => net'[n].st = net[n].st /\ net'[n].by = "owner"]_netVars

\* "Claiming interception must not be a way around" the edge certificate: while
\* it is required, no call that must have one is let through without it, unless
\* the device holds one that the interceptor stripped.
ClaimIsNoWayAround ==
  [][\A g \in Gates :
       (/\ gate[g].pc \in {"arrived", "found"} /\ gate'[g].pc = "allowed"
        /\ gate[g].needs /\ ~gate[g].bootstrap)
       => gate[g].claims /\ gate[g].who \in certified]_netVars

\* "Each new network or new device on one alerts" the Owner: a device that was
\* seen on a network is on its way to be reported or has been, whatever the
\* classification, other calls and the Owner did meanwhile.  The only devices
\* missed are the ones whose own alert was lost, because its background work
\* raised (_logged) or was in memory at a restart: the gate has already marked
\* them as alerted, and nothing takes the work up again; a call that is refused
\* after ALERT_REPEAT raises another alert.
NewcomersAlerted ==
  \A pair \in observed \ alerted :
    pair \in lost \/ \E w \in work : <<w.net, w.who>> = pair

=============================================================================
