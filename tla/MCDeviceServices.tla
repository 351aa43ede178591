-------------------------- MODULE MCDeviceServices --------------------------
(* DeviceServices for TLC, with the state constraints of its run. *)
EXTENDS DeviceServices

\* Once every drop exists a registration only matters for starting the sweep,
\* which a device that is registered already may do as well.
RegistrationsStay ==
  (\A d \in Drops : row[d].st # "unborn") => registered = {dev \in Devices : standing[dev] # "deleted"}

FirstNet == CHOOSE n \in Nets : TRUE
FirstAddress == CHOOSE a \in Addresses : TRUE
FirstGate == CHOOSE g \in Gates : TRUE

OneNetwork ==
  /\ \A n \in Nets \ {FirstNet} : net[n].st = "unused"
  /\ net[FirstNet].cidr \subseteq {FirstAddress}
  /\ \A g \in Gates : gate[g].from \in {NoNet, FirstAddress}

OneCall == \A g \in Gates \ {FirstGate} : gate[g] = NoCall

\* Nothing that depends on a device's policy and certificate, a restart or
\* the time since the last alert.
Plain ==
  /\ strict = {} /\ certified = {} /\ netFaults = 0 /\ quiet = observed
  /\ \A g \in Gates : ~gate[g].needs /\ gate[g].pc # "arrived"
  /\ Cardinality(work) <= 1

\* What depends on those is looked at with one call and one network; two calls
\* with one network; two networks of a block with one call.
OneAtATime ==
  \/ OneNetwork /\ OneCall
  \/ OneNetwork /\ Plain /\ \A g \in Gates : ~gate[g].bootstrap
  \/ OneCall /\ Plain /\ net[FirstNet].st # "unused"

=============================================================================
