--------------------------- MODULE DeviceServices ---------------------------
(***************************************************************************)
(* The services of the API around approved devices, side by side: file     *)
(* drops, chat, edge certificates, change-driven sync, sealed calls,       *)
(* inspected networks, health alerts and the lists for hbbs.  They share   *)
(* the process and nothing that these models tell apart, so one of them    *)
(* moves at a time, with the others in their initial state.                *)
(***************************************************************************)
EXTENDS RustDrop, ManagedChat, EdgeCerts, DeviceSync, SealedTransport, InspectedNetworks,
  HealthAlerts, RendezvousLists

ServicesInit ==
  /\ DropInit /\ ChatInit /\ CertInit /\ SyncInit /\ SealInit /\ NetInit
  /\ AlertInit /\ ListInit

\* The other services are as they were in the beginning.
Rest(s) ==
  /\ s = "drop" \/ DropInit
  /\ s = "chat" \/ ChatInit
  /\ s = "cert" \/ CertInit
  /\ s = "sync" \/ SyncInit
  /\ s = "seal" \/ SealInit
  /\ s = "net" \/ NetInit
  /\ s = "alert" \/ AlertInit
  /\ s = "list" \/ ListInit

ServicesNext ==
  \/ Rest("drop") /\ DropNext
     /\ UNCHANGED <<chatVars, certVars, syncVars, sealVars, netVars, alertVars, listVars>>
  \/ Rest("chat") /\ ChatNext
     /\ UNCHANGED <<dropVars, certVars, syncVars, sealVars, netVars, alertVars, listVars>>
  \/ Rest("cert") /\ CertNext
     /\ UNCHANGED <<dropVars, chatVars, syncVars, sealVars, netVars, alertVars, listVars>>
  \/ Rest("sync") /\ SyncNext
     /\ UNCHANGED <<dropVars, chatVars, certVars, sealVars, netVars, alertVars, listVars>>
  \/ Rest("seal") /\ SealNext
     /\ UNCHANGED <<dropVars, chatVars, certVars, syncVars, netVars, alertVars, listVars>>
  \/ Rest("net") /\ NetNext
     /\ UNCHANGED <<dropVars, chatVars, certVars, syncVars, sealVars, alertVars, listVars>>
  \/ Rest("alert") /\ AlertNext
     /\ UNCHANGED <<dropVars, chatVars, certVars, syncVars, sealVars, netVars, listVars>>
  \/ Rest("list") /\ ListNext
     /\ UNCHANGED <<dropVars, chatVars, certVars, syncVars, sealVars, netVars, alertVars>>

servicesVars ==
  <<dropVars, chatVars, certVars, syncVars, sealVars, netVars, alertVars, listVars>>

\* The fair actions of every service are disabled in its initial state.
ServicesSpec ==
  /\ ServicesInit /\ [][ServicesNext]_servicesVars
  /\ DropFairness /\ SyncFairness /\ ListFairness

\* The tables, files, sockets and requests of the services are what the
\* handlers take them for: no file longer than announced, no socket in two
\* states, no observation of a network without the device, no alert recorded
\* for a device that was not observed.
ServicesTypeOK ==
  DropTypeOK /\ ChatTypeOK /\ CertTypeOK /\ SyncTypeOK /\ SealTypeOK /\ NetTypeOK
    /\ AlertTypeOK /\ ListTypeOK

=============================================================================
