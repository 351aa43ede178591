----------------------------- MODULE RelayGuard -----------------------------
(***************************************************************************)
(* The relay-guard daemon (rustdesk-relay-guard-sync) beside the directory:*)
(* every two seconds it reads the mode and the usable relay leases from    *)
(* the database and rewrites the firewall's allow set, while devices are   *)
(* approved, blocked and re-enrolled underneath it.  A device stands for   *)
(* the source address of its lease.                                        *)
(*                                                                         *)
(* Reading the leases and loading the set are two steps, the database may  *)
(* be away at either, the table may be flushed by others, and systemd      *)
(* restarts the daemon wherever it died.                                   *)
(***************************************************************************)
EXTENDS DeviceLifecycle

CONSTANT MaxFlush   \* bound on losses of the firewall table and restarts

ASSUME FlushAssumption == MaxFlush \in Nat

VARIABLES
  dbUp,      \* the database container answers
  mode,      \* security_settings.relay_guard_mode
  modeFile,  \* the mode the daemon last installed ("" before the first)
  table,     \* mode of the firewall table, "none" when there is no table
  allowed,   \* members of the allow set
  rows,      \* result of the lease query, until it is loaded
  want,      \* the mode the daemon is installing
  at,        \* where the daemon's loop is
  flushes,   \* losses and restarts so far
  leased     \* history: devices granted a lease under their present approval

guardVars == <<dbUp, mode, modeFile, table, allowed, rows, want, at, flushes>>
allVars == <<vars, guardVars, leased>>

Modes == {"enforced", "staged"}

GuardInit ==
  /\ Init
  /\ dbUp = TRUE
  /\ mode = "enforced"
  /\ modeFile = ""
  /\ table = "none"
  /\ allowed = {}
  /\ rows = {}
  /\ want = "enforced"
  /\ at = "top"
  /\ flushes = 0
  /\ leased = {}

-----------------------------------------------------------------------------
\* (Operators named Fault... are plausible slips in the definition that follows
\* them; they are not part of the specification.)

FaultLeaseUsable(l) == l.fresh /\ status[l.dev] = "approved"

\* sync_sets: unrevoked, unexpired, of an approved device, and granted under
\* its unrevoked credential.
LeaseUsable(l) ==
  /\ l.fresh
  /\ status[l.dev] = "approved"
  /\ l.serial \in live[l.dev]

UsableDevices == {l.dev : l \in {x \in leases : LeaseUsable(x)}}

\* ensure_fail_safe_table, when the container or the mode lookup fails.
FailSafe ==
  /\ at = "top"
  /\ ~dbUp
  /\ table = "none"
  /\ table' = "enforced"
  /\ modeFile' = "enforced"
  /\ allowed' = {}
  /\ UNCHANGED <<vars, dbUp, mode, rows, want, at, flushes, leased>>

FaultNeedsInstall == mode # modeFile

\* The loop reinstalls the table when the mode changed or the table is gone.
NeedsInstall == mode # modeFile \/ table = "none"

\* install_table deletes the table first ...
ReadMode ==
  /\ at = "top"
  /\ dbUp
  /\ IF NeedsInstall
       THEN at' = "create" /\ want' = mode /\ table' = "none" /\ allowed' = {}
       ELSE at' = "query" /\ UNCHANGED <<want, table, allowed>>
  /\ UNCHANGED <<vars, dbUp, mode, modeFile, rows, flushes, leased>>

\* ... and then creates it, with empty sets, for the mode read above.
CreateTable ==
  /\ at = "create"
  /\ table' = want
  /\ modeFile' = want
  /\ allowed' = {}
  /\ at' = "query"
  /\ UNCHANGED <<vars, dbUp, mode, rows, want, flushes, leased>>

\* The query; a failing one yields no rows.
QueryLeases ==
  /\ at = "query"
  /\ rows' = IF dbUp THEN UsableDevices ELSE {}
  /\ at' = "load"
  /\ UNCHANGED <<vars, dbUp, mode, modeFile, table, allowed, want, flushes, leased>>

FaultLoadSets ==
  /\ at = "load"
  /\ allowed' = {}
  /\ rows' = {}
  /\ at' = "top"
  /\ UNCHANGED <<vars, dbUp, mode, modeFile, table, want, flushes, leased>>

\* One nft batch flushes the sets and adds the rows; without a table it fails
\* and the loop goes round.
LoadSets ==
  /\ at = "load"
  /\ allowed' = IF table = "none" THEN allowed ELSE rows
  /\ rows' = {}
  /\ at' = "top"
  /\ UNCHANGED <<vars, dbUp, mode, modeFile, table, want, flushes, leased>>

FaultElementTimeout(d) ==
  /\ d \in allowed
  /\ dbUp
  /\ allowed' = allowed \ {d}
  /\ UNCHANGED <<vars, dbUp, mode, modeFile, table, rows, want, at, flushes, leased>>

\* Members of the set expire after SET_TIMEOUT unless loaded again.
ElementTimeout(d) ==
  /\ d \in allowed
  /\ allowed' = allowed \ {d}
  /\ UNCHANGED <<vars, dbUp, mode, modeFile, table, rows, want, at, flushes, leased>>

\* cleanup_expired drops leases that have expired.
CleanupExpired ==
  /\ dbUp
  /\ \E l \in leases : ~l.fresh
  /\ leases' = {l \in leases : l.fresh}
  /\ UNCHANGED <<deviceVars, credVars, reVars, secret, account, reqVars, guardVars, leased>>

-----------------------------------------------------------------------------
(* The daemon's environment                                                 *)

DatabaseSwitch ==
  /\ dbUp' = ~dbUp
  /\ UNCHANGED <<vars, mode, modeFile, table, allowed, rows, want, at, flushes, leased>>

ModeSwitch ==
  /\ dbUp
  /\ mode' \in Modes \ {mode}
  /\ UNCHANGED <<vars, dbUp, modeFile, table, allowed, rows, want, at, flushes, leased>>

TableLost ==
  /\ flushes < MaxFlush
  /\ flushes' = flushes + 1
  /\ table' = "none"
  /\ allowed' = {}
  /\ UNCHANGED <<vars, dbUp, mode, modeFile, rows, want, at, leased>>

\* The runtime directory with the mode file goes with the process.
DaemonRestart ==
  /\ flushes < MaxFlush
  /\ flushes' = flushes + 1
  /\ at' = "top"
  /\ rows' = {}
  /\ modeFile' = ""
  /\ UNCHANGED <<vars, dbUp, mode, table, allowed, want, leased>>

\* A step of the directory.  The history variable forgets a device at its
\* approval and notes it when a lease of its present credential is granted.
DirectoryStep ==
  /\ dbUp
  /\ Next
  /\ leased' = {d \in Devices :
                  /\ status'[d] = "approved"
                  /\ \/ d \in leased /\ status[d] = "approved"
                     \/ \E q \in devReq \ devReq' :
                          /\ q.kind = "lease" /\ q.dev = d /\ q.serial \in live[d]
                          /\ leases' # leases}
  /\ UNCHANGED guardVars

GuardStep ==
  \/ FailSafe \/ ReadMode \/ CreateTable \/ QueryLeases \/ LoadSets

GuardNext ==
  \/ DirectoryStep \/ GuardStep \/ CleanupExpired
  \/ \E d \in Devices : ElementTimeout(d)
  \/ DatabaseSwitch \/ ModeSwitch \/ TableLost \/ DaemonRestart

\* The loop never stops (systemd restarts it) and the kernel expires members.
GuardSpec ==
  /\ GuardInit /\ [][GuardNext]_allVars
  /\ WF_allVars(GuardStep)
  /\ \A d \in Devices : WF_allVars(ElementTimeout(d))

-----------------------------------------------------------------------------
(* Properties                                                               *)

\* The rows the daemon is about to load are devices granted a lease since their
\* present approval: a lease request authenticated before a block, and written
\* after the re-enrollment, never opens the firewall.
AdmitsOnlyCurrentLeases ==
  [][at = "query" /\ at' = "load" => rows' \subseteq leased]_allVars

\* A revoked device is eventually outside the allow set for good, whatever the
\* database, the daemon and requests in flight do.
RevokedShutOut ==
  \A d \in Devices : status[d] = "revoked" ~> [](d \notin allowed)

\* "The synchronizer will apply it within a few seconds": a mode that stays
\* requested while the database answers is eventually, and lastingly, the
\* table's, even if the table was lost or the daemon restarted.
ModeApplied ==
  \A m \in Modes : <>[](dbUp /\ mode = m) => <>[](table = m)

\* A device that keeps a usable lease is admitted again and again.
LeaseAdmitted ==
  \A d \in Devices : <>[](dbUp /\ d \in UsableDevices) => []<>(d \in allowed)

=============================================================================
