--------------------------- MODULE RendezvousLists ---------------------------
(***************************************************************************)
(* What the directory tells the rendezvous server (hbbs) through files:    *)
(* its settings, and the identity keys and the ids of approved devices.    *)
(* rustdesk-approved-ids-sync writes them, once a minute, each from a      *)
(* query of its own; every query and every write may fail.                 *)
(*                                                                         *)
(* The settings too are read one by one, so that a change of several of    *)
(* them in one transaction may fall between two queries.                   *)
(***************************************************************************)
EXTENDS Naturals, FiniteSets

CONSTANTS
  Ids,            \* devices with a RustDesk id
  SettingCount,   \* settings, in the order in which the script reads them
  Modes,          \* values of a setting
  DefaultMode,    \* what a setting that is missing means
  FirstMode,      \* the value of each in the beginning
  Unreadable,     \* the "!" of a failed query
  MaxListChanges, \* decisions, key updates and changes of settings, in all
  MaxListFaults   \* failed queries, writes and commands, in all

ASSUME ListAssumption ==
  /\ {DefaultMode, FirstMode} \subseteq Modes /\ Unreadable \notin Modes
  /\ SettingCount \in Nat /\ MaxListChanges \in Nat /\ MaxListFaults \in Nat

SettingKeys == 1..SettingCount

VARIABLES
  admitted,     \* managed_devices: ids with status approved
  identified,   \* managed_devices: ids with an identity_public_key
  setting,      \* directory_settings
  hbbsSettings, approvedKeys, approvedIds,  \* the files
  script,       \* the run under way: where it is and what it read last
  everSet,      \* history: values that each setting has had
  listChanges, listFaults

files == <<hbbsSettings, approvedKeys, approvedIds>>
listVars == <<admitted, identified, setting, files, script, everSet, listChanges, listFaults>>

\* next: the setting to be read next; modes: those read so far.
NoRun == [pc |-> "idle", next |-> 1, modes |-> [k \in SettingKeys |-> Unreadable], held |-> {}]

ListTypeOK ==
  /\ admitted \subseteq Ids /\ identified \subseteq Ids
  /\ setting \in [SettingKeys -> Modes] /\ hbbsSettings \in [SettingKeys -> Modes]
  /\ approvedKeys \subseteq Ids /\ approvedIds \subseteq Ids
  /\ script \in [pc : {"idle", "settings", "keys", "swapkeys", "ids", "swapids"},
                 next : 1..SettingCount + 1, modes : [SettingKeys -> Modes \cup {Unreadable}],
                 held : SUBSET Ids]
  /\ everSet \in [SettingKeys -> SUBSET Modes]
  /\ listChanges \in 0..MaxListChanges /\ listFaults \in 0..MaxListFaults

\* Every device is approved with a key, and hbbs knows.
ListInit ==
  /\ admitted = Ids /\ identified = Ids
  /\ setting = [k \in SettingKeys |-> FirstMode] /\ hbbsSettings = setting
  /\ approvedKeys = Ids /\ approvedIds = Ids
  /\ script = NoRun
  /\ everSet = [k \in SettingKeys |-> {FirstMode}]
  /\ listChanges = 0 /\ listFaults = 0

-----------------------------------------------------------------------------
Changes == listChanges < MaxListChanges /\ listChanges' = listChanges + 1

Fails == listFaults < MaxListFaults /\ listFaults' = listFaults + 1

\* change_device_status: the device is shut out and keeps its key.
Dismiss(i) ==
  /\ Changes /\ i \in admitted
  /\ admitted' = admitted \ {i}
  /\ UNCHANGED <<identified, setting, files, script, everSet, listFaults>>

\* approve_device: a device that returns has kept its identity key, another one
\* with the same id brings none.
Admit(i) ==
  /\ Changes /\ i \notin admitted
  /\ admitted' = admitted \cup {i}
  /\ identified' \in {identified, identified \ {i}}
  /\ UNCHANGED <<setting, files, script, everSet, listFaults>>

\* post_results with the answer to a key update.
Identify(i) ==
  /\ Changes /\ i \in admitted \ identified
  /\ identified' = identified \cup {i}
  /\ UNCHANGED <<admitted, setting, files, script, everSet, listFaults>>

\* set_connection_settings, for any number of settings in one transaction; its
\* checks of the devices' builds only forbid changes.
ChangeSettings(modes) ==
  /\ Changes
  /\ setting' = modes
  /\ everSet' = [k \in SettingKeys |-> everSet[k] \cup {modes[k]}]
  /\ UNCHANGED <<admitted, identified, files, script, listFaults>>

-----------------------------------------------------------------------------
\* The timer starts the script.
StartScript ==
  /\ script.pc = "idle"
  /\ script' = [NoRun EXCEPT !.pc = "settings"]
  /\ UNCHANGED <<admitted, identified, setting, files, everSet, listChanges, listFaults>>

\* setting(): a query of its own for every setting; a failed one prints "!".
ReadSetting ==
  /\ script.pc = "settings" /\ script.next \in SettingKeys
  /\ \/ /\ script' = [script EXCEPT !.next = @ + 1, !.modes[script.next] = setting[script.next]]
        /\ UNCHANGED listFaults
     \/ script' = [script EXCEPT !.next = @ + 1] /\ Fails
  /\ UNCHANGED <<admitted, identified, setting, files, everSet, listChanges>>

\* A setting that could not be read is taken for a missing one.
UnreadableMeansMissing ==
  /\ script.pc = "settings" /\ script.next \notin SettingKeys
  /\ hbbsSettings' = [k \in SettingKeys |->
       IF script.modes[k] = Unreadable THEN DefaultMode ELSE script.modes[k]]
  /\ script' = [NoRun EXCEPT !.pc = "keys"]
  /\ UNCHANGED <<admitted, identified, setting, approvedKeys, approvedIds, everSet, listChanges, listFaults>>

\* One unreadable setting leaves all of hbbs's as they are, and so does a failed
\* write.
WriteSettings ==
  /\ script.pc = "settings" /\ script.next \notin SettingKeys
  /\ \/ /\ hbbsSettings' = IF \E k \in SettingKeys : script.modes[k] = Unreadable
                             THEN hbbsSettings ELSE script.modes
        /\ UNCHANGED listFaults
     \/ UNCHANGED hbbsSettings /\ Fails
  /\ script' = [NoRun EXCEPT !.pc = "keys"]
  /\ UNCHANGED <<admitted, identified, setting, approvedKeys, approvedIds, everSet, listChanges>>

\* An empty answer is taken for a failed query, as it is for the ids.
KeepKeysOnEmpty ==
  /\ script.pc = "keys"
  /\ script' = IF admitted \cap identified = {} THEN [script EXCEPT !.pc = "ids"]
               ELSE [script EXCEPT !.pc = "swapkeys", !.held = admitted \cap identified]
  /\ UNCHANGED <<admitted, identified, setting, files, everSet, listChanges, listFaults>>

\* The keys of approved devices; a failed query keeps the list, and a temporary
\* file that cannot be made ends the script (set -e).
QueryKeys ==
  /\ script.pc = "keys"
  /\ \/ /\ script' = [script EXCEPT !.pc = "swapkeys", !.held = admitted \cap identified]
        /\ UNCHANGED listFaults
     \/ script' = [script EXCEPT !.pc = "ids"] /\ Fails
     \/ script' = NoRun /\ Fails
  /\ UNCHANGED <<admitted, identified, setting, files, everSet, listChanges>>

\* A list that is the same is only touched, and a failed touch ends the script.
SwapKeys ==
  /\ script.pc = "swapkeys"
  /\ \/ /\ approvedKeys' = script.held /\ UNCHANGED listFaults
        /\ script' = [script EXCEPT !.pc = "ids", !.held = {}]
     \/ /\ UNCHANGED approvedKeys /\ Fails
        /\ script' = IF script.held = approvedKeys THEN NoRun
                     ELSE [script EXCEPT !.pc = "ids", !.held = {}]
  /\ UNCHANGED <<admitted, identified, setting, hbbsSettings, approvedIds, everSet, listChanges>>

\* The ids; a query that fails or finds nothing ends the script.
QueryIds ==
  /\ script.pc = "ids"
  /\ \/ /\ script' = IF admitted = {} THEN NoRun
                     ELSE [script EXCEPT !.pc = "swapids", !.held = admitted]
        /\ UNCHANGED listFaults
     \/ script' = NoRun /\ Fails
  /\ UNCHANGED <<admitted, identified, setting, files, everSet, listChanges>>

SwapIds ==
  /\ script.pc = "swapids"
  /\ \/ approvedIds' = script.held /\ UNCHANGED listFaults
     \/ UNCHANGED approvedIds /\ Fails
  /\ script' = NoRun
  /\ UNCHANGED <<admitted, identified, setting, hbbsSettings, approvedKeys, everSet, listChanges>>

ScriptGoesOn == ReadSetting \/ WriteSettings \/ QueryKeys \/ SwapKeys \/ QueryIds \/ SwapIds

ListNext ==
  \/ \E i \in Ids : Dismiss(i) \/ Admit(i) \/ Identify(i)
  \/ \E modes \in [SettingKeys -> Modes] : ChangeSettings(modes)
  \/ StartScript \/ ScriptGoesOn

ListSpec == ListInit /\ [][ListNext]_listVars

-----------------------------------------------------------------------------
\* hbbs has the settings, the keys of the approved devices and no others, and
\* likewise their ids, unless no device is approved.
InStep ==
  /\ hbbsSettings = setting
  /\ approvedKeys = admitted \cap identified
  /\ admitted = {} \/ approvedIds = admitted

\* The timer runs the script while something is out of step (it does so all
\* the time, but then has nothing to write), and a run comes to its end.
ListFairness ==
  /\ WF_listVars(~InStep /\ StartScript)
  /\ WF_listVars(ScriptGoesOn)

\* "hbbs keeps its current settings rather than falling back": each of hbbs's
\* settings is one that RDS stood for at some time, whichever queries failed and
\* whatever was changed between them.  As a whole they may be a mix of an older
\* and a newer change that RDS never stood for, until the next run.
NeverFallsBack == \A k \in SettingKeys : hbbsSettings[k] \in everSet[k]

\* Whatever failed, hbbs gets in step with the directory once decisions stop.
\* The last device to be shut out stays among the ids, because an empty answer
\* is not believed, but not among the keys.
ListsCatchUp == <>[]InStep
=============================================================================
