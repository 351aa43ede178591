----------------------------- MODULE HealthAlerts -----------------------------
(***************************************************************************)
(* Server-health alerts of one condition (mobile_api.py): watchers report  *)
(* its current state over and over, and only a change is told to the       *)
(* operators, by push and then by mail, after the change is committed.     *)
(* A watcher that gives up waiting reports again while its earlier report  *)
(* is still under way, so reports of one condition overlap.                *)
(***************************************************************************)
EXTENDS Naturals, FiniteSets

CONSTANTS
  Watchers,       \* reports that can be under way at a time
  MaxReports,     \* reports in all
  MaxAlertFaults  \* lost mails and restarts of the API, in all

ASSUME AlertAssumption == IsFiniteSet(Watchers) /\ MaxReports \in Nat /\ MaxAlertFaults \in Nat

VARIABLES
  condition,   \* health_alert_state: no row, inactive or active
  report,      \* reports under way
  mails,       \* mails sent so far, of an issue and of its end
  reports, alertFaults,
  doubleFirst  \* history: two reports both found no row

alertVars == <<condition, report, mails, reports, alertFaults, doubleFirst>>

NoReport == [pc |-> "idle", bad |-> FALSE]

AlertTypeOK ==
  /\ condition \in {"none", "fine", "bad"}
  /\ report \in [Watchers -> [pc : {"write", "push", "mail"}, bad : BOOLEAN] \cup {NoReport}]
  /\ mails \in [issue : 0..MaxReports, end : 0..MaxReports]
  /\ reports \in 0..MaxReports /\ alertFaults \in 0..MaxAlertFaults
  /\ doubleFirst \in BOOLEAN

AlertInit ==
  /\ condition = "none"
  /\ report = [w \in Watchers |-> NoReport]
  /\ mails = [issue |-> 0, end |-> 0]
  /\ reports = 0 /\ alertFaults = 0
  /\ doubleFirst = FALSE

-----------------------------------------------------------------------------
State(bad) == IF bad THEN "bad" ELSE "fine"

\* A first report counts as a change whatever it says.
AnyFirstIsChange(previous, bad) == previous # State(bad)

\* state_changed: a healthy first report only makes the row.
StateChanged(previous, bad) == IF previous = "none" THEN bad ELSE previous # State(bad)

\* After the commit: the operators are told of a change, and of nothing else.
Goes(w, bad, changed) ==
  report' = [report EXCEPT ![w] = IF changed THEN [pc |-> "push", bad |-> bad] ELSE NoReport]

\* _record_health_event with the row on file: SELECT ... FOR UPDATE makes the
\* comparison and the write one step.
RecordLocked(w, bad) ==
  /\ report[w].pc = "idle" /\ reports < MaxReports
  /\ condition # "none"
  /\ condition' = State(bad)
  /\ Goes(w, bad, StateChanged(condition, bad))
  /\ reports' = reports + 1
  /\ UNCHANGED <<mails, alertFaults, doubleFirst>>

\* Without a row there is nothing to lock: the report is compared ...
FindNoRow(w, bad) ==
  /\ report[w].pc = "idle" /\ reports < MaxReports
  /\ condition = "none"
  /\ report' = [report EXCEPT ![w] = [pc |-> "write", bad |-> bad]]
  /\ reports' = reports + 1
  /\ UNCHANGED <<condition, mails, alertFaults, doubleFirst>>

\* ... and then written, over the row of a report that was faster.
UpsertFirst(w) ==
  /\ report[w].pc = "write"
  /\ condition' = State(report[w].bad)
  /\ Goes(w, report[w].bad, StateChanged("none", report[w].bad))
  /\ doubleFirst' = (doubleFirst \/ condition # "none")
  /\ UNCHANGED <<mails, reports, alertFaults>>

\* send_push_to_all_registered: phones hear of it or not, the mail follows.
PushToAll(w) ==
  /\ report[w].pc = "push"
  /\ report' = [report EXCEPT ![w].pc = "mail"]
  /\ UNCHANGED <<condition, mails, reports, alertFaults, doubleFirst>>

\* send_email_handler: an error is swallowed.
SendAlertMail(w) ==
  /\ report[w].pc = "mail"
  /\ \/ /\ mails' = IF report[w].bad THEN [mails EXCEPT !.issue = @ + 1]
                                     ELSE [mails EXCEPT !.end = @ + 1]
        /\ UNCHANGED alertFaults
     \/ /\ alertFaults < MaxAlertFaults /\ alertFaults' = alertFaults + 1
        /\ UNCHANGED mails
  /\ report' = [report EXCEPT ![w] = NoReport]
  /\ UNCHANGED <<condition, reports, doubleFirst>>

\* The API restarts: what was committed and not yet told is never told.
AlertRestart ==
  /\ alertFaults < MaxAlertFaults /\ alertFaults' = alertFaults + 1
  /\ report' = [w \in Watchers |-> NoReport]
  /\ UNCHANGED <<condition, mails, reports, doubleFirst>>

AlertNext ==
  \/ \E w \in Watchers :
       \/ \E bad \in BOOLEAN : RecordLocked(w, bad) \/ FindNoRow(w, bad)
       \/ UpsertFirst(w) \/ PushToAll(w) \/ SendAlertMail(w)
  \/ AlertRestart

AlertSpec == AlertInit /\ [][AlertNext]_alertVars

-----------------------------------------------------------------------------
Untold(bad) == Cardinality({w \in Watchers : report[w].pc \in {"push", "mail"} /\ report[w].bad = bad})

\* "a push is only sent when a row's is_active value actually changes": the
\* mails sent and about to be sent are one for every change, so that an issue
\* that is over has been closed and one that is open is announced once, in
\* whatever order overlapping reports send them.  Two first reports that miss
\* each other, a lost mail and a restart are excepted.
MailsAddUp ==
  alertFaults = 0 /\ ~doubleFirst =>
    mails.issue + Untold(TRUE)
      = mails.end + Untold(FALSE) + (IF condition = "bad" THEN 1 ELSE 0)
=============================================================================
