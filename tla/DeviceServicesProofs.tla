------------------------ MODULE DeviceServicesProofs ------------------------
(***************************************************************************)
(* The services side by side, for every value of the constants.  First what*)
(* is left of the single ones - the mails of HealthAlerts, the files of    *)
(* RendezvousLists, the versions of DeviceSync - and then that each service*)
(* behaves under DeviceServices as it does alone, so that what is proved of*)
(* each holds of all of them together.                                     *)
(*                                                                         *)
(* MailsAddUp is inductive together with the types; that the counters stay *)
(* in their bounds needs Counted: every mail and every report under way    *)
(* was a report once.  NeverFallsBack needs that the script holds only a   *)
(* setting that RDS stood for (ReadOnce).                                  *)
(***************************************************************************)
EXTENDS DeviceServices, RustDropProofs, ManagedChatProofs, EdgeCertsProofs,
  SealedTransportProofs, FiniteSetTheorems, TLAPS

-----------------------------------------------------------------------------
(* Health alerts                                                             *)

ReportRow == [pc : {"write", "push", "mail"}, bad : BOOLEAN]

\* Reports under way, and those that have still to tell of an issue or its end.
Busy == {w \in Watchers : report[w].pc # "idle"}
Out(bad) == {w \in Watchers : report[w].pc \in {"push", "mail"} /\ report[w].bad = bad}

\* Mails sent and reports under way are at most the reports that were made.
Counted == mails.issue + mails.end + Cardinality(Busy) <= reports

AlertInv == AlertTypeOK /\ Counted /\ MailsAddUp

\* Adding or removing one watcher changes a count by one or not at all.
LEMMA CountOne ==
  ASSUME NEW S \in SUBSET Watchers, NEW w
  PROVE  /\ Cardinality(S) \in Nat
         /\ Cardinality(S \cup {w}) = IF w \in S THEN Cardinality(S) ELSE Cardinality(S) + 1
         /\ w \in S => Cardinality(S) = Cardinality(S \ {w}) + 1
         /\ w \notin S => S \ {w} = S
         /\ Cardinality(S \ {w}) \in Nat
<1>1. IsFiniteSet(S) /\ IsFiniteSet(S \ {w})
  BY AlertAssumption, FS_Subset DEF AlertAssumption
<1>2. Cardinality(S) \in Nat /\ Cardinality(S \ {w}) \in Nat
  BY <1>1, FS_CardinalityType
<1>3. Cardinality(S \cup {w}) = IF w \in S THEN Cardinality(S) ELSE Cardinality(S) + 1
  BY <1>1, FS_AddElement
<1>4. w \in S => Cardinality(S) = Cardinality(S \ {w}) + 1
  BY <1>1, <1>2, FS_RemoveElement
<1> QED BY <1>2, <1>3, <1>4

\* What becomes of the sets when the report of one watcher goes on.
LEMMA ReportGoesOn ==
  ASSUME AlertTypeOK, NEW w \in Watchers, NEW r \in ReportRow \cup {NoReport},
         report' = [report EXCEPT ![w] = r]
  PROVE  /\ report' \in [Watchers -> ReportRow \cup {NoReport}]
         /\ Busy' = IF r = NoReport THEN Busy \ {w} ELSE Busy \cup {w}
         /\ \A bad \in BOOLEAN :
              Out(bad)' = IF r.pc \in {"push", "mail"} /\ r.bad = bad THEN Out(bad) \cup {w}
                                                                      ELSE Out(bad) \ {w}
<1>1. /\ report' \in [Watchers -> ReportRow \cup {NoReport}]
      /\ report'[w] = r /\ \A v \in Watchers : v # w => report'[v] = report[v]
  BY DEF AlertTypeOK, ReportRow
<1>2. r.pc = "idle" <=> r = NoReport
  BY DEF ReportRow, NoReport
<1>3. Busy' = IF r = NoReport THEN Busy \ {w} ELSE Busy \cup {w}
  BY <1>1, <1>2 DEF Busy
<1>4. ASSUME NEW bad \in BOOLEAN
      PROVE  Out(bad)' = IF r.pc \in {"push", "mail"} /\ r.bad = bad THEN Out(bad) \cup {w}
                                                                     ELSE Out(bad) \ {w}
  <2>1. \A v \in Watchers : v # w => (v \in Out(bad)' <=> v \in Out(bad))
    BY <1>1 DEF Out
  <2>2. w \in Out(bad)' <=> r.pc \in {"push", "mail"} /\ r.bad = bad
    BY <1>1 DEF Out
  <2>3. Out(bad) \subseteq Watchers /\ Out(bad)' \subseteq Watchers
    BY DEF Out
  <2> QED BY <2>1, <2>2, <2>3
<1> QED BY <1>1, <1>3, <1>4

LEMMA AlertStarts == AlertInit => AlertInv
<1> SUFFICES ASSUME AlertInit PROVE AlertInv
  OBVIOUS
<1>1. Busy = {} /\ Out(TRUE) = {} /\ Out(FALSE) = {}
  BY DEF AlertInit, Busy, Out, NoReport
<1>2. Cardinality({}) = 0
  BY FS_EmptySet
<1>3. AlertTypeOK
  <2>1. 0 \in 0..MaxReports /\ 0 \in 0..MaxAlertFaults
    BY AlertAssumption DEF AlertAssumption
  <2>2. /\ condition \in {"none", "fine", "bad"} /\ mails \in [issue : 0..MaxReports, end : 0..MaxReports]
        /\ report \in [Watchers -> ReportRow \cup {NoReport}]
    BY <2>1 DEF AlertInit
  <2>3. doubleFirst \in BOOLEAN
    BY DEF AlertInit
  <2> QED BY <2>1, <2>2, <2>3 DEF AlertInit, AlertTypeOK, ReportRow
<1>4. Counted
  BY <1>1, <1>2 DEF AlertInit, Counted
<1>5. MailsAddUp
  BY <1>1, <1>2 DEF AlertInit, MailsAddUp, Untold, Out
<1> QED BY <1>3, <1>4, <1>5 DEF AlertInv

\* The balance of MailsAddUp, as a number for each side.
Announced == mails.issue + Cardinality(Out(TRUE))
Closed == mails.end + Cardinality(Out(FALSE))
Open == IF condition = "bad" THEN 1 ELSE 0

LEMMA Balance == MailsAddUp <=> (alertFaults = 0 /\ ~doubleFirst => Announced = Closed + Open)
BY DEF MailsAddUp, Untold, Announced, Closed, Open, Out

LEMMA Sets ==
  /\ Busy \in SUBSET Watchers /\ Out(TRUE) \in SUBSET Watchers /\ Out(FALSE) \in SUBSET Watchers
  /\ Out(TRUE) \subseteq Busy /\ Out(FALSE) \subseteq Busy
BY DEF Busy, Out

LEMMA Types ==
  ASSUME AlertTypeOK
  PROVE  /\ mails.issue \in Nat /\ mails.end \in Nat /\ reports \in Nat /\ MaxReports \in Nat
         /\ Cardinality(Busy) \in Nat /\ Cardinality(Out(TRUE)) \in Nat /\ Cardinality(Out(FALSE)) \in Nat
         /\ \A w \in Watchers : report[w] \in ReportRow \cup {NoReport} /\ report[w].bad \in BOOLEAN
<1>1. mails.issue \in Nat /\ mails.end \in Nat /\ reports \in Nat /\ MaxReports \in Nat
  BY AlertAssumption DEF AlertAssumption, AlertTypeOK
<1>2. ASSUME NEW w \in Watchers
      PROVE  report[w] \in ReportRow \cup {NoReport} /\ report[w].bad \in BOOLEAN
  <2>1. report[w] \in ReportRow \cup {NoReport}
    BY DEF AlertTypeOK, ReportRow
  <2>2. CASE report[w] \in ReportRow
    BY <2>1, <2>2 DEF ReportRow
  <2>3. CASE report[w] = NoReport
    <3>1. report[w].bad = FALSE
      BY <2>3 DEF NoReport
    <3> QED BY <2>1, <3>1
  <2> QED BY <2>1, <2>2, <2>3
<1> QED BY <1>1, <1>2, CountOne, Sets

\* A report that is compared and written, with the row or without: the
\* operators are to be told if the state that is on file changes.
LEMMA ChangeStep ==
  ASSUME AlertInv, NEW w \in Watchers, NEW bad \in BOOLEAN, NEW changed \in BOOLEAN,
         report[w].pc \in {"idle", "write"}, Goes(w, bad, changed), condition' = State(bad),
         \/ report[w].pc = "write" /\ reports' = reports
         \/ report[w].pc = "idle" /\ reports < MaxReports /\ reports' = reports + 1,
         UNCHANGED <<mails, alertFaults>>, doubleFirst' \in BOOLEAN,
         ~doubleFirst' => /\ ~doubleFirst
                          /\ IF bad THEN changed <=> condition # "bad" ELSE changed <=> condition = "bad"
  PROVE  AlertInv'
<1> DEFINE r == IF changed THEN [pc |-> "push", bad |-> bad] ELSE NoReport
<1>1. r \in ReportRow \cup {NoReport} /\ report' = [report EXCEPT ![w] = r]
  BY DEF Goes, ReportRow
<1>2. r = NoReport <=> ~changed
  BY DEF NoReport
<1>3. r.pc \in {"push", "mail"} <=> changed
  BY DEF NoReport
<1>4. changed => r.bad = bad
  OBVIOUS
<1> HIDE DEF r
<1>5. /\ report' \in [Watchers -> ReportRow \cup {NoReport}]
      /\ Busy' = IF changed THEN Busy \cup {w} ELSE Busy \ {w}
      /\ Out(TRUE)' = IF changed /\ bad THEN Out(TRUE) \cup {w} ELSE Out(TRUE) \ {w}
      /\ Out(FALSE)' = IF changed /\ ~bad THEN Out(FALSE) \cup {w} ELSE Out(FALSE) \ {w}
  BY <1>1, <1>2, <1>3, <1>4, ReportGoesOn DEF AlertInv
<1>6. w \notin Out(TRUE) /\ w \notin Out(FALSE) /\ (report[w].pc = "write" <=> w \in Busy)
  BY DEF Out, Busy
<1> DEFINE B == Cardinality(Busy)  T == Cardinality(Out(TRUE))  F == Cardinality(Out(FALSE))
<1>7. /\ B' <= IF w \in Busy THEN B ELSE B + 1
      /\ B' \in Nat /\ B \in Nat
  <2>1. /\ B \in Nat /\ Cardinality(Busy \ {w}) \in Nat
        /\ Cardinality(Busy \cup {w}) = IF w \in Busy THEN B ELSE B + 1
        /\ w \in Busy => B = Cardinality(Busy \ {w}) + 1
        /\ w \notin Busy => Cardinality(Busy \ {w}) = B
    BY CountOne, Sets
  <2>2. CASE changed
    <3>1. B' = Cardinality(Busy \cup {w})
      BY <1>5, <2>2
    <3> QED BY <2>1, <3>1
  <2>3. CASE ~changed
    <3>1. B' = Cardinality(Busy \ {w})
      BY <1>5, <2>3
    <3> QED BY <2>1, <3>1
  <2> QED BY <2>2, <2>3
<1>8. /\ T' = IF changed /\ bad THEN T + 1 ELSE T
      /\ F' = IF changed /\ ~bad THEN F + 1 ELSE F
  <2>1. /\ Cardinality(Out(TRUE) \cup {w}) = T + 1 /\ Out(TRUE) \ {w} = Out(TRUE)
        /\ Cardinality(Out(FALSE) \cup {w}) = F + 1 /\ Out(FALSE) \ {w} = Out(FALSE)
    BY <1>6, CountOne, Sets
  <2>2. CASE changed /\ bad
    BY <1>5, <2>1, <2>2
  <2>3. CASE changed /\ ~bad
    BY <1>5, <2>1, <2>3
  <2>4. CASE ~changed
    BY <1>5, <2>1, <2>4
  <2> QED BY <2>2, <2>3, <2>4
<1>9. AlertTypeOK'
  <2>1. condition' \in {"none", "fine", "bad"}
    BY DEF State
  <2>2. reports' \in 0..MaxReports
    <3>1. reports \in 0..MaxReports
      BY DEF AlertInv, AlertTypeOK
    <3>2. MaxReports \in Nat
      BY Types DEF AlertInv
    <3> QED BY <3>1, <3>2
  <2> QED BY <1>5, <2>1, <2>2 DEF AlertInv, AlertTypeOK, ReportRow
<1>10. Counted'
  <2>1. B' <= B + (reports' - reports) /\ reports' \in Nat
    BY <1>6, <1>7, Types DEF AlertInv
  <2>2. mails.issue + mails.end + B <= reports
    BY DEF AlertInv, Counted
  <2>3. mails.issue + mails.end + B' <= reports'
    <3> HIDE DEF B
    <3> QED BY <1>7, <2>1, <2>2, Types DEF AlertInv
  <2> QED BY <2>3 DEF Counted
<1>11. MailsAddUp'
  <2> SUFFICES ASSUME alertFaults = 0, ~doubleFirst'
               PROVE  (Announced = Closed + Open)'
    BY Balance DEF AlertInv, MailsAddUp, Untold, Announced, Closed, Open, Out
  <2>1. Announced = Closed + Open
    BY Balance DEF AlertInv
  <2>2. Open' = IF bad THEN 1 ELSE 0
    BY DEF Open, State
  <2>3. /\ mails.issue + T = mails.end + F + Open
        /\ T \in Nat /\ F \in Nat /\ mails.issue \in Nat /\ mails.end \in Nat
    BY <2>1, Types DEF AlertInv, Announced, Closed
  <2>4. changed => Open = IF bad THEN 0 ELSE 1
    BY DEF Open
  <2>5. ~changed => Open = IF bad THEN 1 ELSE 0
    BY DEF Open
  <2>6. mails.issue + T' = mails.end + F' + Open'
    <3> HIDE DEF T, F
    <3>1. CASE changed /\ bad
      BY <1>8, <2>2, <2>3, <2>4, <3>1
    <3>2. CASE changed /\ ~bad
      BY <1>8, <2>2, <2>3, <2>4, <3>2
    <3>3. CASE ~changed
      BY <1>8, <2>2, <2>3, <2>5, <3>3
    <3> QED BY <3>1, <3>2, <3>3
  <2> QED BY <2>6 DEF Announced, Closed
<1> QED BY <1>9, <1>10, <1>11 DEF AlertInv

LEMMA FindNoRowStep ==
  ASSUME AlertInv, NEW w \in Watchers, NEW bad \in BOOLEAN, FindNoRow(w, bad)
  PROVE  AlertInv'
<1> DEFINE r == [pc |-> "write", bad |-> bad]
<1>1. /\ r \in ReportRow \cup {NoReport} /\ r # NoReport /\ r.pc = "write"
      /\ report' = [report EXCEPT ![w] = r] /\ report[w].pc = "idle"
      /\ reports < MaxReports /\ reports' = reports + 1
      /\ UNCHANGED <<condition, mails, alertFaults, doubleFirst>>
  BY DEF ReportRow, NoReport, FindNoRow
<1> HIDE DEF r
<1>2. w \notin Busy /\ w \notin Out(TRUE) /\ w \notin Out(FALSE)
  BY <1>1 DEF Busy, Out
<1>3. /\ report' \in [Watchers -> ReportRow \cup {NoReport}]
      /\ Busy' = Busy \cup {w} /\ Out(TRUE)' = Out(TRUE) /\ Out(FALSE)' = Out(FALSE)
  <2>1. /\ report' \in [Watchers -> ReportRow \cup {NoReport}] /\ Busy' = Busy \cup {w}
        /\ Out(TRUE)' = Out(TRUE) \ {w} /\ Out(FALSE)' = Out(FALSE) \ {w}
    BY <1>1, ReportGoesOn DEF AlertInv
  <2>2. Out(TRUE) \ {w} = Out(TRUE) /\ Out(FALSE) \ {w} = Out(FALSE)
    BY <1>2
  <2> QED BY <2>1, <2>2
<1>4. Cardinality(Busy)' = Cardinality(Busy) + 1
  BY <1>2, <1>3, CountOne, Sets
<1>5. AlertTypeOK'
  <2>1. reports \in 0..MaxReports
    BY DEF AlertInv, AlertTypeOK
  <2>2. reports' \in 0..MaxReports
    BY <1>1, <2>1, Types DEF AlertInv
  <2> QED BY <1>1, <1>3, <2>2 DEF AlertInv, AlertTypeOK, ReportRow
<1>6. Counted'
  BY <1>1, <1>4, Types DEF AlertInv, Counted
<1>7. MailsAddUp'
  BY <1>1, <1>3 DEF AlertInv, MailsAddUp, Untold, Out
<1> QED BY <1>5, <1>6, <1>7 DEF AlertInv

LEMMA AlertPushStep ==
  ASSUME AlertInv, NEW w \in Watchers, PushToAll(w)
  PROVE  AlertInv'
<1> DEFINE r == [report[w] EXCEPT !.pc = "mail"]
<1>1. /\ report' = [report EXCEPT ![w] = r] /\ report[w].pc = "push"
      /\ UNCHANGED <<condition, mails, reports, alertFaults, doubleFirst>>
  BY DEF PushToAll
<1>2. report[w] \in ReportRow
  BY <1>1, Types DEF AlertInv, NoReport
<1>3. r \in ReportRow /\ r # NoReport /\ r.pc = "mail" /\ r.bad = report[w].bad
  BY <1>2 DEF ReportRow, NoReport
<1> HIDE DEF r
<1>4. w \in Busy /\ \A bad \in BOOLEAN : w \in Out(bad) <=> r.bad = bad
  BY <1>1, <1>3 DEF Busy, Out
<1>5. /\ report' \in [Watchers -> ReportRow \cup {NoReport}]
      /\ Busy' = Busy /\ Out(TRUE)' = Out(TRUE) /\ Out(FALSE)' = Out(FALSE)
  <2>1. /\ report' \in [Watchers -> ReportRow \cup {NoReport}] /\ Busy' = Busy \cup {w}
        /\ \A bad \in BOOLEAN : Out(bad)' = IF r.bad = bad THEN Out(bad) \cup {w} ELSE Out(bad) \ {w}
    BY <1>1, <1>3, ReportGoesOn DEF AlertInv
  <2>2. ASSUME NEW bad \in BOOLEAN PROVE Out(bad)' = Out(bad)
    <3>1. CASE r.bad = bad
      BY <1>4, <2>1, <3>1
    <3>2. CASE r.bad # bad
      BY <1>4, <2>1, <3>2
    <3> QED BY <3>1, <3>2
  <2>3. Busy \cup {w} = Busy
    BY <1>4
  <2> QED BY <2>1, <2>2, <2>3
<1>6. AlertTypeOK'
  BY <1>1, <1>5 DEF AlertInv, AlertTypeOK, ReportRow
<1>7. Counted'
  BY <1>1, <1>5 DEF AlertInv, Counted
<1>8. MailsAddUp'
  BY <1>1, <1>5 DEF AlertInv, MailsAddUp, Untold, Out
<1> QED BY <1>6, <1>7, <1>8 DEF AlertInv

\* A mail that is sent moves from those to be sent to those sent.
LEMMA MailStep ==
  ASSUME AlertInv, NEW w \in Watchers, SendAlertMail(w)
  PROVE  AlertInv'
<1> DEFINE b == report[w].bad
<1>1. /\ report' = [report EXCEPT ![w] = NoReport] /\ report[w].pc = "mail"
      /\ UNCHANGED <<condition, reports, doubleFirst>>
  BY DEF SendAlertMail
<1>2. b \in BOOLEAN /\ NoReport.pc = "idle"
  BY Types DEF AlertInv, NoReport
<1>3. w \in Busy /\ \A bad \in BOOLEAN : w \in Out(bad) <=> b = bad
  BY <1>1 DEF Busy, Out
<1>4. /\ report' \in [Watchers -> ReportRow \cup {NoReport}] /\ Busy' = Busy \ {w}
      /\ Out(TRUE)' = Out(TRUE) \ {w} /\ Out(FALSE)' = Out(FALSE) \ {w}
  BY <1>1, <1>2, ReportGoesOn DEF AlertInv
<1>5. Cardinality(Busy) = Cardinality(Busy)' + 1 /\ Cardinality(Busy)' \in Nat
  BY <1>3, <1>4, CountOne, Sets
<1>6. CASE alertFaults < MaxAlertFaults /\ alertFaults' = alertFaults + 1 /\ UNCHANGED mails
  <2>1. alertFaults \in 0..MaxAlertFaults /\ MaxAlertFaults \in Nat
    BY AlertAssumption DEF AlertAssumption, AlertInv, AlertTypeOK
  <2>2. alertFaults' \in 0..MaxAlertFaults /\ alertFaults' # 0
    BY <1>6, <2>1
  <2>3. AlertTypeOK'
    BY <1>1, <1>4, <1>6, <2>2 DEF AlertInv, AlertTypeOK, ReportRow
  <2>4. Counted'
    BY <1>1, <1>5, <1>6, Types DEF AlertInv, Counted
  <2>5. MailsAddUp'
    BY <2>2 DEF MailsAddUp
  <2> QED BY <2>3, <2>4, <2>5 DEF AlertInv
<1>7. CASE /\ mails' = IF b THEN [mails EXCEPT !.issue = @ + 1] ELSE [mails EXCEPT !.end = @ + 1]
           /\ UNCHANGED alertFaults
  <2>1. /\ mails' \in [issue : Nat, end : Nat]
        /\ mails'.issue = IF b THEN mails.issue + 1 ELSE mails.issue
        /\ mails'.end = IF b THEN mails.end ELSE mails.end + 1
    <3>1. mails \in [issue : Nat, end : Nat]
      BY AlertAssumption DEF AlertAssumption, AlertInv, AlertTypeOK
    <3>2. CASE b
      BY <1>7, <3>1, <3>2
    <3>3. CASE ~b
      BY <1>7, <3>1, <3>3
    <3> QED BY <1>2, <3>2, <3>3
  <2>2. mails'.issue + mails'.end = mails.issue + mails.end + 1
    BY <1>2, <2>1, Types DEF AlertInv
  <2>3. mails'.issue + mails'.end + Cardinality(Busy)' <= reports
    BY <1>5, <2>2, <2>1, Types DEF AlertInv, Counted
  <2>4. mails'.issue \in 0..MaxReports /\ mails'.end \in 0..MaxReports
    <3>1. reports \in 0..MaxReports /\ mails'.issue \in Nat /\ mails'.end \in Nat
      BY <2>1 DEF AlertInv, AlertTypeOK
    <3> QED BY <1>5, <2>3, <3>1, Types DEF AlertInv
  <2>5. AlertTypeOK'
    <3>1. mails' \in [issue : 0..MaxReports, end : 0..MaxReports]
      BY <2>1, <2>4
    <3> QED BY <1>1, <1>4, <1>7, <3>1 DEF AlertInv, AlertTypeOK, ReportRow
  <2>6. Counted'
    BY <1>1, <2>3 DEF Counted
  <2>7. Cardinality(Out(TRUE))' \in Nat /\ Cardinality(Out(FALSE))' \in Nat
    BY <1>4, CountOne, Sets
  <2>8. (mails.issue + Cardinality(Out(TRUE)))' = mails.issue + Cardinality(Out(TRUE))
    <3>1. CASE b
      <4>1. Cardinality(Out(TRUE)) = Cardinality(Out(TRUE) \ {w}) + 1
        BY <1>2, <1>3, <3>1, CountOne, Sets
      <4>2. Cardinality(Out(TRUE))' = Cardinality(Out(TRUE) \ {w})
        BY <1>4
      <4>3. mails'.issue = mails.issue + 1 /\ mails.issue \in Nat
        BY <2>1, <3>1, Types DEF AlertInv
      <4> DEFINE x == Cardinality(Out(TRUE))
                 y == Cardinality(Out(TRUE) \ {w})
      <4>4. x = y + 1 /\ x' = y /\ x' \in Nat
        BY <2>7, <4>1, <4>2
      <4>5. mails'.issue + x' = mails.issue + x
        <5> HIDE DEF x, y
        <5> QED BY <4>3, <4>4
      <4> QED BY <4>5
    <3>2. CASE ~b
      <4>1. Out(TRUE)' = Out(TRUE)
        BY <1>2, <1>3, <1>4, <3>2
      <4>2. mails'.issue = mails.issue
        BY <2>1, <3>2
      <4> QED BY <4>1, <4>2
    <3> QED BY <1>2, <3>1, <3>2
  <2>9. (mails.end + Cardinality(Out(FALSE)))' = mails.end + Cardinality(Out(FALSE))
    <3>1. CASE ~b
      <4>1. Cardinality(Out(FALSE)) = Cardinality(Out(FALSE) \ {w}) + 1
        BY <1>2, <1>3, <3>1, CountOne, Sets
      <4>2. Cardinality(Out(FALSE))' = Cardinality(Out(FALSE) \ {w})
        BY <1>4
      <4>3. mails'.end = mails.end + 1 /\ mails.end \in Nat
        BY <2>1, <3>1, Types DEF AlertInv
      <4> DEFINE x == Cardinality(Out(FALSE))
                 y == Cardinality(Out(FALSE) \ {w})
      <4>4. x = y + 1 /\ x' = y /\ x' \in Nat
        BY <2>7, <4>1, <4>2
      <4>5. mails'.end + x' = mails.end + x
        <5> HIDE DEF x, y
        <5> QED BY <4>3, <4>4
      <4> QED BY <4>5
    <3>2. CASE b
      <4>1. Out(FALSE)' = Out(FALSE)
        BY <1>2, <1>3, <1>4, <3>2
      <4>2. mails'.end = mails.end
        BY <2>1, <3>2
      <4> QED BY <4>1, <4>2
    <3> QED BY <1>2, <3>1, <3>2
  <2>10. MailsAddUp'
    <3> SUFFICES ASSUME alertFaults = 0, ~doubleFirst PROVE (Announced = Closed + Open)'
      BY <1>1, <1>7 DEF MailsAddUp, Untold, Announced, Closed, Open, Out
    <3>1. Announced = Closed + Open
      BY Balance DEF AlertInv
    <3>2. Announced' = Announced /\ Closed' = Closed /\ Open' = Open
      BY <1>1, <2>8, <2>9 DEF Announced, Closed, Open
    <3> QED BY <3>1, <3>2
  <2> QED BY <2>5, <2>6, <2>10 DEF AlertInv
<1> QED BY <1>6, <1>7 DEF SendAlertMail

LEMMA AlertRestartStep ==
  ASSUME AlertInv, AlertRestart
  PROVE  AlertInv'
<1>1. /\ alertFaults < MaxAlertFaults /\ alertFaults' = alertFaults + 1
      /\ report' = [w \in Watchers |-> NoReport]
      /\ UNCHANGED <<condition, mails, reports, doubleFirst>>
  BY DEF AlertRestart
<1>2. alertFaults \in 0..MaxAlertFaults /\ MaxAlertFaults \in Nat
  BY AlertAssumption DEF AlertAssumption, AlertInv, AlertTypeOK
<1>3. alertFaults' \in 0..MaxAlertFaults /\ alertFaults' # 0
  BY <1>1, <1>2
<1>4. Busy' = {}
  BY <1>1 DEF Busy, NoReport
<1>5. Cardinality(Busy)' = 0
  BY <1>4, FS_EmptySet
<1>6. AlertTypeOK'
  <2>1. report' \in [Watchers -> ReportRow \cup {NoReport}]
    BY <1>1
  <2> QED BY <1>1, <1>3, <2>1 DEF AlertInv, AlertTypeOK, ReportRow
<1>7. Counted'
  BY <1>1, <1>5, Types DEF AlertInv, Counted
<1>8. MailsAddUp'
  BY <1>3 DEF MailsAddUp
<1> QED BY <1>6, <1>7, <1>8 DEF AlertInv

LEMMA AlertKept == AlertInv /\ [AlertNext]_alertVars => AlertInv'
<1> SUFFICES ASSUME AlertInv, [AlertNext]_alertVars PROVE AlertInv'
  OBVIOUS
<1>1. ASSUME NEW w \in Watchers, NEW bad \in BOOLEAN, RecordLocked(w, bad)
      PROVE  AlertInv'
  <2> DEFINE changed == StateChanged(condition, bad)
  <2>1. /\ report[w].pc = "idle" /\ reports < MaxReports /\ reports' = reports + 1
        /\ condition # "none" /\ condition' = State(bad) /\ Goes(w, bad, changed)
        /\ UNCHANGED <<mails, alertFaults, doubleFirst>>
    BY <1>1 DEF RecordLocked
  <2>2. condition \in {"fine", "bad"} /\ doubleFirst' \in BOOLEAN
    BY <2>1 DEF AlertInv, AlertTypeOK
  <2>3. changed \in BOOLEAN /\ IF bad THEN changed <=> condition # "bad" ELSE changed <=> condition = "bad"
    BY <2>1, <2>2 DEF StateChanged, State
  <2> HIDE DEF changed
  <2> QED BY <2>1, <2>2, <2>3, ChangeStep
<1>2. ASSUME NEW w \in Watchers, UpsertFirst(w)
      PROVE  AlertInv'
  <2> DEFINE bad == report[w].bad
             changed == StateChanged("none", bad)
  <2>1. /\ report[w].pc = "write" /\ reports' = reports /\ condition' = State(bad) /\ Goes(w, bad, changed)
        /\ UNCHANGED <<mails, alertFaults>> /\ doubleFirst' = (doubleFirst \/ condition # "none")
    BY <1>2 DEF UpsertFirst
  <2>2. bad \in BOOLEAN
    BY Types DEF AlertInv
  <2>3. changed \in BOOLEAN /\ (changed <=> bad)
    BY <2>2 DEF StateChanged
  <2> HIDE DEF bad, changed
  <2>4. /\ doubleFirst' \in BOOLEAN
        /\ ~doubleFirst' => ~doubleFirst /\ condition = "none"
    BY <2>1
  <2>5. ~doubleFirst' => /\ ~doubleFirst
                         /\ IF bad THEN changed <=> condition # "bad" ELSE changed <=> condition = "bad"
    BY <2>3, <2>4
  <2> QED BY <2>1, <2>2, <2>3, <2>4, <2>5, ChangeStep
<1>3. CASE UNCHANGED alertVars
  BY <1>3 DEF alertVars, AlertInv, AlertTypeOK, Counted, Busy, MailsAddUp, Untold
<1> QED
  BY <1>1, <1>2, <1>3, FindNoRowStep, AlertPushStep, MailStep, AlertRestartStep DEF AlertNext

\* Overlapping reports of a condition (_record_health_event) send one mail for
\* every change of its row: what was announced and not closed is what is on file.
THEOREM EveryChangeToldOnce == AlertSpec => []MailsAddUp
<1>1. AlertInv => MailsAddUp
  BY DEF AlertInv
<1> QED BY <1>1, AlertStarts, AlertKept, PTL DEF AlertSpec

\* No more mails are sent than reports were made.
THEOREM AlertTypes == AlertSpec => []AlertTypeOK
<1>1. AlertInv => AlertTypeOK
  BY DEF AlertInv
<1> QED BY <1>1, AlertStarts, AlertKept, PTL DEF AlertSpec

-----------------------------------------------------------------------------
(* The lists for hbbs                                                        *)

\* RDS stood for each setting that is on file and for each that the script read.
ReadOnce ==
  \A k \in SettingKeys : setting[k] \in everSet[k] /\ script.modes[k] \in everSet[k] \cup {Unreadable}

ListInv == ListTypeOK /\ ReadOnce /\ NeverFallsBack

RunRow == [pc : {"idle", "settings", "keys", "swapkeys", "ids", "swapids"},
           next : 1..SettingCount + 1, modes : [SettingKeys -> Modes \cup {Unreadable}],
           held : SUBSET Ids]

\* Settings read so far that RDS stood for.
Stood(modes) == \A k \in SettingKeys : modes[k] \in everSet[k] \cup {Unreadable}

LEMMA FaultsCounted ==
  ASSUME ListTypeOK
  PROVE  /\ Fails \/ UNCHANGED listFaults => listFaults' \in 0..MaxListFaults
         /\ Changes => listChanges' \in 0..MaxListChanges
<1>1. /\ MaxListFaults \in Nat /\ MaxListChanges \in Nat
      /\ listFaults \in 0..MaxListFaults /\ listChanges \in 0..MaxListChanges
  BY ListAssumption DEF ListAssumption, ListTypeOK
<1> QED BY <1>1 DEF Fails, Changes

\* Decisions, key updates and changes of settings.
LEMMA ChangesKeepList ==
  ASSUME ListInv, \/ \E i \in Ids : Dismiss(i) \/ Admit(i) \/ Identify(i)
                  \/ \E modes \in [SettingKeys -> Modes] : ChangeSettings(modes)
  PROVE  ListInv'
<1>1. UNCHANGED <<files, script, listFaults>> /\ Changes
  BY DEF Dismiss, Admit, Identify, ChangeSettings
<1>2. listChanges' \in 0..MaxListChanges
  BY <1>1, FaultsCounted DEF ListInv
<1>3. admitted' \subseteq Ids /\ identified' \subseteq Ids
  BY DEF ListInv, ListTypeOK, Dismiss, Admit, Identify, ChangeSettings
<1>4. /\ setting' \in [SettingKeys -> Modes] /\ everSet' \in [SettingKeys -> SUBSET Modes]
      /\ \A k \in SettingKeys : everSet[k] \subseteq everSet'[k] /\ setting'[k] \in everSet'[k]
  <2>1. ASSUME NEW modes \in [SettingKeys -> Modes], ChangeSettings(modes) PROVE <1>4!:
    BY <2>1 DEF ListInv, ListTypeOK, ChangeSettings
  <2>2. CASE UNCHANGED <<setting, everSet>>
    BY <2>2 DEF ListInv, ListTypeOK, ReadOnce
  <2> QED BY <2>1, <2>2 DEF Dismiss, Admit, Identify
<1>5. ListTypeOK'
  BY <1>1, <1>2, <1>3, <1>4 DEF ListInv, ListTypeOK, files
<1>6. ReadOnce' /\ NeverFallsBack'
  BY <1>1, <1>4 DEF ListInv, ReadOnce, NeverFallsBack, files
<1> QED BY <1>5, <1>6 DEF ListInv

\* A step of the script writes what it holds, or leaves the file alone.
LEMMA ScriptKeepsList ==
  ASSUME ListInv, StartScript \/ ScriptGoesOn
  PROVE  ListInv'
<1>1. UNCHANGED <<admitted, identified, setting, everSet, listChanges>>
  BY DEF StartScript, ScriptGoesOn, ReadSetting, WriteSettings, QueryKeys, SwapKeys, QueryIds, SwapIds
<1>2. listFaults' \in 0..MaxListFaults
  BY FaultsCounted
     DEF ListInv, StartScript, ScriptGoesOn, ReadSetting, WriteSettings, QueryKeys, SwapKeys, QueryIds, SwapIds
<1>3. /\ script \in RunRow /\ Stood(script.modes) /\ script.held \subseteq Ids
      /\ everSet \in [SettingKeys -> SUBSET Modes] /\ \A k \in SettingKeys : setting[k] \in everSet[k]
  BY DEF ListInv, ListTypeOK, ReadOnce, RunRow, Stood
<1>4. NoRun \in RunRow /\ Stood(NoRun.modes)
  <2>1. 1 \in 1..SettingCount + 1
    BY ListAssumption DEF ListAssumption
  <2> QED BY <2>1 DEF NoRun, RunRow, Stood
<1>5. /\ hbbsSettings \in [SettingKeys -> Modes] /\ \A k \in SettingKeys : hbbsSettings[k] \in everSet[k]
      /\ approvedKeys \subseteq Ids /\ approvedIds \subseteq Ids /\ admitted \subseteq Ids
  BY DEF ListInv, ListTypeOK, NeverFallsBack
<1>6. /\ script' \in RunRow /\ Stood(script'.modes)
      /\ hbbsSettings' \in [SettingKeys -> Modes] /\ \A k \in SettingKeys : hbbsSettings'[k] \in everSet[k]
      /\ approvedKeys' \subseteq Ids /\ approvedIds' \subseteq Ids
  <2>1. CASE StartScript
    <3>1. script' = [NoRun EXCEPT !.pc = "settings"]
      BY <2>1 DEF StartScript
    <3>2. script' \in RunRow /\ script'.modes = NoRun.modes
      BY <1>4, <3>1 DEF RunRow
    <3> QED BY <1>4, <1>5, <2>1, <3>2 DEF StartScript, files
  <2>2. CASE ReadSetting
    <3> DEFINE k == script.next
    <3>1. k \in SettingKeys /\ k + 1 \in 1..SettingCount + 1
      BY <2>2, ListAssumption DEF ListAssumption, ReadSetting, SettingKeys
    <3>2. script.modes \in [SettingKeys -> Modes \cup {Unreadable}]
      BY <1>3 DEF RunRow
    <3>3. \/ script' = [script EXCEPT !.next = k + 1, !.modes = [script.modes EXCEPT ![k] = setting[k]]]
          \/ script' = [script EXCEPT !.next = k + 1]
      BY <1>3, <2>2 DEF ReadSetting, RunRow
    <3>4. setting[k] \in Modes /\ setting[k] \in everSet[k]
      BY <1>3, <3>1
    <3> HIDE DEF k
    <3>5. script' \in RunRow /\ script'.modes \in {script.modes, [script.modes EXCEPT ![k] = setting[k]]}
      BY <1>3, <3>1, <3>2, <3>3, <3>4 DEF RunRow
    <3>6. Stood(script'.modes)
      BY <1>3, <3>1, <3>2, <3>4, <3>5 DEF Stood
    <3> QED BY <1>5, <2>2, <3>5, <3>6 DEF ReadSetting, files
  <2>3. CASE WriteSettings
    <3>1. script' = [NoRun EXCEPT !.pc = "keys"]
      BY <2>3 DEF WriteSettings
    <3>2. script' \in RunRow /\ script'.modes = NoRun.modes
      BY <1>4, <3>1 DEF RunRow
    <3>3. \/ hbbsSettings' = hbbsSettings
          \/ hbbsSettings' = script.modes /\ \A k \in SettingKeys : script.modes[k] # Unreadable
      BY <2>3 DEF WriteSettings
    <3>4. hbbsSettings' \in [SettingKeys -> Modes] /\ \A k \in SettingKeys : hbbsSettings'[k] \in everSet[k]
      <4>1. CASE hbbsSettings' = hbbsSettings
        BY <1>5, <4>1
      <4>2. CASE hbbsSettings' = script.modes /\ \A k \in SettingKeys : script.modes[k] # Unreadable
        BY <1>3, <4>2 DEF RunRow, Stood
      <4> QED BY <3>3, <4>1, <4>2
    <3> QED BY <1>4, <1>5, <2>3, <3>2, <3>4 DEF WriteSettings
  <2>4. CASE QueryKeys
    <3>1. \/ script' = [script EXCEPT !.pc = "swapkeys", !.held = admitted \cap identified]
          \/ script' = [script EXCEPT !.pc = "ids"]
          \/ script' = NoRun
      BY <2>4 DEF QueryKeys
    <3>2. script' \in RunRow /\ script'.modes \in {script.modes, NoRun.modes}
      <4>1. CASE script' = NoRun
        BY <1>4, <4>1
      <4>2. CASE script' # NoRun
        BY <1>3, <1>5, <3>1, <4>2 DEF RunRow
      <4> QED BY <4>1, <4>2
    <3> QED BY <1>3, <1>4, <1>5, <2>4, <3>2 DEF QueryKeys, files
  <2>5. CASE SwapKeys
    <3>1. script' = [script EXCEPT !.pc = "ids", !.held = {}] \/ script' = NoRun
      BY <2>5 DEF SwapKeys
    <3>2. script' \in RunRow /\ script'.modes \in {script.modes, NoRun.modes}
      BY <1>3, <1>4, <3>1 DEF RunRow
    <3> QED BY <1>3, <1>4, <1>5, <2>5, <3>2 DEF SwapKeys
  <2>6. CASE QueryIds
    <3>1. script' = NoRun \/ script' = [script EXCEPT !.pc = "swapids", !.held = admitted]
      BY <2>6 DEF QueryIds
    <3>2. script' \in RunRow /\ script'.modes \in {script.modes, NoRun.modes}
      BY <1>3, <1>4, <1>5, <3>1 DEF RunRow
    <3> QED BY <1>3, <1>4, <1>5, <2>6, <3>2 DEF QueryIds, files
  <2>7. CASE SwapIds
    BY <1>3, <1>4, <1>5, <2>7 DEF SwapIds
  <2> QED BY <2>1, <2>2, <2>3, <2>4, <2>5, <2>6, <2>7 DEF ScriptGoesOn
<1>7. ListTypeOK'
  BY <1>1, <1>2, <1>6 DEF ListInv, ListTypeOK, RunRow
<1>8. ReadOnce' /\ NeverFallsBack'
  BY <1>1, <1>3, <1>6 DEF ReadOnce, NeverFallsBack, Stood
<1> QED BY <1>7, <1>8 DEF ListInv

LEMMA ListAlways == ListSpec => []ListInv
<1>1. ListInit => ListInv
  <2> SUFFICES ASSUME ListInit PROVE ListInv
    OBVIOUS
  <2>1. /\ 0 \in 0..MaxListChanges /\ 0 \in 0..MaxListFaults /\ FirstMode \in Modes
        /\ 1 \in 1..SettingCount + 1
    BY ListAssumption DEF ListAssumption
  <2> QED BY <2>1 DEF ListInit, ListInv, ListTypeOK, ReadOnce, NeverFallsBack, NoRun
<1>2. ListInv /\ [ListNext]_listVars => ListInv'
  <2> SUFFICES ASSUME ListInv, [ListNext]_listVars PROVE ListInv'
    OBVIOUS
  <2>1. CASE UNCHANGED listVars
    BY <2>1 DEF listVars, files, ListInv, ListTypeOK, ReadOnce, NeverFallsBack
  <2> QED BY <2>1, ChangesKeepList, ScriptKeepsList DEF ListNext
<1> QED BY <1>1, <1>2, PTL DEF ListSpec

\* However queries and writes of the script fail and settings change between
\* its queries, each of hbbs's settings is one that RDS stood for: a failed query
\* is never taken for the default.
THEOREM SettingsNeverFallBack == ListSpec => []NeverFallsBack
<1>1. ListInv => NeverFallsBack
  BY DEF ListInv
<1> QED BY <1>1, ListAlways, PTL

-----------------------------------------------------------------------------
(* The versions a client holds                                               *)

\* A bounded set of numbers with 0 in it has a largest one.
LEMMA BoundedMax ==
  ASSUME NEW N \in Nat, NEW S \in SUBSET (0..N), 0 \in S
  PROVE  Max(S) \in S
<1> DEFINE T == {b \in Nat : \A y \in S : y <= b}
<1>1. T \subseteq Nat /\ N \in T
  OBVIOUS
<1>2. PICK m \in T : \A y \in T : ~(y < m)
  <2> DEFINE R == {ss \in Nat \X Nat : ss[1] < ss[2]}
  <2>1. IsWellFoundedOn(R, Nat)
    BY NatLessThanWellFounded DEF OpToRel
  <2>2. \A x, y \in Nat : y < x => <<y, x>> \in R
    OBVIOUS
  <2> HIDE DEF R, T
  <2>3. \E x \in T : \A y \in T : ~(<<y, x>> \in R)
    BY <1>1, <2>1, WFMin
  <2> QED BY <1>1, <2>2, <2>3
<1>3. m \in Nat /\ \A y \in S : y \in Nat /\ y <= m
  OBVIOUS
<1>4. m \in S
  <2> SUFFICES ASSUME m \notin S PROVE FALSE
    OBVIOUS
  <2>1. m - 1 \in Nat /\ m # 0
    BY <1>3
  <2>2. \A y \in S : y <= m - 1
    BY <1>3, <2>1
  <2>3. m - 1 \in T
    BY <2>1, <2>2
  <2> HIDE DEF T
  <2> QED BY <1>2, <1>3, <2>3
<1>5. \A y \in S : m >= y
  BY <1>3
<1> QED BY <1>4, <1>5 DEF Max

LEMMA VersionsTyped ==
  ASSUME NEW rows \in [Offers -> OfferRows]
  PROVE  Max({rows[o].created : o \in Offers} \cup {rows[o].updated : o \in Offers} \cup {0})
           \in 0..MaxSyncChanges
<1> DEFINE S == {rows[o].created : o \in Offers} \cup {rows[o].updated : o \in Offers} \cup {0}
<1>1. S \in SUBSET (0..MaxSyncChanges) /\ 0 \in S /\ MaxSyncChanges \in Nat
  BY SyncAssumption DEF SyncAssumption, OfferRows
<1> HIDE DEF S
<1>2. Max(S) \in 0..MaxSyncChanges
  BY <1>1, BoundedMax
<1> QED BY <1>2 DEF S

\* The history has the versions that were there.
LEMMA HistoryTyped ==
  ASSUME SyncTypeOK, NEW k \in Fetched, NEW version, Changed(k, version),
         k = "directory" => version \in Contents, k = "drops" => version \in 0..MaxSyncChanges
  PROVE  /\ seen' \in [directory : SUBSET Contents, drops : SUBSET (0..MaxSyncChanges)]
         /\ recurred' \subseteq Fetched
<1>1. k = "directory" \/ k = "drops"
  BY DEF Fetched, SyncKeys
<1>2. CASE k = "directory"
  BY <1>2 DEF SyncTypeOK, Changed
<1>3. CASE k = "drops"
  BY <1>3 DEF SyncTypeOK, Changed
<1> QED BY <1>1, <1>2, <1>3

LEMMA SyncTypesKept == ASSUME SyncTypeOK, [SyncNext]_syncVars PROVE SyncTypeOK'
<1> USE SyncAssumption DEF SyncAssumption, serverVars, dropRowVars, historyVars
<1>1. ASSUME NEW v \in Contents, Answered(v),
             cache' \in [value : Contents, fresh : BOOLEAN]
      PROVE  SyncTypeOK'
  <2>1. /\ known' = [directory |-> v, log |-> logWanted, drops |-> DropsVersion]
        /\ fetching' \subseteq fetching \cup (SyncKeys \ {"log"})
        /\ UNCHANGED <<serverVars, filling, view, outbox, clientStarts>>
    BY <1>1 DEF Answered, Versions
  <2>2. /\ known'.directory = v /\ known'.log = logWanted /\ known'.drops = DropsVersion
    BY <2>1
  <2>3. DropsVersion \in 0..MaxSyncChanges
    BY VersionsTyped DEF SyncTypeOK, DropsVersion
  <2> QED BY <1>1, <2>1, <2>2, <2>3 DEF SyncTypeOK, Fetched
<1>2. CASE AnswerCached \/ AnswerComputed
  <2>1. CASE AnswerCached
    <3>1. cache.value \in Contents /\ cache' \in [value : Contents, fresh : BOOLEAN]
      BY <2>1 DEF AnswerCached, SyncTypeOK
    <3> QED BY <1>1, <2>1, <3>1 DEF AnswerCached
  <2>2. CASE AnswerComputed
    <3>1. directory \in Contents /\ cache' \in [value : Contents, fresh : BOOLEAN]
      BY <2>2 DEF AnswerComputed, SyncTypeOK
    <3> QED BY <1>1, <2>2, <3>1 DEF AnswerComputed
  <2> QED BY <1>2, <2>1, <2>2
<1>3. ASSUME NEW k \in Fetched, FetchKey(k) PROVE SyncTypeOK'
  BY <1>3 DEF FetchKey, SyncTypeOK
<1>4. ASSUME NEW f \in Fillers, FillQuery(f) \/ FillStore(f) PROVE SyncTypeOK'
  <2>1. /\ filling' \in [Fillers -> Contents \cup {Unknown}]
        /\ UNCHANGED <<serverVars, known, fetching, view, outbox, clientStarts>>
    BY <1>4 DEF FillQuery, FillStore, SyncTypeOK
  <2>2. cache' \in [value : Contents, fresh : BOOLEAN]
    <3>1. filling[f] # Unknown => filling[f] \in Contents
      BY DEF SyncTypeOK
    <3>2. cache' = cache \/ (filling[f] # Unknown /\ cache' = [value |-> filling[f], fresh |-> TRUE])
      BY <1>4 DEF FillQuery, FillStore
    <3>3. cache \in [value : Contents, fresh : BOOLEAN]
      BY DEF SyncTypeOK
    <3>4. \A v \in Contents :
            [value |-> v, fresh |-> TRUE] \in [value : Contents, fresh : BOOLEAN]
      OBVIOUS
    <3>5. CASE filling[f] # Unknown /\ cache' = [value |-> filling[f], fresh |-> TRUE]
      BY <3>1, <3>4, <3>5
    <3> QED BY <3>2, <3>3, <3>5
  <2> QED BY <2>1, <2>2 DEF SyncTypeOK
<1>5. CASE CacheAges \/ CollectLog \/ UploadLog
  BY <1>5 DEF CacheAges, CollectLog, UploadLog, SyncTypeOK
<1>6. CASE ClientRestarts
  <2>1. known'.directory = Unknown /\ known'.log = Unknown /\ known'.drops = Unknown
    BY <1>6 DEF ClientRestarts, SyncKeys
  <2>2. clientStarts' \in 0..MaxClientStarts
    BY <1>6 DEF ClientRestarts, SyncTypeOK
  <2>3. /\ known'.directory \in Contents \cup {Unknown}
        /\ known'.log \in BOOLEAN \cup {Unknown}
        /\ known'.drops \in 0..MaxSyncChanges \cup {Unknown}
    BY <2>1
  <2>4. fetching' \subseteq Fetched /\ outbox' \in BOOLEAN /\ UNCHANGED <<serverVars, cache, filling>>
    BY <1>6 DEF ClientRestarts
  <2> QED BY <2>2, <2>3, <2>4 DEF SyncTypeOK
<1>7. ASSUME NEW content \in Contents, DirectoryChanges(content) PROVE SyncTypeOK'
  <2>1. /\ directory' \in Contents /\ syncChanges' \in 0..MaxSyncChanges /\ syncClock' \in 0..syncChanges'
        /\ UNCHANGED <<logWanted, offer, writing, cache, filling, known, fetching, view, outbox, clientStarts>>
    BY <1>7 DEF DirectoryChanges, SyncTypeOK, clientVars
  <2>2. /\ seen' \in [directory : SUBSET Contents, drops : SUBSET (0..MaxSyncChanges)]
        /\ recurred' \subseteq Fetched
    BY <1>7, HistoryTyped DEF DirectoryChanges, Fetched, SyncKeys
  <2> QED BY <2>1, <2>2 DEF SyncTypeOK
<1>8. CASE RequestLog
  BY <1>8 DEF RequestLog, SyncTypeOK, clientVars
<1>10. CASE DropBegins
  <2>1. PICK t \in {syncClock, syncClock + 1} \ {0} :
          /\ syncClock' = t
          /\ writing' = writing \cup {[id |-> syncChanges + 1, at |-> t]}
    BY <1>10 DEF DropBegins
  <2>2. /\ syncChanges' = syncChanges + 1 /\ syncChanges + 1 \in 1..MaxSyncChanges
        /\ UNCHANGED <<directory, logWanted, offer, seen, recurred, cache, filling, known, fetching,
                       view, outbox, clientStarts>>
    BY <1>10 DEF DropBegins, SyncTypeOK, clientVars
  <2>3. t \in 1..syncChanges + 1
    BY <2>1 DEF SyncTypeOK
  <2>4. t \in 1..MaxSyncChanges /\ t \in 0..syncChanges + 1
    BY <2>2, <2>3 DEF SyncTypeOK
  <2>5. [id |-> syncChanges + 1, at |-> t] \in [id : 1..MaxSyncChanges, at : 1..MaxSyncChanges]
    BY <2>2, <2>4
  <2>6. writing' \subseteq [id : 1..MaxSyncChanges, at : 1..MaxSyncChanges]
    BY <2>1, <2>5 DEF SyncTypeOK
  <2>7. syncClock' \in 0..syncChanges' /\ syncChanges' \in 0..MaxSyncChanges
    BY <2>1, <2>2, <2>4
  <2> QED BY <2>2, <2>6, <2>7 DEF SyncTypeOK
<1>11. ASSUME NEW o \in Offers, DropRemoved(o) \/ \E w \in writing : DropWritten(o, w)
       PROVE  SyncTypeOK'
  <2>1. NoOffer \in OfferRows
    BY DEF NoOffer, OfferRows
  <2>2. offer' \in [Offers -> OfferRows] /\ writing' \subseteq writing /\ Changed("drops", DropsVersion')
    <3>1. CASE DropRemoved(o)
      BY <2>1, <3>1 DEF DropRemoved, SyncTypeOK
    <3>2. ASSUME NEW w \in writing, DropWritten(o, w) PROVE <2>2!:
      <4> DEFINE r == [by |-> w.id, updated |-> w.at,
                       created |-> IF offer[o] = NoOffer THEN w.at ELSE offer[o].created]
      <4>1. w.id \in 0..MaxSyncChanges /\ w.at \in 0..MaxSyncChanges /\ offer[o] \in OfferRows
        BY DEF SyncTypeOK
      <4>2. r \in OfferRows
        BY <4>1 DEF OfferRows
      <4>3. offer' = [offer EXCEPT ![o] = r] /\ writing' = writing \ {w} /\ Changed("drops", DropsVersion')
        BY <3>2 DEF DropWritten
      <4> HIDE DEF r
      <4> QED BY <4>2, <4>3 DEF SyncTypeOK
    <3> QED BY <1>11, <3>1, <3>2
  <2>3. DropsVersion' \in 0..MaxSyncChanges
    BY <2>2, VersionsTyped DEF DropsVersion
  <2>4. /\ seen' \in [directory : SUBSET Contents, drops : SUBSET (0..MaxSyncChanges)]
        /\ recurred' \subseteq Fetched
    BY <2>2, <2>3, HistoryTyped DEF Fetched, SyncKeys
  <2>5. UNCHANGED <<directory, logWanted, syncClock, syncChanges, cache, filling, known, fetching, view,
                    outbox, clientStarts>>
    BY <1>11 DEF DropWritten, DropRemoved, clientVars
  <2> QED BY <2>2, <2>4, <2>5 DEF SyncTypeOK
<1>9. CASE UNCHANGED syncVars
  BY <1>9 DEF syncVars, SyncTypeOK
<1> QED BY <1>2, <1>3, <1>4, <1>5, <1>6, <1>7, <1>8, <1>9, <1>10, <1>11 DEF SyncNext, Told

LEMMA SyncAlways == SyncSpec => []SyncTypeOK
<1>1. ASSUME SyncInit PROVE SyncTypeOK
  <2>1. 0 \in 0..MaxSyncChanges /\ 0 \in 0..MaxClientStarts
    BY SyncAssumption DEF SyncAssumption
  <2>2. /\ known.directory \in Contents \cup {Unknown}
        /\ known.log \in BOOLEAN \cup {Unknown}
        /\ known.drops \in 0..MaxSyncChanges \cup {Unknown}
    <3>1. known.directory = FirstContent /\ FirstContent \in Contents /\ known.log = FALSE /\ known.drops = 0
      BY <1>1, SyncAssumption DEF SyncInit, SyncAssumption
    <3> QED BY <2>1, <3>1
  <2>3. /\ filling \in [Fillers -> Contents \cup {Unknown}]
        /\ cache \in [value : Contents, fresh : BOOLEAN]
        /\ offer \in [Offers -> OfferRows]
    BY <1>1, <2>1, SyncAssumption DEF SyncInit, SyncAssumption, NoOffer, OfferRows
  <2>4. seen \in [directory : SUBSET Contents, drops : SUBSET (0..MaxSyncChanges)] /\ directory \in Contents
    BY <1>1, <2>1, SyncAssumption DEF SyncInit, SyncAssumption
  <2>5. /\ writing = {} /\ syncClock = 0 /\ syncChanges = 0 /\ recurred = {} /\ fetching = {}
        /\ logWanted = FALSE /\ outbox = FALSE /\ clientStarts = 0
    BY <1>1 DEF SyncInit
  <2>6. syncClock \in 0..syncChanges /\ syncChanges \in 0..MaxSyncChanges /\ clientStarts \in 0..MaxClientStarts
    BY <2>1, <2>5
  <2> QED BY <2>2, <2>3, <2>4, <2>5, <2>6 DEF SyncTypeOK
<1> QED BY <1>1, SyncTypesKept, PTL DEF SyncSpec

-----------------------------------------------------------------------------
(* Side by side                                                              *)

\* Taken together, each service makes its own steps and no others.
THEOREM ServicesKeepApart ==
  ServicesSpec => /\ DropSpec /\ ChatSpec /\ CertSpec /\ SyncSpec
                  /\ SealSpec /\ NetSpec /\ AlertSpec /\ ListSpec
<1>1. [ServicesNext]_servicesVars =>
        /\ [DropNext]_dropVars /\ [ChatNext]_chatVars /\ [CertNext]_certVars
        /\ [SyncNext]_syncVars /\ [SealNext]_sealVars /\ [NetNext]_netVars
        /\ [AlertNext]_alertVars /\ [ListNext]_listVars
  <2>1. CASE UNCHANGED servicesVars
    BY <2>1 DEF servicesVars
  <2>2. CASE ServicesNext
    BY <2>2 DEF ServicesNext
  <2> QED BY <2>1, <2>2
<1>2. ServicesInit =>
        /\ DropInit /\ ChatInit /\ CertInit /\ SyncInit
        /\ SealInit /\ NetInit /\ AlertInit /\ ListInit
  BY DEF ServicesInit
<1> QED BY <1>1, <1>2, PTL
        DEF ServicesSpec, DropSpec, ChatSpec, CertSpec, SyncSpec, SealSpec, NetSpec,
            AlertSpec, ListSpec

\* For every instance the tables, files, sockets and requests of the services
\* stay what the handlers take them for, whatever fails in whichever of them.
THEOREM ServicesTypes == ServicesSpec => []ServicesTypeOK
<1>1. CertSpec => []CertTypeOK
  BY EdgeInit, EdgeInductive, PTL DEF CertSpec, EdgeInv
<1>2. ChatSpec => []ChatTypeOK
  <2>1. ChatInv => ChatTypeOK
    BY DEF ChatInv
  <2> QED BY <2>1, ChatAlways, PTL
<1>3. NetSpec => []NetTypeOK
  <2>1. NetInv => NetTypeOK
    BY DEF NetInv
  <2> QED BY <2>1, NetAlways, PTL
<1>4. ListSpec => []ListTypeOK
  <2>1. ListInv => ListTypeOK
    BY DEF ListInv
  <2> QED BY <2>1, ListAlways, PTL
<1>5. /\ DropTypeOK /\ ChatTypeOK /\ CertTypeOK /\ SyncTypeOK
      /\ SealTypeOK /\ NetTypeOK /\ AlertTypeOK /\ ListTypeOK
      => ServicesTypeOK
  BY DEF ServicesTypeOK
<1> QED BY <1>1, <1>2, <1>3, <1>4, <1>5, DropTypes, SyncAlways, SealedTypesCorrect, AlertTypes,
           ServicesKeepApart, PTL

=============================================================================
