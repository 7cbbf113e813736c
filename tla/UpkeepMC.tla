------------------------------- MODULE UpkeepMC --------------------------------
(***************************************************************************)
(* What runs in the background: scheduled tests, channel monitors, alerts  *)
(* and reports, side by side, with the fairness each scheduler's loop      *)
(* justifies.  "focus" says whose steps occur, as in AdmissionMC.          *)
(***************************************************************************)
EXTENDS AccountTests, ChannelMonitors, OpsAlerts, OpsReports

VARIABLE focus

vars == <<testVars, monitorVars, alertVars, reportVars, focus>>

Init ==
  /\ focus \in {"tests", "monitors", "alerts", "reports"}
  /\ TestInit /\ MonitorInit /\ AlertInit /\ ReportInit
  /\ focus # "tests" => /\ \A p \in Plans : plans[p].keep = 1 /\ plans[p].recover
                        /\ testBudget.restarts = 1
  /\ testBudget.byHand > 0 => \A p \in Plans : plans[p].recover
  /\ \A x \in Monitors : monitors[x].provider = "openai" /\ monitors[x].mode = "chat"
  /\ focus # "monitors" => /\ monitorBudget.number = 1 /\ monitorBudget.rows = 1
                           /\ \A t \in Templates : templates[t].provider = "openai" /\ templates[t].mode = "chat"
  /\ focus # "alerts" => alertBudget.restarts = 1
  /\ focus # "reports" => reportBudget.restarts = 1

Next ==
  \/ focus = "tests" /\ TestNext /\ UNCHANGED <<monitorVars, alertVars, reportVars, focus>>
  \/ focus = "monitors" /\ MonitorNext /\ UNCHANGED <<testVars, alertVars, reportVars, focus>>
  \/ focus = "alerts" /\ AlertNext /\ UNCHANGED <<testVars, monitorVars, reportVars, focus>>
  \/ focus = "reports" /\ ReportNext /\ UNCHANGED <<testVars, monitorVars, alertVars, focus>>

(* The fairness of each part, for the part whose steps occur.              *)
Fairness ==
  /\ WF_vars(focus = "tests" /\ RunDue /\ UNCHANGED <<monitorVars, alertVars, reportVars, focus>>)
  /\ \A l \in Lanes :
       WF_vars(focus = "tests" /\ RunnerStep(l) /\ UNCHANGED <<monitorVars, alertVars, reportVars, focus>>)
  /\ WF_vars(focus = "monitors" /\ ScannerStep /\ UNCHANGED <<testVars, alertVars, reportVars, focus>>)
  /\ WF_vars(focus = "alerts" /\ SchedulerStep /\ UNCHANGED <<testVars, monitorVars, reportVars, focus>>)

Spec == Init /\ [][Next]_vars /\ Fairness

(* Under these loops what is due is done, and an alarm whose condition is  *)
(* gone is resolved.                                                       *)
Progress == DueWaitsForProbe /\ FirstAreChecked /\ AlertClears

-----------------------------------------------------------------------------
Tests(occurrences, edits, byHand, restarts, cools) ==
  [occurrences |-> occurrences, edits |-> edits, byHand |-> byHand, restarts |-> restarts, cools |-> cools]
MCTestBudgets == {Tests(2, 1, 0, 0, 0), Tests(1, 1, 1, 0, 0), Tests(1, 1, 0, 0, 1), Tests(1, 0, 1, 1, 0)}

Watch(number, on, edits, applies, t, r, byHand) ==
  [number |-> number, on |-> on, edits |-> edits, applies |-> applies, templates |-> t, rows |-> r,
   byHand |-> byHand]
MCMonitorBudgets == {Watch(1, FALSE, 2, 1, 0, 0, 0), Watch(1, FALSE, 2, 0, 1, 0, 0), Watch(2, TRUE, 0, 0, 0, 2, 0),
                     Watch(3, TRUE, 0, 0, 0, 1, 1), Watch(1, FALSE, 0, 0, 1, 1, 0)}

Ringing(ticks, changes, edits, evaluations, drops, restarts) ==
  [ticks |-> ticks, changes |-> changes, edits |-> edits, evaluations |-> evaluations, drops |-> drops,
   restarts |-> restarts]
MCAlertBudgets == {Ringing(2, 1, 1, 1, 0, 0), Ringing(2, 3, 0, 1, 0, 0), Ringing(2, 1, 1, 0, 1, 0), Ringing(2, 2, 1, 0, 0, 1)}

Minutely(requests, restarts, failures, cleanups) ==
  [requests |-> requests, restarts |-> restarts, failures |-> failures, cleanups |-> cleanups]
MCReportBudgets == {Minutely(2, 0, 0, 0), Minutely(1, 0, 0, 1), Minutely(0, 1, 1, 0)}
MCScheduled == [k \in Reports |-> IF k = 1 THEN {2, 4} ELSE {4}]
=============================================================================
