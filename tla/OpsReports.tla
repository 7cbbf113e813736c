------------------------------ MODULE OpsReports -------------------------------
(***************************************************************************)
(* The rest of the dashboard's minute loop (ops.rs): minute rollups of the *)
(* usage rows, daily and weekly reports by e-mail, retention; the overview *)
(* that reads the rollups; and restarts.                                   *)
(*                                                                         *)
(* Time is counted in half minutes: the loop runs every two of them, and a *)
(* tick finds the clock in the middle of a minute as well as at its start. *)
(***************************************************************************)
EXTENDS Integers, FiniteSets

CONSTANTS
  MaxTime,       \* bound: half minutes
  RollupWindow,  \* "-10 minutes" of the loop's rollup
  TrendRange,    \* the overview's range, at least a day
  Retention,     \* request_retention_days
  Reports,       \* kinds of reports, in the order they are looked at
  Scheduled,     \* kind -> instants its cron expression names (whole minutes)
  ReportBudgets  \* bounds: requests, restarts, failing e-mails, cleanups

ASSUME ReportAssumption ==
  /\ MaxTime \in Nat /\ RollupWindow \in Nat /\ TrendRange \in Nat /\ Retention \in Nat
  /\ Reports \subseteq Nat /\ Scheduled \in [Reports -> SUBSET (1 .. MaxTime)]
  /\ \A k \in Reports : \A t \in Scheduled[k] : t % 2 = 0

Times == 0 .. MaxTime
Minute(t) == t \div 2
Minutes == 0 .. Minute(MaxTime)

VARIABLES
  time,
  rows,          \* usage_logs: rows by the instant of created_at
  buckets,       \* ops_minute_rollups: requests by minute, 0 without a row
  trimmed,       \* minutes whose usage an administrator's cleanup deleted (history)
  loop,          \* where the loop is
  pending,       \* reports the loop has found due in this round: kind -> instant
  reports,       \* ops_report_runs: the status of a kind's report on an instant
  mailed,        \* how often it went out (history)
  lastRound,     \* when evaluate_reports last read the clock, and since when it runs
  excused,       \* reports whose round was late, failed or cut short (history)
  reportBudget

reportVars == <<time, rows, buckets, trimmed, loop, pending, reports, mailed,
                lastRound, excused, reportBudget>>

NoReport == [k \in Reports |-> 0]
Statuses == {"none", "processing", "sent", "failed"}

ReportInit ==
  /\ time = 0 /\ rows = [t \in Times |-> 0] /\ buckets = [m \in Minutes |-> 0]
  /\ trimmed = {}
  /\ loop = "boot" /\ pending = NoReport
  /\ reports = [r \in Reports \X Times |-> "none"] /\ mailed = [r \in Reports \X Times |-> 0]
  /\ lastRound = 0 /\ excused = {} /\ reportBudget \in ReportBudgets

Use(what) == reportBudget[what] > 0 /\ reportBudget' = [reportBudget EXCEPT ![what] = @ - 1]

(* The rows of a minute from an instant on.                                *)
RowsFrom(m, from) ==
  (IF 2 * m >= from THEN rows[2 * m] ELSE 0)
    + (IF 2 * m + 1 >= from /\ 2 * m + 1 \in Times THEN rows[2 * m + 1] ELSE 0)

-----------------------------------------------------------------------------
(*                         Rollups and the overview                        *)

(* rollup_usage: every minute with a row in the window gets the sums of    *)
(* its rows in the window, in place of what it had.                        *)
RolledUp(window) ==
  [m \in Minutes |-> LET n == RowsFrom(m, time - window) IN IF n > 0 THEN n ELSE buckets[m]]

(* A call of the gateway ends and leaves its row.                          *)
UsageRow ==
  /\ Use("requests") /\ rows' = [rows EXCEPT ![time] = @ + 1]
  /\ UNCHANGED <<time, buckets, trimmed, loop, pending, reports, mailed, lastRound, excused>>

(* Variant: the trend is read from the rollups as the loop left them.      *)
ReadTrend == buckets

(* The overview of a day or more rolls its range up, and then shows the    *)
(* minutes that begin in it.                                               *)
Refreshed == RolledUp(TrendRange)

Overview ==
  /\ buckets' = Refreshed
  /\ UNCHANGED <<time, rows, trimmed, loop, pending, reports, mailed, lastRound, excused, reportBudget>>

(* The console's confirmed cleanup of usage (usage.rs) leaves the rollups. *)
CleanUsage(m) ==
  /\ Use("cleanups") /\ m <= Minute(time)
  /\ rows' = [t \in Times |-> IF Minute(t) = m THEN 0 ELSE rows[t]] /\ trimmed' = trimmed \cup {m}
  /\ UNCHANGED <<time, buckets, loop, pending, reports, mailed, lastRound, excused>>

-----------------------------------------------------------------------------
(*                                The loop                                 *)

(* At its start rollup_usage takes seven days, then ten minutes.           *)
Rollup ==
  /\ loop \in {"boot", "sleep"} /\ loop' = "reports"
  /\ buckets' = RolledUp(IF loop = "boot" THEN MaxTime ELSE RollupWindow)
  /\ UNCHANGED <<time, rows, trimmed, pending, reports, mailed, lastRound, excused, reportBudget>>

(* The first instant of the schedule in the last 70 seconds.               *)
Due(k) == {t \in Scheduled[k] : time - 3 < t /\ t <= time}

(* evaluate_reports.  A round more than a minute after the one before it   *)
(* (an evaluation of alerts, or an e-mail, that took long) may not see the *)
(* instants between.                                                       *)
EvaluateReports ==
  /\ loop = "reports" /\ loop' = "report"
  /\ pending' = [k \in Reports |-> IF Due(k) = {} THEN 0 ELSE CHOOSE t \in Due(k) : \A u \in Due(k) : t <= u]
  /\ excused' = excused \cup {r \in Reports \X Times : r[2] <= time - 3 /\ time - lastRound > 2}
  /\ lastRound' = time
  /\ UNCHANGED <<time, rows, buckets, trimmed, reports, mailed, reportBudget>>

NextKind == CHOOSE k \in Reports : pending[k] # 0 /\ \A j \in Reports : pending[j] # 0 => k <= j

(* INSERT OR IGNORE, unique by kind and period.                            *)
NotClaimed(k, t) == reports[<<k, t>>] = "none"

(* run_report; with no recipients it is skipped, as good as sent.          *)
ClaimReport ==
  LET k == NextKind IN
  /\ loop = "report" /\ pending # NoReport
  /\ IF NotClaimed(k, pending[k])
     THEN loop' = "mail" /\ reports' = [reports EXCEPT ![<<k, pending[k]>>] = "processing"] /\ UNCHANGED pending
     ELSE pending' = [pending EXCEPT ![k] = 0] /\ UNCHANGED <<loop, reports>>
  /\ UNCHANGED <<time, rows, buckets, trimmed, mailed, lastRound, excused, reportBudget>>

DeliverReport ==
  /\ loop = "mail" /\ loop' = "mailed"
  /\ mailed' = [mailed EXCEPT ![<<NextKind, pending[NextKind]>>] = @ + 1]
  /\ UNCHANGED <<time, rows, buckets, trimmed, pending, reports, lastRound, excused, reportBudget>>

CompleteReport ==
  /\ loop = "mailed" /\ loop' = "report"
  /\ reports' = [reports EXCEPT ![<<NextKind, pending[NextKind]>>] = "sent"]
  /\ pending' = [pending EXCEPT ![NextKind] = 0]
  /\ UNCHANGED <<time, rows, buckets, trimmed, mailed, lastRound, excused, reportBudget>>

NothingPending == pending' = NoReport

(* The error ends the round: a later kind's report waits for the next one, *)
(* and is not due then when that comes more than 70 seconds after it.      *)
ReportFails ==
  LET k == NextKind IN
  /\ loop = "mail" /\ loop' = "cleanup" /\ Use("failures")
  /\ reports' = [reports EXCEPT ![<<k, pending[k]>>] = "failed"]
  /\ excused' = excused \cup {<<j, pending[j]>> : j \in {i \in Reports : pending[i] # 0 /\ i # k}}
  /\ NothingPending
  /\ UNCHANGED <<time, rows, buckets, trimmed, mailed, lastRound>>

ReportsDone ==
  /\ loop = "report" /\ pending = NoReport /\ loop' = "cleanup"
  /\ UNCHANGED <<time, rows, buckets, trimmed, pending, reports, mailed, lastRound, excused, reportBudget>>

(* cleanup_ops_data: the old rows, then the old rollups.                   *)
CleanupRows ==
  /\ loop = "cleanup" /\ loop' = "trimming"
  /\ rows' = [t \in Times |-> IF t < time - Retention THEN 0 ELSE rows[t]]
  /\ UNCHANGED <<time, buckets, trimmed, pending, reports, mailed, lastRound, excused, reportBudget>>

CleanupRollups ==
  /\ loop = "trimming" /\ loop' = "sleep"
  /\ buckets' = [m \in Minutes |-> IF 2 * m < time - Retention THEN 0 ELSE buckets[m]]
  /\ UNCHANGED <<time, rows, trimmed, pending, reports, mailed, lastRound, excused, reportBudget>>

(* The process stops and starts again; a report it was at stays processing.*)
RestartOps ==
  /\ Use("restarts") /\ loop' = "boot" /\ pending' = NoReport
  /\ excused' = excused \cup {<<k, pending[k]>> : k \in {j \in Reports : pending[j] # 0}}
  /\ UNCHANGED <<time, rows, buckets, trimmed, reports, mailed, lastRound>>

HalfMinute ==
  /\ time < MaxTime /\ time' = time + 1
  /\ UNCHANGED <<rows, buckets, trimmed, loop, pending, reports, mailed, lastRound, excused, reportBudget>>

ReportNext ==
  \/ UsageRow \/ Overview \/ HalfMinute \/ RestartOps
  \/ \E m \in Minutes : CleanUsage(m)
  \/ Rollup \/ EvaluateReports \/ ClaimReport \/ DeliverReport \/ CompleteReport \/ ReportFails \/ ReportsDone
  \/ CleanupRows \/ CleanupRollups

ReportSpec == ReportInit /\ [][ReportNext]_reportVars

-----------------------------------------------------------------------------
(*                              Properties                                 *)

(* Types; and a report is pending only while its round lasts.              *)
ReportTypeOK ==
  /\ time \in Times /\ rows \in [Times -> Nat] /\ buckets \in [Minutes -> Nat]
  /\ trimmed \subseteq Minutes /\ lastRound \in Times /\ excused \subseteq Reports \X Times
  /\ loop \in {"boot", "sleep", "reports", "report", "mail", "mailed", "cleanup", "trimming"}
  /\ pending \in [Reports -> Times]
  /\ reports \in [Reports \X Times -> Statuses] /\ mailed \in [Reports \X Times -> Nat]
  /\ pending # NoReport => loop \in {"report", "mail", "mailed"}
  /\ loop \in {"mail", "mailed"} => pending # NoReport

(* An overview shows every minute of its range with all its rows, although *)
(* the loop's rollup replaces the minute at the edge of its ten minutes by *)
(* a part of it: but for minutes whose usage an administrator deleted, or  *)
(* that have outlived the retention.                                       *)
TrendExact ==
  \A m \in Minutes \ trimmed :
    (2 * m >= time - TrendRange /\ 2 * m >= time - Retention) => Refreshed[m] = RowsFrom(m, 0)

(* A report on a period goes out once, however often its instant is seen   *)
(* and the process restarts.                                               *)
ReportOnce == \A k \in Reports, t \in Times : mailed[<<k, t>>] <= 1

(* A loop that is not late misses no report: two rounds a minute apart     *)
(* overlap in what they see (70 seconds), and of two instants of one kind  *)
(* the later is seen by the second round.                                  *)
NoReportMissed ==
  \A k \in Reports, t \in Times :
    (t \in Scheduled[k] /\ t <= lastRound - 2 /\ reports[<<k, t>>] = "none") =>
      <<k, t>> \in excused \/ pending[k] = t

(* The minute loop's rollups and reports, whatever it misses or repeats.   *)
ReportsSafe == ReportTypeOK /\ TrendExact /\ ReportOnce /\ NoReportMissed
=============================================================================
