SPECIFICATION Spec
CONSTANTS
  Plans = {p1, p2}
  Lanes = {l1, l2}
  Consoles = {c1}
  TestBatch = 2
  Keeps = {1, 2}
  TestBudgets <- MCTestBudgets
  Monitors = {1, 2, 3}
  Templates = {t1}
  Providers = {"openai", "anthropic"}
  Modes = {"chat", "responses"}
  NoTemplate = "none"
  Editors = {e1, e2}
  Checkers = {k1}
  Scanner = scanner
  CheckBatch = 2
  MonitorBudgets <- MCMonitorBudgets
  AlertRules = {1}
  Evaluators = {scheduler, v1}
  Scheduler = scheduler
  AlertCooldown = 2
  AlertBudgets <- MCAlertBudgets
  MaxTime = 5
  RollupWindow = 1
  TrendRange = 4
  Retention = 5
  Reports = {1, 2}
  Scheduled <- MCScheduled
  ReportBudgets <- MCReportBudgets
INVARIANTS
  TestsSafe MonitorsSafe AlertsSafe ReportsSafe
PROPERTIES
  GoneChangesNothing Progress
CHECK_DEADLOCK FALSE
