------------------------------- MODULE OpsAlerts -------------------------------
(***************************************************************************)
(* Alerts of the operations dashboard (ops.rs, evaluate_alerts): the       *)
(* scheduler's evaluation once a minute, administrators who evaluate at    *)
(* once, close events and edit rules, and a process that may stop.         *)
(*                                                                         *)
(* Whether a rule's metric compares with its threshold is decided outside; *)
(* time is counted in units of which a cooldown lasts several.             *)
(***************************************************************************)
EXTENDS Integers, Sequences, FiniteSets

CONSTANTS
  AlertRules,     \* ids of rules
  Evaluators,     \* the scheduler and the requests to /ops/evaluate
  Scheduler,      \* the one of them that starts again for ever
  AlertCooldown,  \* cooldown_minutes
  AlertBudgets    \* bounds: initial budgets, see below

ASSUME AlertAssumption ==
  /\ AlertRules \subseteq Nat /\ IsFiniteSet(Evaluators) /\ Scheduler \in Evaluators
  /\ AlertCooldown \in Nat \ {0}

Never == -1
EventStates == {"firing", "resolved", "manual_resolved"}

VARIABLES
  clock,
  breached,     \* rules whose metric compares now
  rules,        \* ops_alert_rules: there, enabled, last (last_triggered_at)
  alarms,       \* ops_alert_events, in the order of their ids
  evaluation,   \* what each evaluation is doing
  alertBudget   \* ticks, changes of metrics, edits, restarts left

alertVars == <<clock, breached, rules, alarms, evaluation, alertBudget>>

Evaluation == [pc : {"idle", "metric", "look", "decide", "mark"}, todo : SUBSET AlertRules,
               seen : [AlertRules -> Int], matches : BOOLEAN, firing : Nat, alone : BOOLEAN]
Resting == [pc |-> "idle", todo |-> {}, seen |-> [r \in AlertRules |-> Never],
            matches |-> FALSE, firing |-> 0, alone |-> TRUE]

AlertInit ==
  /\ clock = 0 /\ breached = {} /\ alarms = <<>>
  /\ rules = [r \in AlertRules |-> [there |-> TRUE, enabled |-> TRUE, last |-> Never]]
  /\ evaluation = [e \in Evaluators |-> Resting]
  /\ alertBudget \in AlertBudgets

Take(what) == alertBudget[what] > 0 /\ alertBudget' = [alertBudget EXCEPT ![what] = @ - 1]

(* The rule an evaluation is at: ORDER BY id.                              *)
RuleOf(e) == CHOOSE r \in evaluation[e].todo : \A q \in evaluation[e].todo : r <= q

Alive(i) == rules[alarms[i].rule].there /\ ~alarms[i].gone
Firing(r) == {i \in 1 .. Len(alarms) : Alive(i) /\ alarms[i].rule = r /\ alarms[i].status = "firing"}

-----------------------------------------------------------------------------
(*                             An evaluation                               *)

(* The enabled rules, with their last_triggered_at, are read once.  An     *)
(* evaluation that meets another one is not alone.                         *)
EvaluateAlerts(e) ==
  LET others == {f \in Evaluators \ {e} : evaluation[f].pc # "idle"}
      todo == {r \in AlertRules : rules[r].there /\ rules[r].enabled} IN
  /\ evaluation[e].pc = "idle" /\ todo # {}
  /\ evaluation' = [f \in Evaluators |->
       IF f = e THEN [Resting EXCEPT !.pc = "metric", !.todo = todo, !.alone = others = {},
                                     !.seen = [r \in AlertRules |-> rules[r].last]]
       ELSE IF f \in others THEN [evaluation[f] EXCEPT !.alone = FALSE] ELSE evaluation[f]]
  /\ UNCHANGED <<clock, breached, rules, alarms>>

(* On to the next rule, or the end of the evaluation.                      *)
NextRule(e) ==
  LET rest == evaluation[e].todo \ {RuleOf(e)} IN
  evaluation' = [evaluation EXCEPT ![e] =
    IF rest = {} THEN Resting ELSE [@ EXCEPT !.pc = "metric", !.todo = rest]]

ReadMetric(e) ==
  /\ evaluation[e].pc = "metric"
  /\ evaluation' = [evaluation EXCEPT ![e].pc = "look", ![e].matches = RuleOf(e) \in breached]
  /\ UNCHANGED <<clock, breached, rules, alarms, alertBudget>>

(* The rule's newest firing event, or none (0).                            *)
LookForFiring(e) ==
  LET firing == Firing(RuleOf(e)) IN
  /\ evaluation[e].pc = "look"
  /\ evaluation' = [evaluation EXCEPT ![e].pc = "decide",
       ![e].firing = IF firing = {} THEN 0 ELSE CHOOSE i \in firing : \A j \in firing : j <= i]
  /\ UNCHANGED <<clock, breached, rules, alarms, alertBudget>>

(* Variant: the cooldown is not asked for.                                 *)
CooldownIgnored(e) == TRUE
(* cooldown_elapsed, of the rule as it was read at the start.              *)
CooldownElapsed(e) ==
  LET last == evaluation[e].seen[RuleOf(e)] IN last = Never \/ last + AlertCooldown <= clock


MustFire(e) == evaluation[e].matches /\ evaluation[e].firing = 0 /\ CooldownElapsed(e)

(* The event is inserted; if the rule was deleted meanwhile the statement  *)
(* fails and the evaluation ends, the later rules with it.                 *)
Fire(e) ==
  LET r == RuleOf(e) IN
  /\ evaluation[e].pc = "decide" /\ MustFire(e)
  /\ IF rules[r].there
     THEN /\ alarms' = Append(alarms, [rule |-> r, status |-> "firing", at |-> clock, gone |-> FALSE,
                                       alone |-> evaluation[e].alone, marked |-> FALSE])
          /\ evaluation' = [evaluation EXCEPT ![e].pc = "mark", ![e].firing = Len(alarms')]
     ELSE /\ evaluation' = [evaluation EXCEPT ![e] = Resting] /\ UNCHANGED alarms
  /\ UNCHANGED <<clock, breached, rules, alertBudget>>

(* last_triggered_at, in a statement of its own; the e-mail and email_sent *)
(* follow and decide nothing.                                              *)
MarkTriggered(e) ==
  LET r == RuleOf(e) IN
  /\ evaluation[e].pc = "mark"
  /\ rules' = IF rules[r].there THEN [rules EXCEPT ![r].last = clock] ELSE rules
  /\ alarms' = [alarms EXCEPT ![evaluation[e].firing].marked = TRUE]
  /\ NextRule(e)
  /\ UNCHANGED <<clock, breached, alertBudget>>

(* The event that was found is resolved, whatever became of it since.      *)
ResolveEvent(e) ==
  /\ evaluation[e].pc = "decide" /\ ~evaluation[e].matches /\ evaluation[e].firing # 0
  /\ alarms' = IF Alive(evaluation[e].firing)
               THEN [alarms EXCEPT ![evaluation[e].firing].status = "resolved"] ELSE alarms
  /\ NextRule(e)
  /\ UNCHANGED <<clock, breached, rules, alertBudget>>

LeaveAsIs(e) ==
  /\ evaluation[e].pc = "decide" /\ ~MustFire(e)
  /\ evaluation[e].matches \/ evaluation[e].firing = 0
  /\ NextRule(e)
  /\ UNCHANGED <<clock, breached, rules, alarms, alertBudget>>

(* A request's client has gone, or (scheduler too) a statement failed.     *)
EvaluationDropped(e) ==
  /\ evaluation[e].pc # "idle" /\ Take("drops")
  /\ evaluation' = [evaluation EXCEPT ![e] = Resting]
  /\ UNCHANGED <<clock, breached, rules, alarms>>

Restart ==
  /\ Take("restarts")
  /\ evaluation' = [e \in Evaluators |-> Resting]
  /\ UNCHANGED <<clock, breached, rules, alarms>>

-----------------------------------------------------------------------------
(*                             Everyone else                               *)

MetricChanges(r) ==
  /\ Take("changes") /\ breached' = IF r \in breached THEN breached \ {r} ELSE breached \cup {r}
  /\ UNCHANGED <<clock, rules, alarms, evaluation>>

TimePasses ==
  /\ Take("ticks") /\ clock' = clock + 1
  /\ UNCHANGED <<breached, rules, alarms, evaluation>>

(* update_alert_status: WHERE status = 'firing'.                           *)
UpdateAlertStatus(i, status) ==
  /\ Take("edits") /\ Alive(i) /\ alarms[i].status = "firing"
  /\ alarms' = [alarms EXCEPT ![i].status = status]
  /\ UNCHANGED <<clock, breached, rules, evaluation>>

(* update_alert_rule leaves last_triggered_at alone.                       *)
UpdateAlertRule(r) ==
  /\ Take("edits") /\ rules[r].there
  /\ rules' = [rules EXCEPT ![r].enabled = ~@]
  /\ UNCHANGED <<clock, breached, alarms, evaluation>>

(* Its alarms are deleted with it (ON DELETE CASCADE).                     *)
DeleteAlertRule(r) ==
  /\ Take("edits") /\ rules[r].there
  /\ rules' = [rules EXCEPT ![r].there = FALSE]
  /\ alarms' = [i \in 1 .. Len(alarms) |->
                  IF alarms[i].rule = r THEN [alarms[i] EXCEPT !.gone = TRUE] ELSE alarms[i]]
  /\ UNCHANGED <<clock, breached, evaluation>>

EvaluationStep(e) ==
  ReadMetric(e) \/ LookForFiring(e) \/ Fire(e) \/ MarkTriggered(e) \/ ResolveEvent(e) \/ LeaveAsIs(e)

AlertNext ==
  \/ \E e \in Evaluators :
       \/ EvaluationStep(e)
       \/ EvaluateAlerts(e) /\ (IF e = Scheduler THEN UNCHANGED alertBudget ELSE Take("evaluations"))
       \/ EvaluationDropped(e)
  \/ \E r \in AlertRules : MetricChanges(r) \/ UpdateAlertRule(r) \/ DeleteAlertRule(r)
  \/ \E i \in 1 .. Len(alarms) : \E s \in {"resolved", "manual_resolved"} : UpdateAlertStatus(i, s)
  \/ TimePasses \/ Restart

AlertSpec == AlertInit /\ [][AlertNext]_alertVars

(* The scheduler's loop ticks once a minute for ever.                      *)
SchedulerStep == EvaluationStep(Scheduler) \/ (EvaluateAlerts(Scheduler) /\ UNCHANGED alertBudget)

-----------------------------------------------------------------------------
(*                              Properties                                 *)

Alarm == [rule : AlertRules, status : EventStates, at : Nat, gone : BOOLEAN, alone : BOOLEAN, marked : BOOLEAN]

(* Types; and the firing event an evaluation works on is one of its rule.  *)
AlertTypeOK ==
  /\ clock \in Nat /\ breached \subseteq AlertRules
  /\ rules \in [AlertRules -> [there : BOOLEAN, enabled : BOOLEAN, last : Nat \cup {Never}]]
  /\ alarms \in Seq(Alarm)
  /\ evaluation \in [Evaluators -> Evaluation]
  /\ \A e \in Evaluators : /\ evaluation[e].pc # "idle" => evaluation[e].todo # {}
                           /\ evaluation[e].firing \in 0 .. Len(alarms)

(* The evaluations that have found no firing event of the rule and may yet *)
(* insert one.                                                             *)
AboutToFire(r) == {e \in Evaluators : evaluation[e].pc = "decide" /\ evaluation[e].firing = 0 /\ RuleOf(e) = r}

(* A condition that lasts is one firing event, not one per minute: only    *)
(* evaluations that overlap (evaluate_now beside the scheduler) open       *)
(* another, and never more than there are of them.                         *)
FiringBounded ==
  \A r \in AlertRules : Cardinality(Firing(r)) + Cardinality(AboutToFire(r)) <= Cardinality(Evaluators)

(* Two successive alarms of a rule are a cooldown apart, unless the later  *)
(* one's evaluation overlapped another or the earlier one's ended between  *)
(* the INSERT and the UPDATE of last_triggered_at.                         *)
CooldownKept ==
  \A i, j \in 1 .. Len(alarms) :
    (i < j /\ alarms[i].rule = alarms[j].rule /\ alarms[j].alone /\ alarms[i].marked)
      => alarms[j].at >= alarms[i].at + AlertCooldown

(* One alarm per condition and cooldown (evaluate_alerts).                 *)
AlertsSafe == AlertTypeOK /\ FiringBounded /\ CooldownKept

(* Once the condition of a rule that stays enabled is gone for good, every *)
(* firing event of it is resolved, one per evaluation, and none comes back.*)
AlertClears ==
  \A r \in AlertRules :
    <>[](r \notin breached /\ rules[r].there /\ rules[r].enabled) => <>[](Firing(r) = {})
=============================================================================
