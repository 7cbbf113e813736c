----------------------------- MODULE AccountTests ------------------------------
(***************************************************************************)
(* Scheduled tests of accounts (scheduled_tests.rs): the scheduler, which  *)
(* runs the plans that are due two at a time, the console's run_now beside *)
(* it, edits of plans, and the accounts' cooldowns that a successful test  *)
(* ends.                                                                   *)
(***************************************************************************)
EXTENDS Integers, FiniteSets

CONSTANTS
  Plans,        \* rows of scheduled_test_plans
  Lanes,        \* the scheduler's concurrent runs (for_each_concurrent(2))
  Consoles,     \* requests to run a plan now
  TestBatch,    \* LIMIT 10
  Keeps,        \* values of max_results
  TestBudgets   \* bounds: occurrences, edits, runs by hand, restarts

Runners == Lanes \cup Consoles

ASSUME TestAssumption ==
  /\ Lanes \cap Consoles = {} /\ TestBatch \in Nat \ {0} /\ Keeps \subseteq Nat \ {0}
  /\ IsFiniteSet(Plans) /\ Plans # {}

VARIABLES
  plans,        \* there, enabled, keep (max_results), recover, dueAt (0: next_run_at is to come)
  kept,         \* scheduled_test_results: how many of a plan
  cooling,      \* plans whose account is cooling down
  todo,         \* ids run_due has listed and not yet started
  runner,       \* what each run is doing
  occurred,     \* how often a plan became due (history), which orders next_run_at
  answered,     \* how often a due time of it was used up (history)
  widest,       \* the largest max_results it had (history)
  testBudget

testVars == <<plans, kept, cooling, todo, runner, occurred, answered, widest, testBudget>>

Plan == [there : BOOLEAN, enabled : BOOLEAN, keep : Keeps, recover : BOOLEAN, dueAt : Nat]
NoRun == [pc |-> "idle", plan |-> CHOOSE p \in Plans : TRUE, keep |-> CHOOSE k \in Keeps : TRUE,
          recover |-> FALSE, passed |-> FALSE]

TestInit ==
  /\ \E k \in Keeps, recover \in BOOLEAN :
       /\ plans = [p \in Plans |-> [there |-> TRUE, enabled |-> TRUE, keep |-> k, recover |-> recover, dueAt |-> 0]]
       /\ widest = [p \in Plans |-> k]
  /\ kept = [p \in Plans |-> 0] /\ cooling = {} /\ todo = {}
  /\ runner = [x \in Runners |-> NoRun]
  /\ occurred = [p \in Plans |-> 0] /\ answered = [p \in Plans |-> 0]
  /\ testBudget \in TestBudgets

Spent(what) == testBudget[what] > 0 /\ testBudget' = [testBudget EXCEPT ![what] = @ - 1]

(* next_run_at moves: the due time, if it was one, is used up.             *)
UsesUp(p) == answered' = IF plans[p].dueAt > 0 THEN [answered EXCEPT ![p] = @ + 1] ELSE answered

IsDue(p) == plans[p].there /\ plans[p].enabled /\ plans[p].dueAt > 0
Pause(x) == runner' = [runner EXCEPT ![x] = NoRun]

-----------------------------------------------------------------------------
(*                               The runs                                  *)

ScanFree == todo = {} /\ \A l \in Lanes : runner[l].pc = "idle"

(* run_due, every 15 seconds once the last one has ended: the plans that   *)
(* have been due for longest.                                              *)
RunDue ==
  LET due == {p \in Plans : IsDue(p)} IN
  /\ ScanFree /\ due # {}
  /\ todo' \in SUBSET due
  /\ Cardinality(todo') = (IF Cardinality(due) < TestBatch THEN Cardinality(due) ELSE TestBatch)
  /\ \A p \in todo', q \in due \ todo' : plans[p].dueAt <= plans[q].dueAt
  /\ UNCHANGED <<plans, kept, cooling, runner, occurred, answered, widest, testBudget>>

(* get_plan: the run goes by the plan as it is read here.                  *)
StartRun(x, p, pc) ==
  runner' = [runner EXCEPT ![x] = [pc |-> pc, plan |-> p, keep |-> plans[p].keep,
                                   recover |-> plans[p].recover, passed |-> FALSE]]

TakeUp(l, p) ==
  /\ runner[l].pc = "idle" /\ p \in todo /\ todo' = todo \ {p}
  /\ IF plans[p].there THEN StartRun(l, p, "claim") ELSE UNCHANGED runner
  /\ UNCHANGED <<plans, kept, cooling, occurred, answered, widest, testBudget>>

(* Variant: what was listed is run.                                        *)
StillListed(p) == plans[p].there

(* claim_and_run's UPDATE: enabled, and still due.                         *)
Claimable(p) == IsDue(p)

(* Variant: a claim that finds nothing is made again.                      *)
ClaimsAgain(l) == UNCHANGED runner

(* A plan that is no longer due is left alone.                             *)
GivesUp(l) == Pause(l)

Claim(l) ==
  LET p == runner[l].plan IN
  /\ runner[l].pc = "claim"
  /\ IF Claimable(p)
     THEN /\ plans' = [plans EXCEPT ![p].dueAt = 0] /\ answered' = [answered EXCEPT ![p] = @ + 1]
          /\ runner' = [runner EXCEPT ![l].pc = "probe"]
     ELSE GivesUp(l) /\ UNCHANGED <<plans, answered>>
  /\ UNCHANGED <<kept, cooling, todo, occurred, widest, testBudget>>

RunNow(c, p) ==
  /\ Spent("byHand") /\ runner[c].pc = "idle" /\ plans[p].there
  /\ StartRun(c, p, "probe")
  /\ UNCHANGED <<plans, kept, cooling, todo, occurred, answered, widest>>

(* probe_account_model: one request to the upstream, without a limit of    *)
(* time when the account has no proxy.                                     *)
ProbeEnds(x, passed) ==
  /\ runner[x].pc = "probe"
  /\ runner' = [runner EXCEPT ![x].pc = "store", ![x].passed = passed]
  /\ UNCHANGED <<plans, kept, cooling, todo, occurred, answered, widest, testBudget>>

(* INSERT, then DELETE of all but the newest max_results.                  *)
Trimmed(n, keep) == IF n + 1 < keep THEN n + 1 ELSE keep

(* Variant: without a transaction the account is recovered all the same.   *)
AccountRecovered(x) == runner[x].passed /\ runner[x].recover

(* cooldown_until and last_error are cleared, whenever they were set.      *)
Recovers(x) == runner[x].passed /\ runner[x].recover /\ plans[runner[x].plan].there

(* One transaction.  The INSERT fails when the plan was deleted meanwhile. *)
StoreResult(x) ==
  LET p == runner[x].plan IN
  /\ runner[x].pc = "store"
  /\ kept' = IF plans[p].there THEN [kept EXCEPT ![p] = Trimmed(@, runner[x].keep)] ELSE kept
  /\ cooling' = IF Recovers(x) THEN cooling \ {p} ELSE cooling
  /\ IF x \in Consoles /\ plans[p].there THEN runner' = [runner EXCEPT ![x].pc = "finish"] ELSE Pause(x)
  /\ UNCHANGED <<plans, todo, occurred, answered, widest, testBudget>>

(* run_now moves next_run_at, of a plan that was due as well.              *)
FinishRunNow(c) ==
  LET p == runner[c].plan IN
  /\ runner[c].pc = "finish"
  /\ IF plans[p].there THEN plans' = [plans EXCEPT ![p].dueAt = 0] /\ UsesUp(p)
                       ELSE UNCHANGED <<plans, answered>>
  /\ Pause(c)
  /\ UNCHANGED <<kept, cooling, todo, occurred, widest, testBudget>>

RestartTests ==
  /\ Spent("restarts") /\ todo' = {} /\ runner' = [x \in Runners |-> NoRun]
  /\ UNCHANGED <<plans, kept, cooling, occurred, answered, widest>>

-----------------------------------------------------------------------------
(*                             Everyone else                               *)

BecomesDue(p) ==
  LET latest == CHOOSE d \in {plans[q].dueAt : q \in Plans} : \A q \in Plans : plans[q].dueAt <= d IN
  /\ Spent("occurrences") /\ plans[p].there /\ plans[p].dueAt = 0
  /\ plans' = [plans EXCEPT ![p].dueAt = latest + 1]
  /\ occurred' = [occurred EXCEPT ![p] = @ + 1]
  /\ UNCHANGED <<kept, cooling, todo, runner, answered, widest>>

(* update: every edit moves next_run_at into the future.                   *)
UpdatePlan(p, enabled, keep, recover) ==
  /\ Spent("edits") /\ plans[p].there
  /\ plans' = [plans EXCEPT ![p] = [there |-> TRUE, enabled |-> enabled, keep |-> keep,
                                    recover |-> recover, dueAt |-> 0]]
  /\ widest' = [widest EXCEPT ![p] = IF keep > @ THEN keep ELSE @]
  /\ UsesUp(p)
  /\ UNCHANGED <<kept, cooling, todo, runner, occurred>>

(* Its results are deleted with it; so does the account's deletion.        *)
DeletePlan(p) ==
  /\ Spent("edits") /\ plans[p].there
  /\ plans' = [plans EXCEPT ![p].there = FALSE] /\ kept' = [kept EXCEPT ![p] = 0]
  /\ UNCHANGED <<cooling, todo, runner, occurred, answered, widest>>

(* A gateway call of the account is answered 429.                          *)
AccountCools(p) ==
  /\ Spent("cools") /\ p \notin cooling /\ cooling' = cooling \cup {p}
  /\ UNCHANGED <<plans, kept, todo, runner, occurred, answered, widest>>

RunnerStep(x) ==
  \/ Claim(x) \/ StoreResult(x) \/ FinishRunNow(x)
  \/ \E p \in Plans : x \in Lanes /\ TakeUp(x, p)

TestNext ==
  \/ RunDue \/ RestartTests
  \/ \E x \in Runners : RunnerStep(x) \/ \E passed \in BOOLEAN : ProbeEnds(x, passed)
  \/ \E p \in Plans :
       \/ BecomesDue(p) \/ DeletePlan(p) \/ AccountCools(p)
       \/ \E c \in Consoles : RunNow(c, p)
       \/ \E enabled, recover \in BOOLEAN, keep \in Keeps : UpdatePlan(p, enabled, keep, recover)

TestSpec == TestInit /\ [][TestNext]_testVars

-----------------------------------------------------------------------------
(*                              Properties                                 *)

(* Types; and no two of the scheduler's runs are at the same plan.         *)
TestsTypeOK ==
  /\ plans \in [Plans -> Plan] /\ kept \in [Plans -> Nat] /\ cooling \subseteq Plans
  /\ todo \subseteq Plans
  /\ runner \in [Runners -> [pc : {"idle", "claim", "probe", "store", "finish"}, plan : Plans,
                             keep : Keeps, recover : BOOLEAN, passed : BOOLEAN]]
  /\ occurred \in [Plans -> Nat] /\ answered \in [Plans -> Nat] /\ widest \in [Plans -> Keeps]
  /\ \A l, m \in Lanes : (l # m /\ runner[l].pc # "idle" /\ runner[m].pc # "idle")
                           => runner[l].plan # runner[m].plan

(* A due time is used up once: the scheduler does not run a plan that was  *)
(* run by hand, or edited, since it was listed as due.                     *)
DueRunOnce == \A p \in Plans : answered[p] <= occurred[p]

(* A plan's history never outgrows the largest max_results it has had,     *)
(* whatever runs overlap with edits.                                       *)
ResultsBounded == \A p \in Plans : kept[p] <= widest[p]

(* What run_due, claim_and_run and the trimmed history promise.            *)
TestsSafe == TestsTypeOK /\ DueRunOnce /\ ResultsBounded

(* A run whose plan was deleted under it leaves no result and does not end *)
(* the account's cooldown (one transaction).                               *)
GoneChangesNothing ==
  [][\A p \in Plans : ~plans[p].there => kept'[p] = kept[p] /\ (p \in cooling => p \in cooling')]_testVars

(* A due plan waits for nothing but a test that is still running: the      *)
(* upstream's answer has no limit of time.                                 *)
DueWaitsForProbe ==
  \A p \in Plans : IsDue(p) ~> ~IsDue(p) \/ \E l \in Lanes : runner[l].pc = "probe"
=============================================================================
