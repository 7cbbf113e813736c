----------------------------- MODULE UpkeepProofs -----------------------------
(***************************************************************************)
(* What runs in the background, for any number of plans, monitors, rules,  *)
(* requests and schedules: that a due time is answered once and a deleted  *)
(* plan's run changes nothing; that monitors fit their templates and use   *)
(* the key last entered; that a condition is one alarm per cooldown; that  *)
(* reports are mailed once and none is missed.                             *)
(***************************************************************************)
EXTENDS AccountTests, ChannelMonitors, OpsAlerts, OpsReports,
        TotalsProofs, SequenceTheorems

-----------------------------------------------------------------------------
(*                Scheduled tests of accounts (AccountTests)               *)

\* A due time that waits, counted; and whether a run is under way.
Waits(p) == IF plans[p].dueAt > 0 THEN 1 ELSE 0
Active(x) == runner[x].pc # "idle"

\* What became due is answered or waits, never both; and a plan that was
\* taken up is off the list.
DueIsNew == \A p \in Plans : answered[p] + Waits(p) <= occurred[p]
TakenOnce == \A l \in Lanes : Active(l) => runner[l].plan \notin todo

\* What a run carries.
Run == [pc : {"idle", "claim", "probe", "store", "finish"}, plan : Plans,
        keep : Keeps, recover : BOOLEAN, passed : BOOLEAN]

\* The parts of the invariant about plans, and about runs.
PlansOK ==
  /\ plans \in [Plans -> Plan] /\ kept \in [Plans -> Nat] /\ cooling \subseteq Plans
  /\ occurred \in [Plans -> Nat] /\ answered \in [Plans -> Nat] /\ widest \in [Plans -> Keeps]
  /\ \A p \in Plans : kept[p] <= widest[p] /\ plans[p].keep <= widest[p]
  /\ DueIsNew
RunsOK ==
  /\ todo \subseteq Plans /\ runner \in [Runners -> Run]
  /\ \A l, m \in Lanes : (l # m /\ Active(l) /\ Active(m)) => runner[l].plan # runner[m].plan
  /\ \A x \in Runners : Active(x) => runner[x].keep <= widest[runner[x].plan]
  /\ TakenOnce

\* The invariant of the scheduled tests.
TestsInv == PlansOK /\ RunsOK

\* The largest max_results a plan had is a number.
LEMMA WidestType ==
  PlansOK => \A q \in Plans : widest[q] \in Nat /\ 0 <= widest[q] /\ widest[q] <= widest[q]
<1> SUFFICES ASSUME PlansOK, NEW q \in Plans PROVE widest[q] \in Nat /\ 0 <= widest[q] /\ widest[q] <= widest[q]
  OBVIOUS
<1>1. widest[q] \in Keeps BY DEF PlansOK
<1>2. widest[q] \in Nat BY <1>1, TestAssumption
<1> QED BY <1>2

\* A run at rest is a run.
LEMMA NoRunType == Keeps # {} => NoRun \in Run /\ NoRun.pc = "idle"
BY TestAssumption DEF NoRun, Run

\* The invariant holds at first.
LEMMA TestsInitially == TestInit => TestsInv
<1> SUFFICES ASSUME TestInit PROVE TestsInv OBVIOUS
<1>1. PICK k \in Keeps, recover \in BOOLEAN :
        /\ plans = [p \in Plans |-> [there |-> TRUE, enabled |-> TRUE, keep |-> k, recover |-> recover, dueAt |-> 0]]
        /\ widest = [p \in Plans |-> k]
  BY DEF TestInit
<1>2. k \in Nat BY TestAssumption
<1>3. PlansOK
  <2>1. plans \in [Plans -> Plan] BY <1>1 DEF Plan
  <2>2. \A p \in Plans : Waits(p) = 0 /\ kept[p] <= widest[p] /\ plans[p].keep <= widest[p]
    BY <1>1, <1>2 DEF TestInit, Waits
  <2>3. DueIsNew BY <2>2 DEF TestInit, DueIsNew
  <2>4. widest \in [Plans -> Keeps] BY <1>1
  <2> QED BY <2>1, <2>2, <2>3, <2>4 DEF TestInit, PlansOK
<1>4. RunsOK
  <2>1. NoRun \in Run /\ NoRun.pc = "idle" BY NoRunType, <1>1
  <2> QED BY <2>1 DEF TestInit, RunsOK, TakenOnce, Active, Runners
<1> QED BY <1>3, <1>4 DEF TestsInv

\* Steps that touch no run.
LEMMA RunsStay ==
  ASSUME RunsOK, PlansOK, UNCHANGED <<todo, runner>>, widest' \in [Plans -> Keeps],
         \A p \in Plans : widest[p] <= widest'[p]
  PROVE  RunsOK'
<1>1. \A x \in Runners : Active(x)' <=> Active(x) BY DEF Active
<1>2. \A x \in Runners : Active(x) => runner'[x].keep <= widest'[runner[x].plan]
  <2> SUFFICES ASSUME NEW x \in Runners, Active(x) PROVE runner[x].keep <= widest'[runner[x].plan] OBVIOUS
  <2>1. runner[x].plan \in Plans /\ runner[x].keep \in Nat /\ runner[x].keep <= widest[runner[x].plan]
    BY TestAssumption DEF RunsOK, Run
  <2>2. widest[runner[x].plan] \in Nat /\ widest'[runner[x].plan] \in Nat
    BY <2>1, TestAssumption DEF PlansOK
  <2>3. \A a, b, c \in Nat : a <= b /\ b <= c => a <= c OBVIOUS
  <2> QED BY <2>1, <2>2, <2>3
<1> QED BY <1>1, <1>2 DEF RunsOK, TakenOnce, Run, Active

\* Steps that touch plans at most by using up a due time.
PlansStay == UNCHANGED <<plans, kept, cooling, occurred, answered, widest>>

\* They keep what is known of plans.
LEMMA PlansKept == PlansOK /\ PlansStay => PlansOK'
BY DEF PlansOK, PlansStay, DueIsNew, Waits

\* One run goes on, at its plan, with what it read.
GoesOn(x) ==
  /\ runner' = [runner EXCEPT ![x] = runner'[x]] /\ runner'[x] \in Run
  /\ \/ runner'[x].pc = "idle"
     \/ runner'[x].pc # "idle" /\ runner[x].pc # "idle" /\ runner'[x].plan = runner[x].plan
        /\ runner'[x].keep = runner[x].keep

\* It keeps what is known of runs.
LEMMA RunGoesOn ==
  ASSUME RunsOK, NEW x \in Runners, GoesOn(x), UNCHANGED <<todo, widest>>
  PROVE  RunsOK'
<1>1. \A y \in Runners : y # x => runner'[y] = runner[y] BY DEF RunsOK, GoesOn
<1>2. runner' \in [Runners -> Run] BY DEF RunsOK, GoesOn
<1>3. \A y \in Runners : Active(y)' => Active(y) /\ runner'[y].plan = runner[y].plan /\ runner'[y].keep = runner[y].keep
  BY <1>1 DEF GoesOn, Active
<1>4. Lanes \subseteq Runners BY DEF Runners
<1> QED BY <1>2, <1>3, <1>4 DEF RunsOK, TakenOnce

\* The scheduler lists the due plans (run_due).
LEMMA ListStep == TestsInv /\ RunDue => TestsInv'
<1> SUFFICES ASSUME TestsInv, RunDue PROVE TestsInv' OBVIOUS
<1>1. PlansOK' BY PlansKept DEF RunDue, PlansStay, TestsInv
<1>2. RunsOK' BY DEF RunDue, RunsOK, ScanFree, TakenOnce, Active, TestsInv
<1> QED BY <1>1, <1>2 DEF TestsInv

\* A lane takes up a listed plan, or finds it gone.
LEMMA TakeUpStep == \A l \in Lanes, p \in Plans : TestsInv /\ TakeUp(l, p) => TestsInv'
<1> SUFFICES ASSUME NEW l \in Lanes, NEW p \in Plans, TestsInv, TakeUp(l, p) PROVE TestsInv' OBVIOUS
<1>1. PlansOK' BY PlansKept DEF TakeUp, PlansStay, TestsInv
<1>2. CASE plans[p].there
  <2> DEFINE new == [pc |-> "claim", plan |-> p, keep |-> plans[p].keep,
                     recover |-> plans[p].recover, passed |-> FALSE]
  <2>1. l \in Runners /\ Lanes \subseteq Runners BY DEF Runners
  <2>2. runner' = [runner EXCEPT ![l] = new] BY <1>2 DEF TakeUp, StartRun
  <2>3. new \in Run /\ new.keep <= widest[p]
    BY DEF PlansOK, Plan, Run, TestsInv
  <2>4. /\ runner' \in [Runners -> Run] /\ runner'[l] = new
        /\ \A y \in Runners : y # l => runner'[y] = runner[y]
    BY <2>1, <2>2, <2>3 DEF RunsOK, TestsInv
  <2>5. p \in todo /\ todo' = todo \ {p} /\ widest' = widest BY DEF TakeUp
  <2>6. \A m \in Lanes : m # l /\ Active(m) => runner[m].plan # p
    BY <2>5 DEF RunsOK, TakenOnce, TestsInv
  <2> HIDE DEF new
  <2>7. new.plan = p BY DEF new
  <2>8. \A m, n \in Lanes : (m # n /\ Active(m)' /\ Active(n)') => runner'[m].plan # runner'[n].plan
    BY <2>1, <2>4, <2>6, <2>7 DEF RunsOK, Active, TestsInv
  <2>9. \A x \in Runners : Active(x)' => runner'[x].keep <= widest'[runner'[x].plan]
    BY <2>3, <2>4, <2>5, <2>7 DEF RunsOK, Active, TestsInv
  <2>10. TakenOnce'
    BY <2>1, <2>4, <2>5, <2>7 DEF RunsOK, Active, TakenOnce, TestsInv
  <2>11. RunsOK' BY <2>4, <2>5, <2>8, <2>9, <2>10 DEF RunsOK, TestsInv
  <2> QED BY <1>1, <2>11 DEF TestsInv
<1>3. CASE ~plans[p].there
  <2>1. RunsOK' BY <1>3 DEF TakeUp, RunsOK, TakenOnce, Active, TestsInv
  <2> QED BY <1>1, <2>1 DEF TestsInv
<1> QED BY <1>2, <1>3

\* A plan whose due time, if it had one, is used up, and that may have been edited.
LEMMA UsedUp ==
  ASSUME PlansOK, NEW p \in Plans, NEW row \in Plan, row.dueAt = 0,
         plans' = [plans EXCEPT ![p] = row], UsesUp(p),
         UNCHANGED <<kept, cooling, occurred>>,
         widest' \in [Plans -> Keeps], \A q \in Plans : widest[q] <= widest'[q],
         row.keep <= widest'[p]
  PROVE  PlansOK'
<1>1. plans' \in [Plans -> Plan] /\ plans'[p] = row /\ \A q \in Plans : q # p => plans'[q] = plans[q]
  BY DEF PlansOK
<1>2. plans[p].dueAt \in Nat BY DEF PlansOK, Plan
<1>3. answered \in [Plans -> Nat] /\ occurred \in [Plans -> Nat] BY DEF PlansOK
<1>4. /\ answered' \in [Plans -> Nat] /\ answered'[p] = answered[p] + Waits(p)
      /\ \A q \in Plans : q # p => answered'[q] = answered[q]
  BY <1>2, <1>3 DEF UsesUp, Waits
<1>5. DueIsNew'
  <2> SUFFICES ASSUME NEW q \in Plans PROVE answered'[q] + Waits(q)' <= occurred[q]
    BY DEF DueIsNew
  <2>1. answered[q] + Waits(q) <= occurred[q] BY DEF PlansOK, DueIsNew
  <2>2. CASE q = p BY <1>1, <1>3, <1>4, <2>1, <2>2 DEF Waits
  <2>3. CASE q # p BY <1>1, <1>3, <1>4, <2>1, <2>3 DEF Waits
  <2> QED BY <2>2, <2>3
<1>6. \A q \in Plans : kept'[q] <= widest'[q] /\ plans'[q].keep <= widest'[q]
  <2> TAKE q \in Plans
  <2>1. widest[q] \in Nat /\ widest'[q] \in Nat /\ kept[q] \in Nat /\ plans[q].keep \in Nat
    BY TestAssumption DEF PlansOK, Plan
  <2>2. kept[q] <= widest[q] /\ plans[q].keep <= widest[q] BY DEF PlansOK
  <2> QED BY <1>1, <2>1, <2>2
<1> QED BY <1>1, <1>3, <1>4, <1>5, <1>6 DEF PlansOK

\* A run claims the due time it was listed with: only one can.
LEMMA ClaimStep == \A l \in Runners : TestsInv /\ Claim(l) => TestsInv'
<1> SUFFICES ASSUME NEW l \in Runners, TestsInv, Claim(l) PROVE TestsInv' OBVIOUS
<1> DEFINE p == runner[l].plan
<1>1. l \in Runners /\ runner[l] \in Run /\ p \in Plans /\ runner[l].pc = "claim"
  BY DEF Runners, RunsOK, Run, Claim, TestsInv
<1>2. NoRun \in Run /\ NoRun.pc = "idle" BY <1>1, NoRunType DEF Run
<1>3. RunsOK'
  <2>1. runner' = [runner EXCEPT ![l].pc = "probe"] \/ runner' = [runner EXCEPT ![l] = NoRun]
    BY DEF Claim, GivesUp, Pause
  <2>2. GoesOn(l)
    <3>1. runner \in [Runners -> Run] BY DEF RunsOK, TestsInv
    <3>2. CASE runner' = [runner EXCEPT ![l].pc = "probe"]
      <4>1. runner'[l] = [runner[l] EXCEPT !.pc = "probe"] BY <1>1, <3>1, <3>2
      <4>2. runner'[l] \in Run /\ runner'[l].pc = "probe" /\ runner'[l].plan = runner[l].plan
            /\ runner'[l].keep = runner[l].keep BY <1>1, <4>1 DEF Run
      <4> QED BY <1>1, <3>1, <3>2, <4>1, <4>2 DEF GoesOn
    <3>3. CASE runner' = [runner EXCEPT ![l] = NoRun] BY <1>1, <1>2, <3>1, <3>3 DEF GoesOn
    <3> QED BY <2>1, <3>2, <3>3
  <2> QED BY <1>1, <2>2, RunGoesOn DEF Claim, TestsInv
<1>4. PlansOK'
  <2>1. CASE IsDue(p)
    <3> DEFINE row == [plans[p] EXCEPT !.dueAt = 0]
    <3>1. plans' = [plans EXCEPT ![p] = row] /\ answered' = [answered EXCEPT ![p] = @ + 1]
      BY <2>1 DEF Claim, Claimable
    <3>2. plans[p] \in Plan /\ row \in Plan /\ row.dueAt = 0 /\ row.keep = plans[p].keep
      BY <1>1 DEF PlansOK, Plan, TestsInv
    <3>3. UsesUp(p) BY <2>1, <3>1 DEF UsesUp, IsDue
    <3>4. \A q \in Plans : widest[q] \in Nat /\ widest[q] <= widest[q]
      BY WidestType DEF TestsInv
    <3>5. row.keep <= widest[p] BY <1>1, <3>2 DEF PlansOK, TestsInv
    <3>6. widest' = widest /\ UNCHANGED <<kept, cooling, occurred>> /\ widest \in [Plans -> Keeps]
      BY DEF Claim, PlansOK, TestsInv
    <3> HIDE DEF row, p
    <3> QED BY <1>1, <3>1, <3>2, <3>3, <3>4, <3>5, <3>6, UsedUp DEF TestsInv
  <2>2. CASE ~IsDue(p) BY <2>2, PlansKept DEF Claim, Claimable, PlansStay, TestsInv
  <2> QED BY <2>1, <2>2
<1> QED BY <1>3, <1>4 DEF TestsInv

\* A request runs a plan by hand.
LEMMA RunNowStep == \A c \in Consoles, p \in Plans : TestsInv /\ RunNow(c, p) => TestsInv'
<1> SUFFICES ASSUME NEW c \in Consoles, NEW p \in Plans, TestsInv, RunNow(c, p) PROVE TestsInv' OBVIOUS
<1>1. PlansOK' BY PlansKept DEF RunNow, PlansStay, TestsInv
<1> DEFINE new == [pc |-> "probe", plan |-> p, keep |-> plans[p].keep,
                   recover |-> plans[p].recover, passed |-> FALSE]
<1>2. c \in Runners /\ Lanes \subseteq Runners /\ c \notin Lanes BY TestAssumption DEF Runners
<1>3. runner' = [runner EXCEPT ![c] = new] BY DEF RunNow, StartRun
<1>4. new \in Run /\ new.keep <= widest[p] /\ new.plan = p
  BY DEF PlansOK, Plan, Run, TestsInv
<1>5. /\ runner' \in [Runners -> Run] /\ runner'[c] = new
      /\ \A y \in Runners : y # c => runner'[y] = runner[y]
  BY <1>2, <1>3, <1>4 DEF RunsOK, TestsInv
<1>6. todo' = todo /\ widest' = widest BY DEF RunNow
<1> HIDE DEF new
<1>7. \A m, n \in Lanes : (m # n /\ Active(m)' /\ Active(n)') => runner'[m].plan # runner'[n].plan
  BY <1>2, <1>5 DEF RunsOK, Active, TestsInv
<1>8. \A x \in Runners : Active(x)' => runner'[x].keep <= widest'[runner'[x].plan]
  BY <1>4, <1>5, <1>6 DEF RunsOK, Active, TestsInv
<1>9. TakenOnce'
  BY <1>2, <1>5, <1>6 DEF RunsOK, Active, TakenOnce, TestsInv
<1>10. RunsOK' BY <1>5, <1>6, <1>7, <1>8, <1>9 DEF RunsOK, TestsInv
<1> QED BY <1>1, <1>10 DEF TestsInv

\* The probe ends.
LEMMA ProbeStep == \A x \in Runners, passed \in BOOLEAN : TestsInv /\ ProbeEnds(x, passed) => TestsInv'
<1> SUFFICES ASSUME NEW x \in Runners, NEW passed \in BOOLEAN, TestsInv, ProbeEnds(x, passed)
             PROVE TestsInv' OBVIOUS
<1>1. PlansOK' BY PlansKept DEF ProbeEnds, PlansStay, TestsInv
<1>2. GoesOn(x)
  <2>1. runner \in [Runners -> Run] /\ runner[x].pc = "probe" BY DEF RunsOK, ProbeEnds, TestsInv
  <2>2. runner' = [runner EXCEPT ![x].pc = "store", ![x].passed = passed] BY DEF ProbeEnds
  <2>3. runner'[x] = [runner[x] EXCEPT !.pc = "store", !.passed = passed]
        /\ runner' = [runner EXCEPT ![x] = runner'[x]] BY <2>1, <2>2
  <2>4. runner'[x] \in Run /\ runner'[x].pc = "store" /\ runner'[x].plan = runner[x].plan
        /\ runner'[x].keep = runner[x].keep BY <2>1, <2>3 DEF Run
  <2> QED BY <2>1, <2>3, <2>4 DEF GoesOn
<1> QED BY <1>1, <1>2, RunGoesOn DEF ProbeEnds, TestsInv

\* The result is stored and the older ones are pruned, with the max_results
\* the run has read.
LEMMA StoreStep == \A x \in Runners : TestsInv /\ StoreResult(x) => TestsInv'
<1> SUFFICES ASSUME NEW x \in Runners, TestsInv, StoreResult(x) PROVE TestsInv' OBVIOUS
<1> DEFINE p == runner[x].plan
<1>1. runner \in [Runners -> Run] /\ runner[x] \in Run /\ p \in Plans /\ runner[x].pc = "store"
  BY DEF RunsOK, Run, StoreResult, TestsInv
<1>2. NoRun \in Run /\ NoRun.pc = "idle" BY <1>1, NoRunType DEF Run
<1>3. RunsOK'
  <2>1. runner' = [runner EXCEPT ![x].pc = "finish"] \/ runner' = [runner EXCEPT ![x] = NoRun]
    BY DEF StoreResult, Pause
  <2>2. GoesOn(x)
    <3>1. CASE runner' = [runner EXCEPT ![x].pc = "finish"]
      <4>1. runner'[x] = [runner[x] EXCEPT !.pc = "finish"] BY <1>1, <3>1
      <4>2. runner'[x] \in Run /\ runner'[x].pc = "finish" /\ runner'[x].plan = runner[x].plan
            /\ runner'[x].keep = runner[x].keep BY <1>1, <4>1 DEF Run
      <4> QED BY <1>1, <3>1, <4>1, <4>2 DEF GoesOn
    <3>2. CASE runner' = [runner EXCEPT ![x] = NoRun] BY <1>1, <1>2, <3>2 DEF GoesOn
    <3> QED BY <2>1, <3>1, <3>2
  <2> QED BY <2>2, RunGoesOn DEF StoreResult, TestsInv
<1>4. \A n \in Nat, k \in Nat : Trimmed(n, k) \in Nat /\ (k <= widest[p] => Trimmed(n, k) <= widest[p])
  <2>1. widest[p] \in Nat BY <1>1, TestAssumption DEF PlansOK, TestsInv
  <2> QED BY <2>1 DEF Trimmed
<1>5. runner[x].keep \in Nat /\ runner[x].keep <= widest[p]
  BY <1>1, TestAssumption DEF RunsOK, Active, Run, TestsInv
<1>6. /\ kept' \in [Plans -> Nat] /\ \A q \in Plans : kept'[q] <= widest[q]
  <2>1. kept \in [Plans -> Nat] /\ \A q \in Plans : kept[q] <= widest[q] BY DEF PlansOK, TestsInv
  <2>2. kept' = kept \/ kept' = [kept EXCEPT ![p] = Trimmed(@, runner[x].keep)]
    BY DEF StoreResult
  <2>3. Trimmed(kept[p], runner[x].keep) \in Nat /\ Trimmed(kept[p], runner[x].keep) <= widest[p]
    BY <1>1, <1>4, <1>5, <2>1
  <2> HIDE DEF p
  <2> QED BY <1>1, <2>1, <2>2, <2>3
<1>7. cooling' \subseteq Plans BY DEF StoreResult, PlansOK, TestsInv
<1>8. UNCHANGED <<plans, todo, occurred, answered, widest>> BY DEF StoreResult
<1>9. PlansOK' BY <1>6, <1>7, <1>8 DEF PlansOK, DueIsNew, Waits, TestsInv
<1> QED BY <1>3, <1>9 DEF TestsInv

\* A run by hand ends and moves the due time on.
LEMMA FinishStep == \A c \in Runners : TestsInv /\ FinishRunNow(c) => TestsInv'
<1> SUFFICES ASSUME NEW c \in Runners, TestsInv, FinishRunNow(c) PROVE TestsInv' OBVIOUS
<1> DEFINE p == runner[c].plan
<1>1. runner \in [Runners -> Run] /\ runner[c] \in Run /\ p \in Plans
  BY DEF RunsOK, Run, TestsInv
<1>2. NoRun \in Run /\ NoRun.pc = "idle" BY <1>1, NoRunType DEF Run
<1>3. RunsOK'
  <2>1. GoesOn(c) BY <1>1, <1>2 DEF FinishRunNow, Pause, GoesOn
  <2> QED BY <2>1, RunGoesOn DEF FinishRunNow, TestsInv
<1>4. PlansOK'
  <2>1. CASE plans[p].there
    <3> DEFINE row == [plans[p] EXCEPT !.dueAt = 0]
    <3>1. plans' = [plans EXCEPT ![p] = row] /\ UsesUp(p)
      BY <2>1 DEF FinishRunNow
    <3>2. plans[p] \in Plan /\ row \in Plan /\ row.dueAt = 0 /\ row.keep = plans[p].keep
      BY <1>1 DEF PlansOK, Plan, TestsInv
    <3>4. \A q \in Plans : widest[q] \in Nat /\ widest[q] <= widest[q]
      BY WidestType DEF TestsInv
    <3>5. row.keep <= widest[p] BY <1>1, <3>2 DEF PlansOK, TestsInv
    <3>6. widest' = widest /\ UNCHANGED <<kept, cooling, occurred>> /\ widest \in [Plans -> Keeps]
      BY DEF FinishRunNow, PlansOK, TestsInv
    <3> HIDE DEF row, p
    <3> QED BY <1>1, <3>1, <3>2, <3>4, <3>5, <3>6, UsedUp DEF TestsInv
  <2>2. CASE ~plans[p].there BY <2>2, PlansKept DEF FinishRunNow, PlansStay, TestsInv
  <2> QED BY <2>1, <2>2
<1> QED BY <1>3, <1>4 DEF TestsInv

\* The process starts again.
LEMMA RestartStep == TestsInv /\ RestartTests => TestsInv'
<1> SUFFICES ASSUME TestsInv, RestartTests PROVE TestsInv' OBVIOUS
<1>1. PlansOK' BY PlansKept DEF RestartTests, PlansStay, TestsInv
<1>2. Keeps # {} BY TestAssumption DEF PlansOK, TestsInv
<1>3. NoRun \in Run /\ NoRun.pc = "idle" BY <1>2, NoRunType
<1>4. RunsOK'
  <2>1. todo' = {} /\ runner' = [x \in Runners |-> NoRun] BY DEF RestartTests
  <2>2. Lanes \subseteq Runners BY DEF Runners
  <2> QED BY <1>3, <2>1, <2>2 DEF RunsOK, TakenOnce, Active
<1> QED BY <1>1, <1>4 DEF TestsInv

\* A plan becomes due.
LEMMA BecomesDueStep == \A p \in Plans : TestsInv /\ BecomesDue(p) => TestsInv'
<1> SUFFICES ASSUME NEW p \in Plans, TestsInv, BecomesDue(p) PROVE TestsInv' OBVIOUS
<1> DEFINE dues == {plans[q].dueAt : q \in Plans}
<1>1. PICK latest \in Nat : plans' = [plans EXCEPT ![p].dueAt = latest + 1]
  <2>1. plans \in [Plans -> Plan] BY DEF PlansOK, TestsInv
  <2>2. dues \in SUBSET Nat /\ dues # {} BY <2>1, TestAssumption DEF Plan
  <2>3. IsFiniteSet(dues)
    <3> DEFINE f == [q \in Plans |-> plans[q].dueAt]
    <3>1. f \in Surjection(Plans, dues) BY DEF Surjection
    <3> QED BY <3>1, TestAssumption, FS_Surjection
  <2>4. \E d \in dues : \A e \in dues : e <= d
    <3> HIDE DEF dues
    <3> QED BY <2>2, <2>3, GreatestOf
  <2>5. \E d \in dues : \A q \in Plans : plans[q].dueAt <= d BY <2>4
  <2> DEFINE d == CHOOSE d \in dues : \A q \in Plans : plans[q].dueAt <= d
  <2>6. d \in dues BY <2>5
  <2>7. d \in Nat BY <2>2, <2>6
  <2> QED BY <2>7 DEF BecomesDue
<1>2. plans[p] \in Plan /\ plans[p].dueAt = 0 BY DEF PlansOK, BecomesDue, TestsInv
<1>3. /\ plans' \in [Plans -> Plan] /\ plans'[p].dueAt = latest + 1 /\ plans'[p].keep = plans[p].keep
      /\ \A q \in Plans : q # p => plans'[q] = plans[q]
  BY <1>1, <1>2 DEF PlansOK, Plan, TestsInv
<1>4. /\ occurred' = [occurred EXCEPT ![p] = @ + 1]
      /\ UNCHANGED <<kept, cooling, todo, runner, answered, widest>> BY DEF BecomesDue
<1>5. DueIsNew'
  <2> SUFFICES ASSUME NEW q \in Plans PROVE answered[q] + Waits(q)' <= occurred'[q]
    BY <1>4 DEF DueIsNew
  <2>1. answered[q] + Waits(q) <= occurred[q] /\ answered \in [Plans -> Nat] /\ occurred \in [Plans -> Nat]
    BY DEF PlansOK, DueIsNew, TestsInv
  <2>2. CASE q = p BY <1>2, <1>3, <1>4, <2>1, <2>2 DEF Waits
  <2>3. CASE q # p BY <1>3, <1>4, <2>1, <2>3 DEF Waits
  <2> QED BY <2>2, <2>3
<1>6. \A q \in Plans : plans'[q].keep = plans[q].keep BY <1>3
<1>7. PlansOK' BY <1>3, <1>4, <1>5, <1>6 DEF PlansOK, TestsInv
<1>8. RunsOK' BY <1>4 DEF RunsOK, TakenOnce, Active, TestsInv
<1> QED BY <1>7, <1>8 DEF TestsInv

\* An administrator edits a plan.
LEMMA UpdateStep ==
  \A p \in Plans, enabled, recover \in BOOLEAN, keep \in Keeps :
    TestsInv /\ UpdatePlan(p, enabled, keep, recover) => TestsInv'
<1> SUFFICES ASSUME NEW p \in Plans, NEW enabled \in BOOLEAN, NEW recover \in BOOLEAN, NEW keep \in Keeps,
                    TestsInv, UpdatePlan(p, enabled, keep, recover)
             PROVE  TestsInv' OBVIOUS
<1> DEFINE row == [there |-> TRUE, enabled |-> enabled, keep |-> keep, recover |-> recover, dueAt |-> 0]
<1>1. row \in Plan /\ row.dueAt = 0 /\ row.keep = keep BY DEF Plan
<1>2. /\ plans' = [plans EXCEPT ![p] = row] /\ UsesUp(p)
      /\ UNCHANGED <<kept, cooling, todo, runner, occurred>>
      /\ widest' = [widest EXCEPT ![p] = IF keep > @ THEN keep ELSE @]
  BY DEF UpdatePlan
<1>3. widest \in [Plans -> Keeps] /\ keep \in Nat /\ \A q \in Plans : widest[q] \in Nat
  BY TestAssumption DEF PlansOK, TestsInv
<1>4. widest' \in [Plans -> Keeps] /\ keep <= widest'[p] /\ \A q \in Plans : widest[q] <= widest'[q]
  BY <1>2, <1>3
<1> HIDE DEF row
<1>5. PlansOK' BY <1>1, <1>2, <1>4, UsedUp DEF TestsInv
<1>6. RunsOK' BY <1>2, <1>4, RunsStay DEF TestsInv
<1> QED BY <1>5, <1>6 DEF TestsInv

\* An administrator deletes a plan, and its results with it.
LEMMA DeletePlanStep == \A p \in Plans : TestsInv /\ DeletePlan(p) => TestsInv'
<1> SUFFICES ASSUME NEW p \in Plans, TestsInv, DeletePlan(p) PROVE TestsInv' OBVIOUS
<1>1. plans \in [Plans -> Plan] /\ kept \in [Plans -> Nat] /\ widest \in [Plans -> Keeps]
  BY DEF PlansOK, TestsInv
<1>2. /\ plans' \in [Plans -> Plan]
      /\ \A q \in Plans : plans'[q].dueAt = plans[q].dueAt /\ plans'[q].keep = plans[q].keep
  BY <1>1 DEF DeletePlan, Plan
<1>3. kept' \in [Plans -> Nat] /\ \A q \in Plans : kept'[q] <= widest[q]
  <2>1. \A q \in Plans : 0 <= widest[q] BY WidestType DEF TestsInv
  <2> QED BY <1>1, <2>1 DEF DeletePlan, PlansOK, TestsInv
<1>4. UNCHANGED <<cooling, todo, runner, occurred, answered, widest>> BY DEF DeletePlan
<1>5. DueIsNew'
  <2>1. \A q \in Plans : Waits(q)' = Waits(q) BY <1>2 DEF Waits
  <2> QED BY <1>4, <2>1 DEF PlansOK, DueIsNew, TestsInv
<1>6. PlansOK' BY <1>2, <1>3, <1>4, <1>5 DEF PlansOK, TestsInv
<1>7. RunsOK' BY <1>4 DEF RunsOK, TakenOnce, Active, TestsInv
<1> QED BY <1>6, <1>7 DEF TestsInv

\* Every step keeps the invariant.
LEMMA TestsStep == TestsInv /\ [TestNext]_testVars => TestsInv'
<1> SUFFICES ASSUME TestsInv, [TestNext]_testVars PROVE TestsInv' OBVIOUS
<1>1. CASE RunDue \/ RestartTests BY <1>1, ListStep, RestartStep
<1>2. ASSUME NEW x \in Runners, RunnerStep(x) PROVE TestsInv'
  BY <1>2, ClaimStep, StoreStep, FinishStep, TakeUpStep DEF RunnerStep
<1>3. ASSUME NEW x \in Runners, NEW passed \in BOOLEAN, ProbeEnds(x, passed) PROVE TestsInv'
  BY <1>3, ProbeStep
<1>4. ASSUME NEW p \in Plans, BecomesDue(p) \/ DeletePlan(p) PROVE TestsInv'
  BY <1>4, BecomesDueStep, DeletePlanStep
<1>5. ASSUME NEW p \in Plans, AccountCools(p) PROVE TestsInv'
  BY <1>5 DEF AccountCools, PlansOK, RunsOK, DueIsNew, Waits, TakenOnce, Active, TestsInv
<1>6. ASSUME NEW p \in Plans, NEW c \in Consoles, RunNow(c, p) PROVE TestsInv'
  BY <1>6, RunNowStep
<1>7. ASSUME NEW p \in Plans, NEW enabled \in BOOLEAN, NEW recover \in BOOLEAN, NEW keep \in Keeps,
             UpdatePlan(p, enabled, keep, recover) PROVE TestsInv'
  BY <1>7, UpdateStep
<1>8. CASE UNCHANGED testVars
  BY <1>8 DEF testVars, PlansOK, RunsOK, DueIsNew, Waits, TakenOnce, Active, TestsInv
<1> QED BY <1>1, <1>2, <1>3, <1>4, <1>5, <1>6, <1>7, <1>8 DEF TestNext

\* In every behaviour, whatever the plans, lanes and requests: a due time is
\* answered at most once, whoever answers it, and a plan never keeps more
\* results than the largest max_results it had (account_tests.rs, run_due,
\* claim_and_run).
THEOREM TestsCorrect == TestSpec => []TestsSafe
<1>1. TestsInv => TestsSafe
  <2> SUFFICES ASSUME TestsInv PROVE TestsSafe OBVIOUS
  <2>1. DueRunOnce
    <3> SUFFICES ASSUME NEW p \in Plans PROVE answered[p] <= occurred[p] BY DEF DueRunOnce
    <3>1. answered[p] + Waits(p) <= occurred[p] /\ answered[p] \in Nat /\ occurred[p] \in Nat
      BY DEF PlansOK, DueIsNew, TestsInv
    <3> QED BY <3>1 DEF Waits
  <2> QED BY <2>1 DEF TestsInv, TestsSafe, PlansOK, RunsOK, TestsTypeOK, ResultsBounded, Active, Run
<1> QED BY <1>1, TestsInitially, TestsStep, PTL DEF TestSpec

\* What belongs to a deleted plan is left alone by every step.
LEMMA GoneStep ==
  TestsInv /\ [TestNext]_testVars =>
    \A p \in Plans : ~plans[p].there => kept'[p] = kept[p] /\ (p \in cooling => p \in cooling')
<1> SUFFICES ASSUME TestsInv, [TestNext]_testVars, NEW p \in Plans, ~plans[p].there
             PROVE  kept'[p] = kept[p] /\ (p \in cooling => p \in cooling')
  OBVIOUS
<1>1. kept \in [Plans -> Nat] BY DEF TestsInv, PlansOK
<1>2. ASSUME NEW x \in Runners, StoreResult(x) PROVE kept'[p] = kept[p] /\ (p \in cooling => p \in cooling')
  <2>1. runner[x].plan \in Plans BY DEF TestsInv, RunsOK, Run
  <2> QED BY <1>1, <1>2, <2>1 DEF StoreResult, Recovers
<1>3. ASSUME NEW q \in Plans, DeletePlan(q) PROVE kept'[p] = kept[p] /\ (p \in cooling => p \in cooling')
  BY <1>1, <1>3 DEF DeletePlan
<1>4. ASSUME NEW q \in Plans, AccountCools(q) PROVE kept'[p] = kept[p] /\ (p \in cooling => p \in cooling')
  BY <1>4 DEF AccountCools
<1> QED BY <1>2, <1>3, <1>4
      DEF TestNext, testVars, RunDue, RestartTests, RunnerStep, Claim, FinishRunNow, TakeUp, ProbeEnds,
          BecomesDue, RunNow, UpdatePlan

\* A run that outlives its plan changes nothing: neither results nor the
\* cooldown of the account (account_tests.rs, one transaction).
THEOREM GoneCorrect == TestSpec => GoneChangesNothing
<1>1. TestSpec => []TestsInv BY TestsInitially, TestsStep, PTL DEF TestSpec
<1> QED BY <1>1, GoneStep, PTL DEF TestSpec, GoneChangesNothing
-----------------------------------------------------------------------------
(*                    Channel monitors (ChannelMonitors)                   *)

\* What an administrator's request carries.
Request == [pc : {"idle", "update", "apply"}, id : Monitors \cup {NoMonitor}, row : Monitor]

\* Types, those of the requests included.
MonitorsTyped == MonitorsTypeOK /\ editor \in [Editors -> Request]

\* A row a template could be of.
Fits(row) ==
  row.template # NoTemplate =>
    /\ templates[row.template].provider = row.provider
    /\ templates[row.template].mode = row.mode \/ row.template \in edited

\* Monitors fit their templates, and so do the rows requests have read.
EditsFit ==
  /\ TemplateFits
  /\ \A e \in Editors : editor[e].pc = "update" => Fits(editor[e].row)

\* Keys: a monitor that ever was has one, a request has that of the row it
\* read or a new one, and one that applies a template has the entered one.
KeysEntered ==
  /\ \A x \in Monitors : monitors[x].key # 0 /\ (monitors[x].there => entered[x] # 0)
  /\ \A e \in Editors : editor[e].row.key # 0 /\ (editor[e].pc # "idle" => entered[editor[e].id] # 0)
  /\ \A e \in Editors :
       editor[e].pc = "apply" => editor[e].row.key = entered[editor[e].id] \/ editor[e].id \in raced

\* The invariant of the channel monitors.
MonitorsInv == MonitorsTyped /\ EditsFit /\ EnteredKeyKept /\ KeysEntered

\* NULL is no monitor and no template.
LEMMA MonitorTypes ==
  /\ \A x \in Monitors : x # NoMonitor /\ x \in Nat
  /\ \A t \in Templates : t # NoTemplate
BY MonitorAssumption DEF NoMonitor

\* The invariant holds at first.
LEMMA MonitorsInitially == MonitorInit => MonitorsInv
<1> SUFFICES ASSUME MonitorInit PROVE MonitorsInv OBVIOUS
<1>1. monitorBudget.number \in Nat /\ monitorBudget.on \in BOOLEAN BY MonitorAssumption DEF MonitorInit
<1>2. PICK p \in Providers, m \in Modes : monitors = [x \in Monitors |-> FirstRow(x, p, m)]
  BY DEF MonitorInit
<1>3. monitors \in [Monitors -> Monitor]
  <2>1. \A x \in Monitors : (x <= monitorBudget.number) \in BOOLEAN BY <1>1, MonitorTypes
  <2> QED BY <1>1, <1>2, <2>1 DEF FirstRow, Monitor
<1>4. templates \in [Templates -> Template]
  <2>1. {[there |-> TRUE, provider |-> q, mode |-> n, body |-> 1] : q \in Providers, n \in Modes} \subseteq Template
    <3>1. \A q \in Providers, n \in Modes : [there |-> TRUE, provider |-> q, mode |-> n, body |-> 1] \in Template
      BY DEF Template
    <3> QED BY <3>1
  <2> QED BY <2>1 DEF MonitorInit
<1>5. editor \in [Editors -> Request] /\ \A e \in Editors : /\ editor[e].pc = "idle" /\ editor[e].id = NoMonitor
                                                            /\ \E x \in Monitors : editor[e].row = monitors[x]
  <2>1. (CHOOSE x \in Monitors : TRUE) \in Monitors BY MonitorAssumption
  <2> QED BY <1>3, <2>1 DEF MonitorInit, Request
<1>6. \A x \in Monitors : monitors[x].key = 1 /\ monitors[x].template = NoTemplate BY <1>2 DEF FirstRow
<1>7. /\ listed = {} /\ checking \in [Runs -> Monitors \cup {NoMonitor}]
      /\ entered = [x \in Monitors |-> IF monitors[x].there THEN 1 ELSE 0] /\ raced = {} /\ edited = {}
  BY DEF MonitorInit
<1>8. MonitorsTyped BY <1>3, <1>4, <1>5, <1>7 DEF MonitorsTyped, MonitorsTypeOK, Request
<1>9. EditsFit BY <1>5, <1>6 DEF EditsFit, TemplateFits
<1>10. EnteredKeyKept /\ KeysEntered BY <1>5, <1>6, <1>7 DEF EnteredKeyKept, KeysEntered
<1> QED BY <1>8, <1>9, <1>10 DEF MonitorsInv

\* Steps of the scheduler, and clocks.
Aside ==
  /\ UNCHANGED <<templates, editor, entered, raced, edited>>
  /\ listed' \subseteq Monitors /\ checking' \in [Runs -> Monitors \cup {NoMonitor}]
  /\ monitors' \in [Monitors -> Monitor]
  /\ \A x \in Monitors :
       /\ monitors'[x].there => monitors[x].there
       /\ monitors'[x].provider = monitors[x].provider /\ monitors'[x].mode = monitors[x].mode
       /\ monitors'[x].template = monitors[x].template /\ monitors'[x].key = monitors[x].key

\* Such a step keeps the invariant.
LEMMA AsideStep == MonitorsInv /\ Aside => MonitorsInv'
<1> SUFFICES ASSUME MonitorsInv, Aside PROVE MonitorsInv' OBVIOUS
<1>1. MonitorsTyped' BY DEF MonitorsInv, Aside, MonitorsTyped, MonitorsTypeOK
<1>2. EditsFit' BY DEF MonitorsInv, Aside, EditsFit, TemplateFits, Fits
<1>3. EnteredKeyKept' BY DEF MonitorsInv, Aside, EnteredKeyKept
<1>4. KeysEntered' BY DEF MonitorsInv, Aside, KeysEntered
<1> QED BY <1>1, <1>2, <1>3, <1>4 DEF MonitorsInv

\* Listing, checking, and what the clock makes due.
LEMMA CheckSteps ==
  MonitorsInv /\ (ScannerStep \/ \E r \in Checkers : StoreCheck(r) \/ \E x \in Monitors : CheckerBegins(r, x)) => Aside
<1> SUFFICES ASSUME MonitorsInv, ScannerStep \/ \E r \in Checkers : StoreCheck(r) \/ \E x \in Monitors : CheckerBegins(r, x)
             PROVE Aside
  OBVIOUS
<1>1. monitors \in [Monitors -> Monitor] /\ checking \in [Runs -> Monitors \cup {NoMonitor}] /\ listed \subseteq Monitors
  BY DEF MonitorsInv, MonitorsTyped, MonitorsTypeOK
<1>2. Scanner \in Runs /\ Checkers \subseteq Runs BY DEF Runs
<1>3. CASE ListDue BY <1>1, <1>3 DEF ListDue, Aside, DueMonitors
<1>4. ASSUME NEW r \in Runs, NEW x \in Monitors, BeginCheck(r, x)
      PROVE  checking' \in [Runs -> Monitors \cup {NoMonitor}]
  BY <1>1, <1>4 DEF BeginCheck
<1>5. CASE ScannerBegins BY <1>1, <1>2, <1>4, <1>5 DEF ScannerBegins, BeginCheck, Aside
<1>6. ASSUME NEW r \in Checkers, NEW x \in Monitors, CheckerBegins(r, x) PROVE Aside
  BY <1>1, <1>2, <1>4, <1>6 DEF CheckerBegins, BeginCheck, Aside
<1>7. ASSUME NEW r \in Runs, StoreCheck(r) PROVE Aside
  <2>1. checking[r] \in Monitors BY <1>1, <1>7 DEF StoreCheck
  <2> DEFINE y == checking[r]
  <2>2. monitors' = [monitors EXCEPT ![y] = [monitors[y] EXCEPT !.due = @ /\ ~monitors[y].there]]
    BY <1>1, <1>7, <2>1 DEF StoreCheck
  <2>3. [monitors[y] EXCEPT !.due = @ /\ ~monitors[y].there] \in Monitor BY <1>1, <2>1 DEF Monitor
  <2>4. monitors' \in [Monitors -> Monitor] BY <1>1, <2>1, <2>2, <2>3
  <2>5. \A x \in Monitors :
       /\ monitors'[x].there => monitors[x].there
       /\ monitors'[x].provider = monitors[x].provider /\ monitors'[x].mode = monitors[x].mode
       /\ monitors'[x].template = monitors[x].template /\ monitors'[x].key = monitors[x].key
    BY <1>1, <2>1, <2>2 DEF Monitor
  <2>6. checking' \in [Runs -> Monitors \cup {NoMonitor}] BY <1>1, <1>7 DEF StoreCheck
  <2>7. UNCHANGED <<templates, listed, editor, entered, raced, edited>> BY <1>7 DEF StoreCheck
  <2> QED BY <1>1, <2>4, <2>5, <2>6, <2>7 DEF Aside
<1> QED BY <1>2, <1>3, <1>5, <1>6, <1>7 DEF ScannerStep

\* The steps that write one monitor without reading it first.
LEMMA PlainSteps ==
  \A x \in Monitors : MonitorsInv /\ (ComesDue(x) \/ DeleteMonitor(x) \/ SwitchMonitor(x)) => Aside
<1> SUFFICES ASSUME NEW x \in Monitors, MonitorsInv, ComesDue(x) \/ DeleteMonitor(x) \/ SwitchMonitor(x)
             PROVE  Aside
  OBVIOUS
<1>1. monitors \in [Monitors -> Monitor] /\ checking \in [Runs -> Monitors \cup {NoMonitor}] /\ listed \subseteq Monitors
  BY DEF MonitorsInv, MonitorsTyped, MonitorsTypeOK
<1>2. \E there, on, due \in BOOLEAN :
        /\ monitors' = [monitors EXCEPT ![x] = [monitors[x] EXCEPT !.there = there, !.on = on, !.due = due]]
        /\ there => monitors[x].there
  <2>1. monitors[x] \in Monitor BY <1>1
  <2>2. monitors[x].there \in BOOLEAN /\ monitors[x].on \in BOOLEAN /\ monitors[x].due \in BOOLEAN
    BY <2>1 DEF Monitor
  <2>3. CASE ComesDue(x)
    <3>1. monitors' = [monitors EXCEPT ![x] = [monitors[x] EXCEPT !.there = monitors[x].there, !.on = monitors[x].on, !.due = TRUE]]
      BY <1>1, <2>1, <2>3 DEF ComesDue, Monitor
    <3> QED BY <2>2, <3>1
  <2>4. CASE DeleteMonitor(x)
    <3>1. monitors' = [monitors EXCEPT ![x] = [monitors[x] EXCEPT !.there = FALSE, !.on = monitors[x].on, !.due = monitors[x].due]]
      BY <1>1, <2>1, <2>4 DEF DeleteMonitor, Monitor
    <3> QED BY <2>2, <3>1
  <2>5. CASE SwitchMonitor(x)
    <3>1. monitors' = [monitors EXCEPT ![x] = [monitors[x] EXCEPT !.there = monitors[x].there, !.on = ~monitors[x].on, !.due = monitors[x].due]]
      BY <1>1, <2>1, <2>5 DEF SwitchMonitor, Monitor
    <3> QED BY <2>2, <3>1
  <2> QED BY <2>3, <2>4, <2>5
<1>3. PICK there, on, due \in BOOLEAN :
        /\ monitors' = [monitors EXCEPT ![x] = [monitors[x] EXCEPT !.there = there, !.on = on, !.due = due]]
        /\ there => monitors[x].there
  BY <1>2
<1>4. [monitors[x] EXCEPT !.there = there, !.on = on, !.due = due] \in Monitor BY <1>1 DEF Monitor
<1>5. monitors' \in [Monitors -> Monitor] BY <1>1, <1>3, <1>4
<1>6. \A y \in Monitors :
       /\ monitors'[y].there => monitors[y].there
       /\ monitors'[y].provider = monitors[y].provider /\ monitors'[y].mode = monitors[y].mode
       /\ monitors'[y].template = monitors[y].template /\ monitors'[y].key = monitors[y].key
  BY <1>1, <1>3 DEF Monitor
<1>7. UNCHANGED <<templates, listed, checking, editor, entered, raced, edited>>
  BY DEF ComesDue, DeleteMonitor, SwitchMonitor
<1> QED BY <1>1, <1>5, <1>6, <1>7 DEF Aside

\* Facts the steps of administrators start from.
LEMMA EditorTypes ==
  ASSUME MonitorsInv, NEW e \in Editors
  PROVE  /\ editor \in [Editors -> Request] /\ editor[e] \in Request /\ editor[e].row \in Monitor
         /\ editor[e].pc # "idle" => editor[e].id \in Monitors
         /\ monitors \in [Monitors -> Monitor] /\ templates \in [Templates -> Template]
         /\ \A t \in Templates \cup {NoTemplate} : BodyOf(t) \in Nat
<1>1. editor[e] \in Request BY DEF MonitorsInv, MonitorsTyped
<1>2. editor[e].pc # "idle" => editor[e].id \in Monitors
  BY <1>1 DEF Request, MonitorsInv, MonitorsTyped, MonitorsTypeOK
<1>3. \A t \in Templates \cup {NoTemplate} : BodyOf(t) \in Nat
  BY DEF BodyOf, Template, MonitorsInv, MonitorsTyped, MonitorsTypeOK
<1> QED BY <1>1, <1>2, <1>3 DEF Request, MonitorsInv, MonitorsTyped, MonitorsTypeOK

\* A request that has read a row.
Reads(e, pc, x, row) ==
  /\ Working(e, pc, x, row)
  /\ UNCHANGED <<monitors, templates, listed, checking, entered, raced, edited>>

\* Such a request knows a key that was entered.
LEMMA ReadStep ==
  ASSUME MonitorsInv, NEW e \in Editors, NEW x \in Monitors, NEW row \in Monitor, NEW pc \in {"update", "apply"},
         Reads(e, pc, x, row), row.key # 0, entered[x] # 0,
         pc = "update" => Fits(row), pc = "apply" => row.key = entered[x] \/ x \in raced
  PROVE  MonitorsInv'
<1>1. editor \in [Editors -> Request] BY EditorTypes
<1>2. /\ editor' \in [Editors -> Request] /\ editor'[e] = [pc |-> pc, id |-> x, row |-> row]
      /\ \A f \in Editors : f # e => editor'[f] = editor[f]
  <2>1. [pc |-> pc, id |-> x, row |-> row] \in Request BY DEF Request
  <2> QED BY <1>1, <2>1 DEF Reads, Working
<1>3. UNCHANGED <<monitors, templates, listed, checking, entered, raced, edited>> BY DEF Reads
<1>4. editor'[e].pc = pc /\ editor'[e].id = x /\ editor'[e].row = row /\ pc # "idle" /\ x # NoMonitor
  BY <1>2, MonitorTypes
<1>5. MonitorsTyped'
  <2>1. \A f \in Editors : /\ editor'[f].pc \in {"idle", "update", "apply"} /\ editor'[f].row \in Monitor
                           /\ editor'[f].id \in Monitors \cup {NoMonitor}
                           /\ editor'[f].pc = "idle" <=> editor'[f].id = NoMonitor
    BY <1>2, <1>4 DEF MonitorsInv, MonitorsTyped, MonitorsTypeOK
  <2> QED BY <1>2, <1>3, <2>1 DEF MonitorsInv, MonitorsTyped, MonitorsTypeOK
<1>6. EditsFit'
  <2>1. TemplateFits' BY <1>3 DEF MonitorsInv, EditsFit, TemplateFits
  <2>2. \A f \in Editors : editor'[f].pc = "update" => Fits(editor[f].row) \/ f = e
    BY <1>2 DEF MonitorsInv, EditsFit
  <2>3. \A f \in Editors : editor'[f].pc = "update" => Fits(editor[f].row)'
    BY <1>2, <1>3, <1>4, <2>2 DEF Fits
  <2> QED BY <2>1, <2>3 DEF EditsFit
<1>7. EnteredKeyKept' BY <1>3 DEF MonitorsInv, EnteredKeyKept
<1>8. KeysEntered' BY <1>2, <1>3, <1>4 DEF MonitorsInv, KeysEntered
<1> QED BY <1>5, <1>6, <1>7, <1>8 DEF MonitorsInv

\* A request that ends, having written monitor x or nothing.
Ends(e, x) ==
  /\ Done(e)
  /\ UNCHANGED <<templates, listed, checking, edited>>
  /\ monitors' \in [Monitors -> Monitor]
  /\ \A y \in Monitors : y # x => monitors'[y] = monitors[y] /\ entered'[y] = entered[y]
  /\ entered' \in [Monitors -> Nat]
  /\ raced \subseteq raced' /\ raced' \subseteq Monitors
  /\ entered' # entered => \A f \in Editors : f # e /\ editor[f].pc # "idle" /\ editor[f].id = x => x \in raced'

\* It keeps the invariant if what it wrote fits and bears the entered key.
LEMMA EndStep ==
  ASSUME MonitorsInv, NEW e \in Editors, NEW x \in Monitors, Ends(e, x),
         monitors'[x].there =>
           /\ monitors'[x].key = entered'[x] \/ x \in raced'
           /\ monitors'[x].template # NoTemplate => templates[monitors'[x].template].there /\ Fits(monitors'[x]),
         monitors'[x].key # 0, monitors'[x].there => entered'[x] # 0, entered[x] # 0 => entered'[x] # 0
  PROVE  MonitorsInv'
<1>1. editor \in [Editors -> Request] BY EditorTypes
<1>2. /\ editor' \in [Editors -> Request] /\ editor'[e].pc = "idle" /\ editor'[e].id = NoMonitor
      /\ editor'[e].row = editor[e].row
      /\ \A f \in Editors : f # e => editor'[f] = editor[f]
  <2>1. [[editor[e] EXCEPT !.pc = "idle"] EXCEPT !.id = NoMonitor] \in Request BY <1>1 DEF Request
  <2>2. editor' = [editor EXCEPT ![e] = [[editor[e] EXCEPT !.pc = "idle"] EXCEPT !.id = NoMonitor]]
    BY <1>1 DEF Ends, Done, Request
  <2> QED BY <1>1, <2>1, <2>2 DEF Request
<1>3. UNCHANGED <<templates, listed, checking, edited>> BY DEF Ends
<1>4. MonitorsTyped'
  <2>1. \A f \in Editors : /\ editor'[f].pc \in {"idle", "update", "apply"} /\ editor'[f].row \in Monitor
                           /\ editor'[f].id \in Monitors \cup {NoMonitor}
                           /\ editor'[f].pc = "idle" <=> editor'[f].id = NoMonitor
    BY <1>2 DEF MonitorsInv, MonitorsTyped, MonitorsTypeOK
  <2> QED BY <1>2, <1>3, <2>1 DEF MonitorsInv, MonitorsTyped, MonitorsTypeOK, Ends
<1>5. EditsFit'
  <2>1. \A row : Fits(row)' <=> Fits(row) BY <1>3 DEF Fits
  <2>2. TemplateFits'
    <3> SUFFICES ASSUME NEW y \in Monitors, monitors'[y].there, monitors'[y].template # NoTemplate
                 PROVE  LET t == templates[monitors'[y].template] IN
                        /\ t.there /\ t.provider = monitors'[y].provider
                        /\ t.mode = monitors'[y].mode \/ monitors'[y].template \in edited
      BY <1>3 DEF TemplateFits
    <3>1. CASE y = x BY <3>1 DEF Fits
    <3>2. CASE y # x BY <3>2 DEF Ends, MonitorsInv, EditsFit, TemplateFits
    <3> QED BY <3>1, <3>2
  <2>3. \A f \in Editors : editor'[f].pc = "update" => Fits(editor'[f].row)
    BY <1>2 DEF MonitorsInv, EditsFit
  <2>4. \A f \in Editors : editor'[f].pc = "update" => Fits(editor[f].row)'
    BY <1>3, <2>3 DEF Fits
  <2> QED BY <2>2, <2>4 DEF EditsFit
<1>6. EnteredKeyKept'
  <2> SUFFICES ASSUME NEW y \in Monitors, monitors'[y].there, y \notin raced'
               PROVE  monitors'[y].key = entered'[y]
    BY DEF EnteredKeyKept
  <2>1. CASE y = x BY <2>1
  <2>2. CASE y # x BY <2>2 DEF Ends, MonitorsInv, EnteredKeyKept
  <2> QED BY <2>1, <2>2
<1>7. KeysEntered'
  <2>1. \A y \in Monitors : monitors'[y].key # 0 /\ (monitors'[y].there => entered'[y] # 0)
    BY DEF Ends, MonitorsInv, KeysEntered
  <2>2. \A y \in Monitors : entered[y] # 0 => entered'[y] # 0 BY DEF Ends
  <2>3. \A f \in Editors : editor'[f].row.key # 0 /\ (editor'[f].pc # "idle" => entered'[editor'[f].id] # 0)
    <3> TAKE f \in Editors
    <3>1. editor[f].pc # "idle" => editor[f].id \in Monitors BY EditorTypes
    <3> QED BY <1>2, <2>2, <3>1 DEF MonitorsInv, KeysEntered
  <2>4. \A f \in Editors :
          editor'[f].pc = "apply" => editor'[f].row.key = entered'[editor'[f].id] \/ editor'[f].id \in raced'
    <3> SUFFICES ASSUME NEW f \in Editors, editor'[f].pc = "apply"
                 PROVE  editor'[f].row.key = entered'[editor'[f].id] \/ editor'[f].id \in raced'
      OBVIOUS
    <3>1. f # e /\ editor'[f] = editor[f] BY <1>2
    <3>2. editor[f].id \in Monitors /\ editor[f].pc # "idle" BY <3>1, EditorTypes
    <3>3. editor[f].row.key = entered[editor[f].id] \/ editor[f].id \in raced
      BY <3>1 DEF MonitorsInv, KeysEntered
    <3>4. CASE editor[f].id = x BY <3>1, <3>2, <3>3, <3>4 DEF Ends
    <3>5. CASE editor[f].id # x BY <3>1, <3>2, <3>3, <3>5 DEF Ends
    <3> QED BY <3>4, <3>5
  <2> QED BY <2>1, <2>3, <2>4 DEF KeysEntered
<1> QED BY <1>4, <1>5, <1>6, <1>7 DEF MonitorsInv

\* Nothing but the request.
LEMMA Unmoved ==
  MonitorsInv /\ UNCHANGED <<monitors, templates, listed, checking, editor, entered, raced, edited>> => MonitorsInv'
BY DEF MonitorsInv, MonitorsTyped, MonitorsTypeOK, EditsFit, TemplateFits, Fits, EnteredKeyKept, KeysEntered

\* update reads the monitor and checks the template.
LEMMA ReadForUpdateStep ==
  ASSUME MonitorsInv, NEW e \in Editors, NEW x \in Monitors, NEW p \in Providers, NEW m \in Modes,
         NEW t \in Templates \cup {NoTemplate}, NEW k \in {1, 2}, ReadForUpdate(e, x, p, m, t, k)
  PROVE  MonitorsInv'
<1> DEFINE old == monitors[x]
           body == IF t = old.template THEN old.body ELSE BodyOf(t)
           new == [old EXCEPT !.provider = p, !.mode = m, !.template = t, !.key = k,
                              !.body = IF t = old.template THEN @ ELSE BodyOf(t)]
<1>1. old \in Monitor BY EditorTypes
<1>2. BodyOf(t) \in Nat BY EditorTypes
<1>3. /\ new \in Monitor /\ new.provider = p /\ new.mode = m /\ new.template = t /\ new.key = k
  <2>1. body \in Nat /\ k \in Nat BY <1>1, <1>2 DEF Monitor
  <2>2. new = [old EXCEPT !.provider = p, !.mode = m, !.template = t, !.key = k, !.body = body] BY <1>1 DEF Monitor
  <2> HIDE DEF body, new
  <2> QED BY <1>1, <2>1, <2>2 DEF Monitor
<1>4. old.there /\ UNCHANGED <<monitors, templates, listed, checking, entered, raced, edited>>
  BY DEF ReadForUpdate
<1>5. entered[x] # 0 BY <1>4 DEF MonitorsInv, KeysEntered
<1>6. CASE FollowsTemplate(new, old)
  <2>1. Working(e, "update", x, new) BY <1>6 DEF ReadForUpdate
  <2>2. Reads(e, "update", x, new) BY <2>1, <1>4 DEF Reads
  <2>3. Compatible(t, p, m) BY <1>3, <1>6 DEF FollowsTemplate
  <2>4. Fits(new) BY <1>3, <2>3 DEF Fits, Compatible
  <2> HIDE DEF new
  <2> QED BY <1>3, <1>5, <2>2, <2>4, ReadStep
<1>7. CASE ~FollowsTemplate(new, old)
  <2>1. editor' = editor BY <1>7 DEF ReadForUpdate
  <2> QED BY <1>4, <2>1, Unmoved
<1> QED BY <1>6, <1>7

\* apply_template reads a monitor of the template.
LEMMA ReadForApplyStep ==
  ASSUME MonitorsInv, NEW e \in Editors, NEW x \in Monitors, NEW t \in Templates, ReadForApply(e, x, t)
  PROVE  MonitorsInv'
<1> DEFINE new == WithTemplate(monitors[x], t)
<1>1. monitors[x] \in Monitor /\ templates[t] \in Template BY EditorTypes
<1>2. new \in Monitor /\ new.key = monitors[x].key BY <1>1 DEF WithTemplate, Monitor, Template
<1>3. monitors[x].there /\ UNCHANGED <<monitors, templates, listed, checking, entered, raced, edited>>
  BY DEF ReadForApply
<1>4. entered[x] # 0 /\ new.key # 0 BY <1>2, <1>3 DEF MonitorsInv, KeysEntered
<1>5. new.key = entered[x] \/ x \in raced BY <1>2, <1>3 DEF MonitorsInv, EnteredKeyKept
<1>6. Working(e, "apply", x, new) \/ editor' = editor BY DEF ReadForApply
<1>7. CASE Working(e, "apply", x, new)
  <2>1. Reads(e, "apply", x, new) BY <1>3, <1>7 DEF Reads
  <2> HIDE DEF new
  <2> QED BY <1>2, <1>4, <1>5, <2>1, ReadStep
<1>8. CASE editor' = editor BY <1>3, <1>8, Unmoved
<1> QED BY <1>6, <1>7, <1>8

\* A monitor two requests wrote from one row is a monitor.
LEMMA RacesType ==
  ASSUME MonitorsInv, NEW e \in Editors, NEW x \in Monitors, Races(e, x)
  PROVE  /\ raced \subseteq raced' /\ raced' \subseteq Monitors
         /\ \A f \in Editors : f # e /\ editor[f].pc # "idle" /\ editor[f].id = x => x \in raced'
BY DEF Races, ReadBy, MonitorsInv, MonitorsTyped, MonitorsTypeOK

\* update writes the row back.
LEMMA WriteUpdateStep ==
  ASSUME MonitorsInv, NEW e \in Editors, WriteUpdate(e)
  PROVE  MonitorsInv'
<1>1. PICK x \in Monitors : editor[e].id = x BY EditorTypes DEF WriteUpdate
<1>2. PICK new \in Monitor : editor[e].row = new BY EditorTypes
<1>3. new.key # 0 /\ Fits(new) BY <1>2 DEF WriteUpdate, MonitorsInv, KeysEntered, EditsFit
<1>4. monitors[x] \in Monitor /\ monitors \in [Monitors -> Monitor] /\ entered \in [Monitors -> Nat]
  BY EditorTypes DEF MonitorsInv, MonitorsTyped, MonitorsTypeOK
<1>5. Done(e) /\ UNCHANGED <<templates, listed, checking, edited>> BY DEF WriteUpdate
<1> DEFINE written == monitors[x].there /\ (new.template = NoTemplate \/ templates[new.template].there)
<1>6. CASE written
  <2>1. monitors' = [monitors EXCEPT ![x] = [new EXCEPT !.due = monitors[x].due]]
        /\ entered' = [entered EXCEPT ![x] = new.key] /\ Races(e, x)
    BY <1>1, <1>2, <1>6 DEF WriteUpdate
  <2> DEFINE row == [new EXCEPT !.due = monitors[x].due]
  <2>2. row \in Monitor /\ row.key = new.key /\ row.template = new.template /\ row.provider = new.provider
        /\ row.mode = new.mode /\ row.there = new.there /\ new.key \in Nat
    BY <1>4 DEF Monitor
  <2>3. monitors' \in [Monitors -> Monitor] /\ monitors'[x] = row
        /\ \A y \in Monitors : y # x => monitors'[y] = monitors[y]
    BY <1>4, <2>1, <2>2
  <2>4. entered' \in [Monitors -> Nat] /\ entered'[x] = new.key
        /\ \A y \in Monitors : y # x => entered'[y] = entered[y]
    BY <1>4, <2>1, <2>2
  <2>5. Ends(e, x) BY <1>5, <2>1, <2>3, <2>4, RacesType DEF Ends
  <2>6. Fits(row) BY <1>3, <2>2 DEF Fits
  <2> HIDE DEF row
  <2> QED BY <1>3, <1>6, <2>2, <2>3, <2>4, <2>5, <2>6, EndStep
<1>7. CASE ~written
  <2>1. UNCHANGED <<monitors, entered, raced>> BY <1>1, <1>2, <1>7 DEF WriteUpdate
  <2>2. Ends(e, x) BY <1>4, <1>5, <2>1 DEF Ends, MonitorsInv, MonitorsTyped, MonitorsTypeOK
  <2>3. monitors[x].key # 0 /\ (monitors[x].there => entered[x] # 0) BY DEF MonitorsInv, KeysEntered
  <2>4. monitors[x].there =>
           /\ monitors[x].key = entered[x] \/ x \in raced
           /\ monitors[x].template # NoTemplate => templates[monitors[x].template].there /\ Fits(monitors[x])
    BY DEF MonitorsInv, EnteredKeyKept, EditsFit, TemplateFits, Fits
  <2> QED BY <2>1, <2>2, <2>3, <2>4, EndStep
<1> QED BY <1>6, <1>7

\* apply_template writes the row back, with the key it has read.
LEMMA WriteApplyStep ==
  ASSUME MonitorsInv, NEW e \in Editors, WriteApply(e)
  PROVE  MonitorsInv'
<1>1. PICK x \in Monitors : editor[e].id = x BY EditorTypes DEF WriteApply
<1>2. PICK new \in Monitor : editor[e].row = new BY EditorTypes
<1>3. new.key # 0 /\ (new.key = entered[x] \/ x \in raced)
  BY <1>1, <1>2 DEF WriteApply, MonitorsInv, KeysEntered
<1>4. monitors[x] \in Monitor /\ monitors \in [Monitors -> Monitor] /\ entered \in [Monitors -> Nat]
  BY EditorTypes DEF MonitorsInv, MonitorsTyped, MonitorsTypeOK
<1>5. Done(e) /\ UNCHANGED <<templates, listed, checking, entered, edited>> BY DEF WriteApply
<1>6. \/ monitors' = [monitors EXCEPT ![x].key = new.key, ![x].body = new.body] /\ Races(e, x)
      \/ UNCHANGED <<monitors, raced>>
  BY <1>1, <1>2 DEF WriteApply
<1>7. monitors[x].key # 0 /\ (monitors[x].there => entered[x] # 0) BY DEF MonitorsInv, KeysEntered
<1>8. monitors[x].there =>
         /\ monitors[x].key = entered[x] \/ x \in raced
         /\ monitors[x].template # NoTemplate => templates[monitors[x].template].there /\ Fits(monitors[x])
  BY DEF MonitorsInv, EnteredKeyKept, EditsFit, TemplateFits, Fits
<1>9. CASE monitors' = [monitors EXCEPT ![x].key = new.key, ![x].body = new.body] /\ Races(e, x)
  <2> DEFINE row == [monitors[x] EXCEPT !.key = new.key, !.body = new.body]
  <2>1. row \in Monitor /\ row.key = new.key /\ row.template = monitors[x].template
        /\ row.provider = monitors[x].provider /\ row.mode = monitors[x].mode /\ row.there = monitors[x].there
    BY <1>4 DEF Monitor
  <2>2. monitors' = [monitors EXCEPT ![x] = row] BY <1>4, <1>9
  <2>3. monitors' \in [Monitors -> Monitor] /\ monitors'[x] = row
        /\ \A y \in Monitors : y # x => monitors'[y] = monitors[y]
    BY <1>4, <2>1, <2>2
  <2>4. raced \subseteq raced' /\ raced' \subseteq Monitors BY <1>9, RacesType
  <2>5. Ends(e, x) BY <1>4, <1>5, <2>3, <2>4 DEF Ends
  <2>6. row.there /\ row.template # NoTemplate => templates[row.template].there /\ Fits(row)
    BY <1>8, <2>1 DEF Fits
  <2> HIDE DEF row
  <2> QED BY <1>3, <1>5, <1>7, <2>1, <2>3, <2>4, <2>5, <2>6, EndStep
<1>10. CASE UNCHANGED <<monitors, raced>>
  <2>1. Ends(e, x) BY <1>4, <1>5, <1>10 DEF Ends, MonitorsInv, MonitorsTyped, MonitorsTypeOK
  <2> QED BY <1>5, <1>7, <1>8, <1>10, <2>1, EndStep
<1> QED BY <1>6, <1>9, <1>10

\* A monitor that is new: nobody has read it.
Appears(x, row) ==
  /\ entered[x] = 0 /\ monitors' = [monitors EXCEPT ![x] = row] /\ entered' = [entered EXCEPT ![x] = row.key]
  /\ UNCHANGED <<templates, listed, checking, editor, raced, edited>>

\* It keeps the invariant if its template fits and its key was entered.
LEMMA AppearStep ==
  ASSUME MonitorsInv, NEW x \in Monitors, NEW row \in Monitor, Appears(x, row), row.key # 0,
         row.template # NoTemplate => templates[row.template].there /\ Fits(row)
  PROVE  MonitorsInv'
<1>1. monitors \in [Monitors -> Monitor] /\ entered \in [Monitors -> Nat] /\ row.key \in Nat
  BY DEF MonitorsInv, MonitorsTyped, MonitorsTypeOK, Monitor
<1>2. /\ monitors' \in [Monitors -> Monitor] /\ monitors'[x] = row
      /\ entered' \in [Monitors -> Nat] /\ entered'[x] = row.key
      /\ \A y \in Monitors : y # x => monitors'[y] = monitors[y] /\ entered'[y] = entered[y]
  BY <1>1 DEF Appears
<1>3. entered[x] = 0 /\ UNCHANGED <<templates, listed, checking, editor, raced, edited>> BY DEF Appears
<1>4. MonitorsTyped' BY <1>2, <1>3 DEF MonitorsInv, MonitorsTyped, MonitorsTypeOK
<1>5. EditsFit'
  <2>1. TemplateFits'
    <3> SUFFICES ASSUME NEW y \in Monitors, monitors'[y].there, monitors'[y].template # NoTemplate
                 PROVE  LET t == templates[monitors'[y].template] IN
                        /\ t.there /\ t.provider = monitors'[y].provider
                        /\ t.mode = monitors'[y].mode \/ monitors'[y].template \in edited
      BY <1>3 DEF TemplateFits
    <3>1. CASE y = x BY <1>2, <3>1 DEF Fits
    <3>2. CASE y # x BY <1>2, <3>2 DEF MonitorsInv, EditsFit, TemplateFits
    <3> QED BY <3>1, <3>2
  <2> QED BY <1>3, <2>1 DEF MonitorsInv, EditsFit, Fits
<1>6. EnteredKeyKept' BY <1>2, <1>3 DEF MonitorsInv, EnteredKeyKept
<1>7. KeysEntered'
  <2>1. \A f \in Editors : editor[f].pc # "idle" => editor[f].id \in Monitors /\ editor[f].id # x
    BY <1>3, EditorTypes DEF MonitorsInv, KeysEntered
  <2> QED BY <1>2, <1>3, <2>1 DEF MonitorsInv, KeysEntered
<1> QED BY <1>4, <1>5, <1>6, <1>7 DEF MonitorsInv

\* create.
LEMMA CreateStep ==
  ASSUME MonitorsInv, NEW x \in Monitors, NEW on \in BOOLEAN, NEW t \in Templates \cup {NoTemplate},
         CreateMonitor(x, on, t)
  PROVE  MonitorsInv'
<1> DEFINE new == [monitors[x] EXCEPT !.there = TRUE, !.on = on, !.template = t, !.body = BodyOf(t)]
<1>1. monitors[x] \in Monitor /\ BodyOf(t) \in Nat
  BY DEF BodyOf, Template, MonitorsInv, MonitorsTyped, MonitorsTypeOK
<1>2. new \in Monitor /\ new.key = monitors[x].key /\ new.template = t BY <1>1 DEF Monitor
<1>3. Appears(x, new) BY DEF CreateMonitor, Appears
<1>4. Compatible(t, new.provider, new.mode) BY DEF CreateMonitor
<1>5. new.key # 0 BY <1>2 DEF MonitorsInv, KeysEntered
<1>6. new.template # NoTemplate => templates[new.template].there /\ Fits(new) BY <1>2, <1>4 DEF Compatible, Fits
<1> HIDE DEF new
<1> QED BY <1>2, <1>3, <1>5, <1>6, AppearStep

\* duplicate copies the row, the key too.
LEMMA DuplicateStep ==
  ASSUME MonitorsInv, NEW x \in Monitors, NEW y \in Monitors, DuplicateMonitor(x, y)
  PROVE  MonitorsInv'
<1> DEFINE new == [monitors[y] EXCEPT !.on = FALSE, !.due = TRUE]
<1>1. monitors[y] \in Monitor BY DEF MonitorsInv, MonitorsTyped, MonitorsTypeOK
<1>2. new \in Monitor /\ new.key = monitors[y].key /\ new.template = monitors[y].template
      /\ new.provider = monitors[y].provider /\ new.mode = monitors[y].mode
  BY <1>1 DEF Monitor
<1>3. Appears(x, new) BY <1>2 DEF DuplicateMonitor, Appears
<1>4. new.key # 0 BY <1>2 DEF MonitorsInv, KeysEntered
<1>5. new.template # NoTemplate => templates[new.template].there /\ Fits(new)
  BY <1>2 DEF DuplicateMonitor, MonitorsInv, EditsFit, TemplateFits, Fits
<1> HIDE DEF new
<1> QED BY <1>2, <1>3, <1>4, <1>5, AppearStep

\* update_template: a changed api_mode is the one way not to fit.
LEMMA UpdateTemplateStep ==
  ASSUME MonitorsInv, NEW t \in Templates, NEW m \in Modes, UpdateTemplate(t, m)
  PROVE  MonitorsInv'
<1>1. /\ templates' = [templates EXCEPT ![t].mode = m, ![t].body = @ + 1]
      /\ edited' = edited \cup {t}
      /\ UNCHANGED <<monitors, listed, checking, editor, entered, raced>>
  BY DEF UpdateTemplate
<1>2. templates \in [Templates -> Template] BY DEF MonitorsInv, MonitorsTyped, MonitorsTypeOK
<1>3. /\ templates' \in [Templates -> Template]
      /\ \A u \in Templates : /\ templates'[u].there = templates[u].there
                              /\ templates'[u].provider = templates[u].provider
                              /\ u # t => templates'[u] = templates[u]
  BY <1>1, <1>2 DEF Template
<1>4. MonitorsTyped' BY <1>1, <1>3 DEF MonitorsInv, MonitorsTyped, MonitorsTypeOK
<1>5. \A row \in Monitor : Fits(row) => Fits(row)' BY <1>1, <1>3 DEF Fits, Monitor
<1>6. TemplateFits'
  <2> SUFFICES ASSUME NEW x \in Monitors, monitors[x].there, monitors[x].template # NoTemplate
               PROVE  LET u == templates'[monitors[x].template] IN
                      /\ u.there /\ u.provider = monitors[x].provider
                      /\ u.mode = monitors[x].mode \/ monitors[x].template \in edited'
    BY <1>1 DEF TemplateFits
  <2>1. monitors[x].template \in Templates BY DEF MonitorsInv, MonitorsTyped, MonitorsTypeOK, Monitor
  <2> QED BY <1>1, <1>3, <2>1 DEF MonitorsInv, EditsFit, TemplateFits
<1>7. EditsFit' BY <1>1, <1>5, <1>6, EditorTypes DEF MonitorsInv, EditsFit
<1>8. EnteredKeyKept' /\ KeysEntered' BY <1>1 DEF MonitorsInv, EnteredKeyKept, KeysEntered
<1> QED BY <1>4, <1>7, <1>8 DEF MonitorsInv

\* delete_template: its monitors keep their rows, without it.
LEMMA DeleteTemplateStep ==
  ASSUME MonitorsInv, NEW t \in Templates, DeleteTemplate(t)
  PROVE  MonitorsInv'
<1>1. /\ templates' = [templates EXCEPT ![t].there = FALSE]
      /\ monitors' = [x \in Monitors |-> IF monitors[x].template = t
                                     THEN [monitors[x] EXCEPT !.template = NoTemplate] ELSE monitors[x]]
      /\ UNCHANGED <<listed, checking, editor, entered, raced, edited>>
  BY DEF DeleteTemplate
<1>2. templates \in [Templates -> Template] /\ monitors \in [Monitors -> Monitor]
  BY DEF MonitorsInv, MonitorsTyped, MonitorsTypeOK
<1>3. /\ templates' \in [Templates -> Template]
      /\ \A u \in Templates : /\ templates'[u].mode = templates[u].mode
                              /\ templates'[u].provider = templates[u].provider
                              /\ u # t => templates'[u] = templates[u]
  BY <1>1, <1>2 DEF Template
<1>4. /\ monitors' \in [Monitors -> Monitor]
      /\ \A x \in Monitors : /\ monitors'[x].there = monitors[x].there /\ monitors'[x].key = monitors[x].key
                             /\ monitors'[x].template # NoTemplate =>
                                  monitors'[x] = monitors[x] /\ monitors[x].template # t
  <2> SUFFICES ASSUME NEW x \in Monitors
               PROVE  /\ monitors'[x] \in Monitor
                      /\ monitors'[x].there = monitors[x].there /\ monitors'[x].key = monitors[x].key
                      /\ monitors'[x].template # NoTemplate =>
                           monitors'[x] = monitors[x] /\ monitors[x].template # t
    BY <1>1
  <2>1. monitors[x] \in Monitor BY <1>2
  <2>2. CASE monitors[x].template = t BY <1>1, <2>1, <2>2 DEF Monitor
  <2>3. CASE monitors[x].template # t BY <1>1, <2>1, <2>3 DEF Monitor
  <2> QED BY <2>2, <2>3
<1>5. MonitorsTyped' BY <1>1, <1>3, <1>4 DEF MonitorsInv, MonitorsTyped, MonitorsTypeOK
<1>6. \A row \in Monitor : Fits(row) => Fits(row)' BY <1>1, <1>3 DEF Fits, Monitor
<1>7. TemplateFits'
  <2> SUFFICES ASSUME NEW x \in Monitors, monitors'[x].there, monitors'[x].template # NoTemplate
               PROVE  LET u == templates'[monitors'[x].template] IN
                      /\ u.there /\ u.provider = monitors'[x].provider
                      /\ u.mode = monitors'[x].mode \/ monitors'[x].template \in edited
    BY <1>1 DEF TemplateFits
  <2>1. monitors'[x] = monitors[x] /\ monitors[x].template # t BY <1>4
  <2>2. monitors[x].template \in Templates BY <2>1 DEF MonitorsInv, MonitorsTyped, MonitorsTypeOK, Monitor
  <2>3. templates'[monitors[x].template] = templates[monitors[x].template] BY <1>3, <2>1, <2>2
  <2> QED BY <2>1, <2>3 DEF MonitorsInv, EditsFit, TemplateFits
<1>8. EditsFit' BY <1>1, <1>6, <1>7, EditorTypes DEF MonitorsInv, EditsFit
<1>9. EnteredKeyKept' /\ KeysEntered' BY <1>1, <1>4 DEF MonitorsInv, EnteredKeyKept, KeysEntered
<1> QED BY <1>5, <1>8, <1>9 DEF MonitorsInv

\* Every step keeps the invariant.
LEMMA MonitorsStep == MonitorsInv /\ [MonitorNext]_monitorVars => MonitorsInv'
<1> SUFFICES ASSUME MonitorsInv, [MonitorNext]_monitorVars PROVE MonitorsInv' OBVIOUS
<1>1. CASE ScannerStep \/ \E r \in Checkers : StoreCheck(r) \/ \E x \in Monitors : CheckerBegins(r, x)
  BY <1>1, CheckSteps, AsideStep
<1>2. ASSUME NEW x \in Monitors, ComesDue(x) \/ DeleteMonitor(x) \/ SwitchMonitor(x) PROVE MonitorsInv'
  BY <1>2, PlainSteps, AsideStep
<1>3. ASSUME NEW x \in Monitors, NEW y \in Monitors, DuplicateMonitor(x, y) PROVE MonitorsInv'
  BY <1>3, DuplicateStep
<1>4. ASSUME NEW x \in Monitors, NEW on \in BOOLEAN, NEW t \in Templates \cup {NoTemplate}, CreateMonitor(x, on, t)
      PROVE  MonitorsInv'
  BY <1>4, CreateStep
<1>5. ASSUME NEW e \in Editors, WriteUpdate(e) \/ WriteApply(e) PROVE MonitorsInv'
  BY <1>5, WriteUpdateStep, WriteApplyStep
<1>6. ASSUME NEW e \in Editors, NEW x \in Monitors, NEW t \in Templates, ReadForApply(e, x, t) PROVE MonitorsInv'
  BY <1>6, ReadForApplyStep
<1>7. ASSUME NEW e \in Editors, NEW x \in Monitors, NEW p \in Providers, NEW m \in Modes,
             NEW t \in Templates \cup {NoTemplate}, NEW k \in {1, 2}, ReadForUpdate(e, x, p, m, t, k)
      PROVE  MonitorsInv'
  BY <1>7, ReadForUpdateStep
<1>8. ASSUME NEW t \in Templates, DeleteTemplate(t) PROVE MonitorsInv' BY <1>8, DeleteTemplateStep
<1>9. ASSUME NEW t \in Templates, NEW m \in Modes, UpdateTemplate(t, m) PROVE MonitorsInv'
  BY <1>9, UpdateTemplateStep
<1>10. CASE UNCHANGED monitorVars BY <1>10, Unmoved DEF monitorVars
<1> QED BY <1>1, <1>2, <1>3, <1>4, <1>5, <1>6, <1>7, <1>8, <1>9, <1>10 DEF MonitorNext

\* In every behaviour, whatever the monitors, templates and requests: a
\* monitor fits the provider of its template, and the api_mode unless that
\* was edited after, and it uses the key last entered for it unless two
\* requests wrote it from the same row (channel_monitor.rs, update,
\* apply_template).
THEOREM MonitorsCorrect == MonitorSpec => []MonitorsSafe
<1>1. MonitorsInv => MonitorsSafe BY DEF MonitorsInv, MonitorsTyped, EditsFit, MonitorsSafe
<1> QED BY <1>1, MonitorsInitially, MonitorsStep, PTL DEF MonitorSpec
-----------------------------------------------------------------------------
(*                            Alerts (OpsAlerts)                           *)

\* An evaluation is under way.
Evaluating(e) == evaluation[e].pc # "idle"

\* An evaluation that met no other is the only one.
OnlyAlone ==
  \A e, f \in Evaluators : (e # f /\ Evaluating(e) /\ evaluation[e].alone) => ~Evaluating(f)
\* Such a one knows last_triggered_at of the rules it still has to look at.
SeenFresh ==
  \A e \in Evaluators : (Evaluating(e) /\ evaluation[e].alone) =>
    \A q \in evaluation[e].todo : evaluation[e].seen[q] = rules[q].last
\* A marked alarm is not later than last_triggered_at.
MarkedKnown ==
  \A i \in 1 .. Len(alarms) :
    (alarms[i].marked /\ rules[alarms[i].rule].there) => alarms[i].at <= rules[alarms[i].rule].last
\* No alarm is of the future.
NothingLater == \A i \in 1 .. Len(alarms) : alarms[i].at <= clock
\* The alarm an evaluation is about to mark is one of its rule, and none
\* after it is of an evaluation that met no other.
BeingMarked ==
  \A e \in Evaluators : evaluation[e].pc = "mark" =>
    LET i == evaluation[e].firing IN
    /\ i # 0 /\ alarms[i].rule = RuleOf(e)
    /\ \A j \in 1 .. Len(alarms) : j > i => ~alarms[j].alone

\* The invariant of the alerts.
AlertInv ==
  /\ AlertTypeOK /\ FiringBounded /\ CooldownKept
  /\ OnlyAlone /\ SeenFresh /\ MarkedKnown /\ NothingLater /\ BeingMarked

\* The rule an evaluation is at is one it still has to look at: the least.
LEMMA RuleOfType ==
  ASSUME AlertTypeOK, NEW e \in Evaluators, Evaluating(e)
  PROVE  RuleOf(e) \in evaluation[e].todo /\ RuleOf(e) \in AlertRules /\ evaluation[e].todo \subseteq AlertRules
<1>1. evaluation[e].todo # {} /\ evaluation[e].todo \in SUBSET AlertRules
  BY DEF AlertTypeOK, Evaluation, Evaluating
<1>2. evaluation[e].todo \in SUBSET Nat BY <1>1, AlertAssumption
<1>3. \E r \in evaluation[e].todo : \A q \in evaluation[e].todo : r <= q BY <1>1, <1>2, LeastOf
<1>4. RuleOf(e) \in evaluation[e].todo BY <1>3 DEF RuleOf
<1> QED BY <1>1, <1>4

\* An evaluation at rest is one.
LEMMA RestingType == Resting \in Evaluation /\ Resting.pc = "idle" /\ Resting.firing = 0
BY DEF Resting, Evaluation, Never

\* Types of what an alarm and a rule hold.
LEMMA AlarmTypes ==
  ASSUME AlertTypeOK
  PROVE  /\ Len(alarms) \in Nat
         /\ \A i \in 1 .. Len(alarms) : /\ alarms[i] \in Alarm /\ alarms[i].rule \in AlertRules
                                        /\ alarms[i].at \in Nat /\ alarms[i].status \in EventStates
                                        /\ alarms[i].gone \in BOOLEAN /\ alarms[i].alone \in BOOLEAN
                                        /\ alarms[i].marked \in BOOLEAN
         /\ \A r \in AlertRules : rules[r].last \in Int /\ (rules[r].last = Never \/ rules[r].last \in Nat)
<1>1. alarms \in Seq(Alarm) BY DEF AlertTypeOK
<1>2. Len(alarms) \in Nat /\ \A i \in 1 .. Len(alarms) : alarms[i] \in Alarm BY <1>1, ElementOfSeq, LenProperties
<1>3. \A r \in AlertRules : rules[r].last \in Nat \cup {Never} BY DEF AlertTypeOK
<1> QED BY <1>2, <1>3 DEF Alarm, Never

\* The sets that are counted are finite.
LEMMA FiniteCounts ==
  ASSUME AlertTypeOK, NEW r \in AlertRules
  PROVE  /\ IsFiniteSet(Firing(r)) /\ IsFiniteSet(AboutToFire(r)) /\ IsFiniteSet(Evaluators)
         /\ Cardinality(Firing(r)) \in Nat /\ Cardinality(AboutToFire(r)) \in Nat /\ Cardinality(Evaluators) \in Nat
         /\ Cardinality(AboutToFire(r)) <= Cardinality(Evaluators)
<1>1. Len(alarms) \in Nat BY AlarmTypes
<1>2. IsFiniteSet(1 .. Len(alarms)) BY <1>1, FS_Interval
<1>3. Firing(r) \in SUBSET (1 .. Len(alarms)) /\ AboutToFire(r) \in SUBSET Evaluators BY DEF Firing, AboutToFire
<1>4. IsFiniteSet(Evaluators) BY AlertAssumption
<1>5. IsFiniteSet(Firing(r)) /\ IsFiniteSet(AboutToFire(r)) /\ Cardinality(AboutToFire(r)) <= Cardinality(Evaluators)
  BY <1>2, <1>3, <1>4, FS_Subset
<1> QED BY <1>4, <1>5, FS_CardinalityType

\* The invariant holds at first.
LEMMA AlertsInitially == AlertInit => AlertInv
<1> SUFFICES ASSUME AlertInit PROVE AlertInv OBVIOUS
<1>1. alarms = <<>> /\ Len(alarms) = 0 BY DEF AlertInit
<1>2. \A e \in Evaluators : evaluation[e] = Resting BY DEF AlertInit
<1>3. AlertTypeOK
  <2>1. evaluation \in [Evaluators -> Evaluation] BY RestingType DEF AlertInit
  <2>2. alarms \in Seq(Alarm) BY <1>1
  <2> QED BY <1>1, <1>2, <2>1, <2>2, RestingType DEF AlertInit, AlertTypeOK
<1>4. FiringBounded
  <2> SUFFICES ASSUME NEW r \in AlertRules
               PROVE  Cardinality(Firing(r)) + Cardinality(AboutToFire(r)) <= Cardinality(Evaluators)
    BY DEF FiringBounded
  <2>1. Firing(r) = {} BY <1>1 DEF Firing
  <2>2. Cardinality(Firing(r)) = 0 BY <2>1, FS_EmptySet
  <2> QED BY <1>3, <2>2, FiniteCounts
<1>5. OnlyAlone /\ SeenFresh /\ BeingMarked BY <1>2, RestingType DEF OnlyAlone, SeenFresh, BeingMarked, Evaluating
<1>6. CooldownKept /\ MarkedKnown /\ NothingLater BY <1>1 DEF CooldownKept, MarkedKnown, NothingLater
<1> QED BY <1>3, <1>4, <1>5, <1>6 DEF AlertInv

\* What most steps keep: the alarms stay what they are, but for their status.
AlarmsKeep ==
  /\ alarms' \in Seq(Alarm) /\ Len(alarms') = Len(alarms)
  /\ \A i \in 1 .. Len(alarms) :
       /\ alarms'[i].rule = alarms[i].rule /\ alarms'[i].at = alarms[i].at
       /\ alarms'[i].alone = alarms[i].alone /\ alarms'[i].marked = alarms[i].marked
       /\ alarms[i].gone => alarms'[i].gone
       /\ alarms'[i].status = "firing" => alarms[i].status = "firing"
\* Rules keep last_triggered_at and do not come back; the clock does not go
\* back.
RulesKeep ==
  /\ rules' \in [AlertRules -> [there : BOOLEAN, enabled : BOOLEAN, last : Nat \cup {Never}]]
  /\ \A r \in AlertRules : (rules'[r].there => rules[r].there) /\ rules'[r].last = rules[r].last
ClockKeeps == clock' \in Nat /\ clock <= clock' /\ breached' \subseteq AlertRules

\* Steps that keep all that disturb no alarm.
LEMMA KeepStep ==
  ASSUME AlertInv, AlarmsKeep, RulesKeep, ClockKeeps
  PROVE  CooldownKept' /\ MarkedKnown' /\ NothingLater' /\ \A r \in AlertRules : Firing(r)' \subseteq Firing(r)
<1>1. CooldownKept' BY DEF AlertInv, CooldownKept, AlarmsKeep
<1>2. MarkedKnown'
  <2> SUFFICES ASSUME NEW i \in 1 .. Len(alarms), alarms'[i].marked, rules'[alarms'[i].rule].there
               PROVE  alarms'[i].at <= rules'[alarms'[i].rule].last
    BY DEF MarkedKnown, AlarmsKeep
  <2>1. alarms[i].rule \in AlertRules /\ alarms'[i].rule = alarms[i].rule /\ alarms'[i].at = alarms[i].at
        /\ alarms[i].marked
    BY AlarmTypes DEF AlertInv, AlarmsKeep
  <2> QED BY <2>1 DEF AlertInv, MarkedKnown, RulesKeep
<1>3. NothingLater'
  <2> SUFFICES ASSUME NEW i \in 1 .. Len(alarms) PROVE alarms[i].at <= clock'
    BY DEF NothingLater, AlarmsKeep
  <2>1. alarms[i].at \in Nat /\ clock \in Nat /\ alarms[i].at <= clock
    BY AlarmTypes DEF AlertInv, AlertTypeOK, NothingLater
  <2> QED BY <2>1 DEF ClockKeeps
<1>4. ASSUME NEW r \in AlertRules PROVE Firing(r)' \subseteq Firing(r)
  <2> SUFFICES ASSUME NEW i \in Firing(r)' PROVE i \in Firing(r) OBVIOUS
  <2>1. i \in 1 .. Len(alarms) /\ alarms'[i].rule = r /\ alarms'[i].status = "firing"
        /\ rules'[alarms'[i].rule].there /\ ~alarms'[i].gone
    BY DEF Firing, Alive, AlarmsKeep
  <2>2. alarms[i].rule = r /\ alarms[i].status = "firing" /\ ~alarms[i].gone BY <2>1 DEF AlarmsKeep
  <2>3. rules[r].there BY <2>1 DEF RulesKeep
  <2> QED BY <2>1, <2>2, <2>3 DEF Firing, Alive
<1> QED BY <1>1, <1>2, <1>3, <1>4

\* Fewer firing events and fewer evaluations about to insert one.
LEMMA CountsShrink ==
  ASSUME AlertInv, AlertTypeOK',
         \A r \in AlertRules : Firing(r)' \subseteq Firing(r) /\ AboutToFire(r)' \subseteq AboutToFire(r)
  PROVE  FiringBounded'
<1> SUFFICES ASSUME NEW r \in AlertRules
             PROVE  Cardinality(Firing(r)') + Cardinality(AboutToFire(r)') <= Cardinality(Evaluators)
  BY DEF FiringBounded
<1>1. AlertTypeOK BY DEF AlertInv
<1>2. /\ IsFiniteSet(Firing(r)) /\ IsFiniteSet(AboutToFire(r))
      /\ Cardinality(Firing(r)) \in Nat /\ Cardinality(AboutToFire(r)) \in Nat /\ Cardinality(Evaluators) \in Nat
  BY <1>1, FiniteCounts
<1> DEFINE F == Firing(r)'
           A == AboutToFire(r)'
<1>3. F \in SUBSET Firing(r) /\ A \in SUBSET AboutToFire(r) OBVIOUS
<1> HIDE DEF F, A
<1>4. /\ Cardinality(F) <= Cardinality(Firing(r)) /\ Cardinality(A) <= Cardinality(AboutToFire(r))
      /\ IsFiniteSet(F) /\ IsFiniteSet(A)
  BY <1>2, <1>3, FS_Subset
<1>5. Cardinality(F) \in Nat /\ Cardinality(A) \in Nat BY <1>4, FS_CardinalityType
<1>6. Cardinality(Firing(r)) + Cardinality(AboutToFire(r)) <= Cardinality(Evaluators) BY DEF AlertInv, FiringBounded
<1>7. Cardinality(F) + Cardinality(A) <= Cardinality(Evaluators) BY <1>2, <1>4, <1>5, <1>6
<1> QED BY <1>7 DEF F, A

\* One evaluation goes on, or ends.
Goes(e, new) ==
  /\ evaluation' = [evaluation EXCEPT ![e] = new] /\ new \in Evaluation
  /\ \/ new.pc = "idle"
     \/ /\ Evaluating(e) /\ new.pc # "idle" /\ new.todo # {} /\ new.todo \subseteq evaluation[e].todo
        /\ new.alone = evaluation[e].alone /\ new.seen = evaluation[e].seen

\* It stays an evaluation, the others what they are.
LEMMA GoesTyped ==
  ASSUME AlertInv, NEW e \in Evaluators, NEW new, Goes(e, new)
  PROVE  /\ evaluation' \in [Evaluators -> Evaluation] /\ evaluation'[e] = new
         /\ \A f \in Evaluators : f # e => evaluation'[f] = evaluation[f]
         /\ \A f \in Evaluators : f # e => RuleOf(f)' = RuleOf(f)
         /\ \A f \in Evaluators : Evaluating(f)' => Evaluating(f)
         /\ \A f \in Evaluators : Evaluating(f)' => evaluation'[f].todo # {}
<1>1. evaluation \in [Evaluators -> Evaluation] BY DEF AlertInv, AlertTypeOK
<1>2. evaluation' \in [Evaluators -> Evaluation] /\ evaluation'[e] = new
      /\ \A f \in Evaluators : f # e => evaluation'[f] = evaluation[f]
  BY <1>1 DEF Goes
<1>3. \A f \in Evaluators : f # e => RuleOf(f)' = RuleOf(f) BY <1>2 DEF RuleOf
<1>4. \A f \in Evaluators : Evaluating(f)' => Evaluating(f) BY <1>2 DEF Goes, Evaluating
<1>5. \A f \in Evaluators : Evaluating(f)' => evaluation'[f].todo # {}
  BY <1>2 DEF Goes, Evaluating, AlertInv, AlertTypeOK
<1> QED BY <1>2, <1>3, <1>4, <1>5

\* Who met no other is still alone, and knows the rules still to come.
LEMMA GoesAlone ==
  ASSUME AlertInv, NEW e \in Evaluators, NEW new, Goes(e, new),
         \A q \in AlertRules : rules'[q].last = rules[q].last \/ (Evaluating(e) /\ q \notin new.todo)
  PROVE  OnlyAlone' /\ SeenFresh'
<1>1. OnlyAlone' BY GoesTyped DEF AlertInv, OnlyAlone, Goes, Evaluating
<1>2. SeenFresh'
  <2> SUFFICES ASSUME NEW f \in Evaluators, Evaluating(f)', evaluation'[f].alone, NEW q \in evaluation'[f].todo
               PROVE  evaluation'[f].seen[q] = rules'[q].last
    BY DEF SeenFresh
  <2>1. Evaluating(f) /\ evaluation[f].alone /\ evaluation'[f].seen = evaluation[f].seen /\ q \in evaluation[f].todo
    BY GoesTyped DEF Goes, Evaluating
  <2>2. evaluation[f].seen[q] = rules[q].last BY <2>1 DEF AlertInv, SeenFresh
  <2>3. q \in AlertRules BY <2>1, RuleOfType DEF AlertInv
  <2>4. f # e => ~Evaluating(e) BY <2>1 DEF AlertInv, OnlyAlone
  <2>5. f = e => q \in new.todo BY GoesTyped
  <2> QED BY <2>1, <2>2, <2>3, <2>4, <2>5
<1> QED BY <1>1, <1>2

\* It keeps the invariant where it disturbs no alarm.
LEMMA GoesStep ==
  ASSUME AlertInv, NEW e \in Evaluators, NEW new, Goes(e, new), AlarmsKeep, RulesKeep, ClockKeeps,
         new.firing \in 0 .. Len(alarms), new.pc # "mark",
         new.pc = "decide" /\ new.firing = 0 => FiringBounded'
  PROVE  AlertInv'
<1>1. AlertTypeOK'
  <2>1. \A f \in Evaluators : evaluation'[f].firing \in 0 .. Len(alarms) BY GoesTyped DEF AlertInv, AlertTypeOK
  <2>2. evaluation' \in [Evaluators -> Evaluation] /\ \A f \in Evaluators : evaluation'[f].pc # "idle" => evaluation'[f].todo # {}
    BY GoesTyped DEF Evaluating
  <2> QED BY <2>1, <2>2 DEF AlertTypeOK, AlarmsKeep, RulesKeep, ClockKeeps
<1>2. CooldownKept' /\ MarkedKnown' /\ NothingLater' /\ \A r \in AlertRules : Firing(r)' \subseteq Firing(r)
  BY KeepStep
<1>3. OnlyAlone' /\ SeenFresh' BY GoesAlone DEF RulesKeep
<1>4. BeingMarked'
  <2> SUFFICES ASSUME NEW f \in Evaluators, evaluation'[f].pc = "mark"
               PROVE  LET i == evaluation'[f].firing IN
                      /\ i # 0 /\ alarms'[i].rule = RuleOf(f)'
                      /\ \A j \in 1 .. Len(alarms') : j > i => ~alarms'[j].alone
    BY DEF BeingMarked
  <2>1. f # e /\ evaluation'[f] = evaluation[f] /\ RuleOf(f)' = RuleOf(f) BY GoesTyped
  <2>2. LET i == evaluation[f].firing IN
        /\ i # 0 /\ alarms[i].rule = RuleOf(f)
        /\ \A j \in 1 .. Len(alarms) : j > i => ~alarms[j].alone
    BY <2>1 DEF AlertInv, BeingMarked
  <2>3. evaluation[f].firing \in 1 .. Len(alarms) BY <2>2, AlarmTypes DEF AlertInv, AlertTypeOK
  <2> QED BY <2>1, <2>2, <2>3 DEF AlarmsKeep
<1>5. CASE ~(new.pc = "decide" /\ new.firing = 0)
  <2>1. \A r \in AlertRules : AboutToFire(r)' \subseteq AboutToFire(r)
    BY <1>5, GoesTyped DEF AboutToFire
  <2>2. FiringBounded' BY <1>1, <1>2, <2>1, CountsShrink
  <2> QED BY <1>1, <1>2, <1>3, <1>4, <2>2 DEF AlertInv
<1>6. CASE new.pc = "decide" /\ new.firing = 0 BY <1>1, <1>2, <1>3, <1>4, <1>6 DEF AlertInv
<1> QED BY <1>5, <1>6

\* Steps that touch no evaluation.
LEMMA OutsideStep ==
  ASSUME AlertInv, UNCHANGED evaluation, AlarmsKeep, RulesKeep, ClockKeeps
  PROVE  AlertInv'
<1>1. AlertTypeOK' BY DEF AlertInv, AlertTypeOK, AlarmsKeep, RulesKeep, ClockKeeps
<1>2. CooldownKept' /\ MarkedKnown' /\ NothingLater' /\ \A r \in AlertRules : Firing(r)' \subseteq Firing(r)
  BY KeepStep
<1>3. \A e \in Evaluators : RuleOf(e)' = RuleOf(e) /\ (Evaluating(e)' <=> Evaluating(e)) BY DEF RuleOf, Evaluating
<1>4. OnlyAlone' BY <1>3 DEF AlertInv, OnlyAlone
<1>5. SeenFresh'
  <2> SUFFICES ASSUME NEW e \in Evaluators, Evaluating(e), evaluation[e].alone, NEW q \in evaluation[e].todo
               PROVE  evaluation[e].seen[q] = rules'[q].last
    BY <1>3 DEF SeenFresh
  <2>1. q \in AlertRules BY RuleOfType DEF AlertInv
  <2> QED BY <2>1 DEF AlertInv, SeenFresh, RulesKeep
<1>6. BeingMarked'
  <2> SUFFICES ASSUME NEW f \in Evaluators, evaluation[f].pc = "mark"
               PROVE  LET i == evaluation[f].firing IN
                      /\ i # 0 /\ alarms'[i].rule = RuleOf(f)
                      /\ \A j \in 1 .. Len(alarms') : j > i => ~alarms'[j].alone
    BY <1>3 DEF BeingMarked
  <2>1. LET i == evaluation[f].firing IN
        /\ i # 0 /\ alarms[i].rule = RuleOf(f)
        /\ \A j \in 1 .. Len(alarms) : j > i => ~alarms[j].alone
    BY DEF AlertInv, BeingMarked
  <2>2. evaluation[f].firing \in 1 .. Len(alarms) BY <2>1, AlarmTypes DEF AlertInv, AlertTypeOK
  <2> QED BY <2>1, <2>2 DEF AlarmsKeep
<1>7. FiringBounded'
  <2>1. \A r \in AlertRules : AboutToFire(r)' \subseteq AboutToFire(r) BY <1>3 DEF AboutToFire
  <2> QED BY <1>1, <1>2, <2>1, CountsShrink
<1> QED BY <1>1, <1>2, <1>4, <1>5, <1>6, <1>7 DEF AlertInv

\* A step of the evaluation alone.
LEMMA NothingMoves ==
  ASSUME AlertInv, UNCHANGED <<clock, breached, rules, alarms>>
  PROVE  AlarmsKeep /\ RulesKeep /\ ClockKeeps
<1>1. clock \in Nat /\ clock <= clock BY DEF AlertInv, AlertTypeOK
<1> QED BY <1>1 DEF AlertInv, AlertTypeOK, AlarmsKeep, RulesKeep, ClockKeeps

\* On to the next rule.
LEMMA NextRuleGoes ==
  ASSUME AlertInv, NEW e \in Evaluators, Evaluating(e), NextRule(e)
  PROVE  \E new : /\ Goes(e, new) /\ new.firing \in 0 .. Len(alarms) /\ new.pc \in {"idle", "metric"}
                  /\ new.pc # "idle" => RuleOf(e) \notin new.todo
                  /\ new.pc = "idle" => new.todo = {}
<1> DEFINE rest == evaluation[e].todo \ {RuleOf(e)}
<1>1. evaluation[e] \in Evaluation /\ evaluation[e].firing \in 0 .. Len(alarms) /\ rest \in SUBSET AlertRules
  BY RuleOfType DEF AlertInv, AlertTypeOK
<1>2. 0 \in 0 .. Len(alarms) BY AlarmTypes DEF AlertInv
<1>3. CASE rest = {}
  <2>1. evaluation' = [evaluation EXCEPT ![e] = Resting] BY <1>3 DEF NextRule
  <2>2. Goes(e, Resting) BY <2>1, RestingType DEF Goes
  <2>3. Resting.todo = {} BY DEF Resting
  <2> QED BY <1>2, <2>2, <2>3, RestingType
<1>4. CASE rest # {}
  <2> DEFINE new == [evaluation[e] EXCEPT !.pc = "metric", !.todo = rest]
  <2>1. evaluation' = [evaluation EXCEPT ![e] = new]
    BY <1>4 DEF NextRule, AlertInv, AlertTypeOK
  <2>2. new \in Evaluation /\ new.pc = "metric" /\ new.todo = rest /\ new.firing = evaluation[e].firing
        /\ new.alone = evaluation[e].alone /\ new.seen = evaluation[e].seen
    BY <1>1 DEF Evaluation
  <2> HIDE DEF new
  <2>3. Goes(e, new) BY <1>4, <2>1, <2>2 DEF Goes
  <2>4. RuleOf(e) \notin new.todo BY <2>2
  <2> QED BY <1>1, <2>2, <2>3, <2>4
<1> QED BY <1>3, <1>4

\* The metric is compared.
LEMMA ReadMetricStep == \A e \in Evaluators : AlertInv /\ ReadMetric(e) => AlertInv'
<1> SUFFICES ASSUME NEW e \in Evaluators, AlertInv, ReadMetric(e) PROVE AlertInv' OBVIOUS
<1>1. evaluation[e] \in Evaluation /\ evaluation \in [Evaluators -> Evaluation]
      /\ evaluation[e].firing \in 0 .. Len(alarms)
  BY DEF AlertInv, AlertTypeOK
<1> DEFINE x == evaluation[e]
           m == RuleOf(e) \in breached
           new == [x EXCEPT !.pc = "look", !.matches = m]
<1>2. evaluation' = [evaluation EXCEPT ![e] = new] BY <1>1 DEF ReadMetric
<1>2a. x \in Evaluation /\ m \in BOOLEAN BY <1>1
<1>3. new \in Evaluation /\ new.pc = "look" /\ new.todo = evaluation[e].todo /\ new.firing = evaluation[e].firing
      /\ new.alone = evaluation[e].alone /\ new.seen = evaluation[e].seen
  <2>1. /\ new \in Evaluation /\ new.pc = "look" /\ new.todo = x.todo /\ new.firing = x.firing
        /\ new.alone = x.alone /\ new.seen = x.seen
    <3> HIDE DEF x, m
    <3> QED BY <1>2a DEF Evaluation
  <2> QED BY <2>1
<1> HIDE DEF new
<1>4. Evaluating(e) /\ evaluation[e].todo # {} BY DEF ReadMetric, Evaluating, AlertInv, AlertTypeOK
<1>5. Goes(e, new) BY <1>2, <1>3, <1>4 DEF Goes
<1>6. AlarmsKeep /\ RulesKeep /\ ClockKeeps BY NothingMoves DEF ReadMetric
<1> QED BY <1>1, <1>3, <1>5, <1>6, GoesStep

\* The rule's newest firing event is looked for; an evaluation that found
\* none counts, but then there is none.
LEMMA LookStep == \A e \in Evaluators : AlertInv /\ LookForFiring(e) => AlertInv'
<1> SUFFICES ASSUME NEW e \in Evaluators, AlertInv, LookForFiring(e) PROVE AlertInv' OBVIOUS
<1> DEFINE found == Firing(RuleOf(e))
           last == IF found = {} THEN 0 ELSE CHOOSE i \in found : \A j \in found : j <= i
           new == [evaluation[e] EXCEPT !.pc = "decide", !.firing = last]
<1>1. evaluation[e] \in Evaluation /\ evaluation \in [Evaluators -> Evaluation]
  BY DEF AlertInv, AlertTypeOK
<1>2. Evaluating(e) /\ evaluation[e].todo # {} /\ RuleOf(e) \in AlertRules
  BY RuleOfType DEF LookForFiring, Evaluating, AlertInv, AlertTypeOK
<1>3. /\ last \in 0 .. Len(alarms) /\ (found # {} => last # 0)
  <2>1. Len(alarms) \in Nat /\ IsFiniteSet(found) /\ found \in SUBSET (1 .. Len(alarms))
    BY <1>2, AlarmTypes, FiniteCounts DEF AlertInv, Firing
  <2>2. CASE found = {} BY <2>1, <2>2
  <2>3. CASE found # {}
    <3>1. found \in SUBSET Nat BY <2>1
    <3>0. last = CHOOSE i \in found : \A j \in found : j <= i BY <2>3
    <3> HIDE DEF found, last
    <3>2. \E i \in found : \A j \in found : j <= i BY <2>1, <2>3, <3>1, GreatestOf
    <3>3. last \in found BY <3>2, <3>0
    <3>4. last \in 1 .. Len(alarms) BY <2>1, <3>3
    <3> QED BY <2>1, <3>4
  <2> QED BY <2>2, <2>3
<1>4. evaluation' = [evaluation EXCEPT ![e] = new]
  <2>1. evaluation' = [evaluation EXCEPT ![e].pc = "decide", ![e].firing = last] BY DEF LookForFiring
  <2> HIDE DEF last
  <2> QED BY <1>1, <2>1
<1>5. new \in Evaluation /\ new.pc = "decide" /\ new.todo = evaluation[e].todo /\ new.firing = last
      /\ new.alone = evaluation[e].alone /\ new.seen = evaluation[e].seen
  <2>1. Len(alarms) \in Nat BY AlarmTypes DEF AlertInv
  <2>2. last \in Nat
    <3> HIDE DEF last
    <3> QED BY <1>3, <2>1
  <2> HIDE DEF last
  <2> QED BY <1>1, <2>2 DEF Evaluation
<1> HIDE DEF new, last
<1>6. Goes(e, new) BY <1>2, <1>4, <1>5 DEF Goes
<1>7. UNCHANGED <<clock, breached, rules, alarms>> BY DEF LookForFiring
<1>8. AlarmsKeep /\ RulesKeep /\ ClockKeeps BY <1>7, NothingMoves
<1>9. ASSUME last = 0 PROVE FiringBounded'
  <2> SUFFICES ASSUME NEW r \in AlertRules
               PROVE  Cardinality(Firing(r)') + Cardinality(AboutToFire(r)') <= Cardinality(Evaluators)
    BY DEF FiringBounded
  <2>1. Firing(r)' = Firing(r) BY <1>7 DEF Firing, Alive
  <2>2. IsFiniteSet(Evaluators) BY AlertAssumption
  <2>3. CASE r = RuleOf(e)
    <3>1. Firing(r) = {} BY <1>3, <1>9, <2>3
    <3> DEFINE A == AboutToFire(r)'
    <3>2. A \in SUBSET Evaluators BY DEF AboutToFire
    <3> HIDE DEF A
    <3>3. Cardinality(A) \in Nat /\ Cardinality(A) <= Cardinality(Evaluators)
      BY <2>2, <3>2, FS_Subset, FS_CardinalityType
    <3>4. Cardinality(Firing(r)') = 0 BY <2>1, <3>1, FS_EmptySet
    <3> QED BY <3>3, <3>4 DEF A
  <2>4. CASE r # RuleOf(e)
    <3>1. RuleOf(e)' = RuleOf(e) BY <1>4, <1>5, GoesTyped, <1>6 DEF RuleOf
    <3>2. \A f \in Evaluators : f # e => evaluation'[f] = evaluation[f] /\ RuleOf(f)' = RuleOf(f)
      BY <1>6, GoesTyped
    <3>3. \A f \in Evaluators : f \in AboutToFire(r)' <=> f \in AboutToFire(r)
      BY <2>4, <3>1, <3>2 DEF AboutToFire
    <3>4. AboutToFire(r)' = AboutToFire(r) BY <3>3 DEF AboutToFire
    <3> QED BY <2>1, <3>4 DEF AlertInv, FiringBounded
  <2> QED BY <2>3, <2>4
<1> QED BY <1>3, <1>5, <1>6, <1>8, <1>9, GoesStep

\* The evaluation leaves its rule, or ends.
LEMMA LeaveStep ==
  \A e \in Evaluators : AlertInv /\ (LeaveAsIs(e) \/ EvaluationDropped(e)) => AlertInv'
<1> SUFFICES ASSUME NEW e \in Evaluators, AlertInv, LeaveAsIs(e) \/ EvaluationDropped(e) PROVE AlertInv' OBVIOUS
<1>1. AlarmsKeep /\ RulesKeep /\ ClockKeeps BY NothingMoves DEF LeaveAsIs, EvaluationDropped
<1>2. Evaluating(e) BY DEF LeaveAsIs, EvaluationDropped, Evaluating
<1>3. CASE LeaveAsIs(e)
  <2>1. NextRule(e) BY <1>3 DEF LeaveAsIs
  <2>2. PICK new : /\ Goes(e, new) /\ new.firing \in 0 .. Len(alarms) /\ new.pc \in {"idle", "metric"}
    BY <1>2, <2>1, NextRuleGoes
  <2> QED BY <1>1, <2>2, GoesStep
<1>4. CASE EvaluationDropped(e)
  <2>1. evaluation' = [evaluation EXCEPT ![e] = Resting] BY <1>4 DEF EvaluationDropped
  <2>2. Goes(e, Resting) BY <2>1, RestingType DEF Goes
  <2>3. Resting.firing \in 0 .. Len(alarms) BY RestingType, AlarmTypes DEF AlertInv
  <2> QED BY <1>1, <2>2, <2>3, RestingType, GoesStep
<1> QED BY <1>3, <1>4

\* An alarm whose status changes.
LEMMA StatusKeeps ==
  ASSUME AlertInv, NEW i \in 1 .. Len(alarms), NEW status \in {"resolved", "manual_resolved"},
         alarms' = [alarms EXCEPT ![i].status = status]
  PROVE  AlarmsKeep
<1>1. alarms \in Seq(Alarm) /\ alarms[i] \in Alarm BY AlarmTypes DEF AlertInv, AlertTypeOK
<1> DEFINE new == [alarms[i] EXCEPT !.status = status]
<1>2. new \in Alarm /\ new.rule = alarms[i].rule /\ new.at = alarms[i].at /\ new.alone = alarms[i].alone
      /\ new.marked = alarms[i].marked /\ new.gone = alarms[i].gone /\ new.status # "firing"
  BY <1>1 DEF Alarm, EventStates
<1>3. alarms' = [alarms EXCEPT ![i] = new] BY <1>1
<1> HIDE DEF new
<1>4. /\ alarms' \in Seq(Alarm) /\ Len(alarms') = Len(alarms)
      /\ \A j \in 1 .. Len(alarms) : alarms'[j] = IF j = i THEN new ELSE alarms[j]
  BY <1>1, <1>2, <1>3, ExceptSeq
<1> QED BY <1>2, <1>4 DEF AlarmsKeep

\* The event that was found is resolved.
LEMMA ResolveStep == \A e \in Evaluators : AlertInv /\ ResolveEvent(e) => AlertInv'
<1> SUFFICES ASSUME NEW e \in Evaluators, AlertInv, ResolveEvent(e) PROVE AlertInv' OBVIOUS
<1>1. Evaluating(e) /\ NextRule(e) /\ UNCHANGED <<clock, breached, rules>> BY DEF ResolveEvent, Evaluating
<1>2. evaluation[e].firing \in 1 .. Len(alarms) BY AlarmTypes DEF ResolveEvent, AlertInv, AlertTypeOK
<1>3. RulesKeep /\ ClockKeeps
  <2>1. clock \in Nat /\ clock <= clock BY DEF AlertInv, AlertTypeOK
  <2> QED BY <1>1, <2>1 DEF AlertInv, AlertTypeOK, RulesKeep, ClockKeeps
<1>4. AlarmsKeep
  <2>1. CASE alarms' = alarms BY <2>1 DEF AlertInv, AlertTypeOK, AlarmsKeep
  <2>2. CASE alarms' = [alarms EXCEPT ![evaluation[e].firing].status = "resolved"]
    BY <1>2, <2>2, StatusKeeps
  <2> QED BY <2>1, <2>2 DEF ResolveEvent
<1>5. PICK new : /\ Goes(e, new) /\ new.firing \in 0 .. Len(alarms) /\ new.pc \in {"idle", "metric"}
  BY <1>1, NextRuleGoes
<1> QED BY <1>3, <1>4, <1>5, GoesStep

\* Metrics change, administrators edit and delete rules.
LEMMA EditSteps ==
  \A r \in AlertRules : AlertInv /\ (MetricChanges(r) \/ UpdateAlertRule(r) \/ DeleteAlertRule(r)) => AlertInv'
<1> SUFFICES ASSUME NEW r \in AlertRules, AlertInv, MetricChanges(r) \/ UpdateAlertRule(r) \/ DeleteAlertRule(r)
             PROVE  AlertInv'
  OBVIOUS
<1>1. clock' = clock /\ evaluation' = evaluation BY DEF MetricChanges, UpdateAlertRule, DeleteAlertRule
<1>2. ClockKeeps
  <2>1. clock \in Nat /\ clock <= clock /\ breached \subseteq AlertRules BY DEF AlertInv, AlertTypeOK
  <2> QED BY <1>1, <2>1 DEF ClockKeeps, MetricChanges, UpdateAlertRule, DeleteAlertRule
<1>3. RulesKeep
  <2>1. rules \in [AlertRules -> [there : BOOLEAN, enabled : BOOLEAN, last : Nat \cup {Never}]]
    BY DEF AlertInv, AlertTypeOK
  <2>2. CASE MetricChanges(r) BY <2>1, <2>2 DEF MetricChanges, RulesKeep
  <2>3. CASE UpdateAlertRule(r) BY <2>1, <2>3 DEF UpdateAlertRule, RulesKeep
  <2>4. CASE DeleteAlertRule(r) BY <2>1, <2>4 DEF DeleteAlertRule, RulesKeep
  <2> QED BY <2>2, <2>3, <2>4
<1>4. AlarmsKeep
  <2>1. alarms \in Seq(Alarm) /\ Len(alarms) \in Nat /\ \A i \in 1 .. Len(alarms) : alarms[i] \in Alarm
    BY AlarmTypes DEF AlertInv, AlertTypeOK
  <2>2. CASE alarms' = alarms BY <2>1, <2>2 DEF AlarmsKeep
  <2>3. CASE DeleteAlertRule(r)
    <3>1. alarms' = [i \in 1 .. Len(alarms) |->
                  IF alarms[i].rule = r THEN [alarms[i] EXCEPT !.gone = TRUE] ELSE alarms[i]]
      BY <2>3 DEF DeleteAlertRule
    <3>2. \A i \in 1 .. Len(alarms) :
            LET a == IF alarms[i].rule = r THEN [alarms[i] EXCEPT !.gone = TRUE] ELSE alarms[i] IN
            /\ a \in Alarm /\ a.rule = alarms[i].rule /\ a.at = alarms[i].at
            /\ a.alone = alarms[i].alone /\ a.marked = alarms[i].marked /\ a.status = alarms[i].status
            /\ alarms[i].gone => a.gone
      BY <2>1 DEF Alarm
    <3>3. alarms' \in Seq(Alarm) /\ Len(alarms') = Len(alarms) BY <2>1, <3>1, <3>2
    <3> QED BY <3>1, <3>2, <3>3 DEF AlarmsKeep
  <2> QED BY <2>2, <2>3 DEF MetricChanges, UpdateAlertRule
<1> QED BY <1>1, <1>2, <1>3, <1>4, OutsideStep

\* Time passes, administrators close events.
LEMMA OtherSteps ==
  AlertInv /\ (TimePasses \/ \E i \in 1 .. Len(alarms), s \in {"resolved", "manual_resolved"} : UpdateAlertStatus(i, s))
    => AlertInv'
<1> SUFFICES ASSUME AlertInv,
                    TimePasses \/ \E i \in 1 .. Len(alarms), s \in {"resolved", "manual_resolved"} : UpdateAlertStatus(i, s)
             PROVE  AlertInv'
  OBVIOUS
<1>1. evaluation' = evaluation /\ UNCHANGED <<breached, rules>> /\ clock' \in {clock, clock + 1}
  BY DEF TimePasses, UpdateAlertStatus
<1>2. RulesKeep BY <1>1 DEF AlertInv, AlertTypeOK, RulesKeep
<1>3. ClockKeeps
  <2>1. clock \in Nat /\ breached \subseteq AlertRules BY DEF AlertInv, AlertTypeOK
  <2> QED BY <1>1, <2>1 DEF ClockKeeps
<1>4. AlarmsKeep
  <2>1. CASE TimePasses BY <2>1 DEF TimePasses, AlertInv, AlertTypeOK, AlarmsKeep
  <2>2. ASSUME NEW i \in 1 .. Len(alarms), NEW s \in {"resolved", "manual_resolved"}, UpdateAlertStatus(i, s)
        PROVE  AlarmsKeep
    BY <2>2, StatusKeeps DEF UpdateAlertStatus
  <2> QED BY <2>1, <2>2
<1> QED BY <1>1, <1>2, <1>3, <1>4, OutsideStep

\* The process starts again.
LEMMA RestartAlertsStep == AlertInv /\ Restart => AlertInv'
<1> SUFFICES ASSUME AlertInv, Restart PROVE AlertInv' OBVIOUS
<1>1. UNCHANGED <<clock, breached, rules, alarms>> /\ evaluation' = [e \in Evaluators |-> Resting] BY DEF Restart
<1>2. \A e \in Evaluators : evaluation'[e] = Resting BY <1>1
<1>3. 0 \in 0 .. Len(alarms) BY AlarmTypes DEF AlertInv
<1>4. AlertTypeOK' BY <1>1, <1>2, <1>3, RestingType DEF AlertInv, AlertTypeOK
<1>5. AlarmsKeep /\ RulesKeep /\ ClockKeeps BY <1>1, NothingMoves
<1>6. CooldownKept' /\ MarkedKnown' /\ NothingLater' /\ \A r \in AlertRules : Firing(r)' \subseteq Firing(r)
  BY <1>5, KeepStep
<1>7. \A r \in AlertRules : AboutToFire(r)' = {} BY <1>2, RestingType DEF AboutToFire
<1>8. FiringBounded' BY <1>4, <1>6, <1>7, CountsShrink
<1>9. OnlyAlone' /\ SeenFresh' /\ BeingMarked' BY <1>2, RestingType DEF OnlyAlone, SeenFresh, BeingMarked, Evaluating
<1> QED BY <1>4, <1>6, <1>8, <1>9 DEF AlertInv

\* An evaluation starts; those it meets are not alone either.
LEMMA StartStep == \A e \in Evaluators : AlertInv /\ EvaluateAlerts(e) => AlertInv'
<1> SUFFICES ASSUME NEW e \in Evaluators, AlertInv, EvaluateAlerts(e) PROVE AlertInv' OBVIOUS
<1> DEFINE others == {f \in Evaluators \ {e} : evaluation[f].pc # "idle"}
           due == {r \in AlertRules : rules[r].there /\ rules[r].enabled}
           new == [Resting EXCEPT !.pc = "metric", !.todo = due, !.alone = others = {},
                                  !.seen = [r \in AlertRules |-> rules[r].last]]
<1>1. /\ UNCHANGED <<clock, breached, rules, alarms>> /\ due # {} /\ evaluation[e].pc = "idle"
      /\ evaluation' = [f \in Evaluators |->
           IF f = e THEN new ELSE IF f \in others THEN [evaluation[f] EXCEPT !.alone = FALSE] ELSE evaluation[f]]
  BY DEF EvaluateAlerts
<1>2. evaluation \in [Evaluators -> Evaluation] BY DEF AlertInv, AlertTypeOK
<1>3. /\ new \in Evaluation /\ new.pc = "metric" /\ new.todo = due /\ new.firing = 0
      /\ (new.alone <=> others = {}) /\ \A r \in AlertRules : new.seen[r] = rules[r].last
  <2>1. [r \in AlertRules |-> rules[r].last] \in [AlertRules -> Int] BY AlarmTypes DEF AlertInv
  <2>2. due \in SUBSET AlertRules /\ (others = {}) \in BOOLEAN OBVIOUS
  <2> HIDE DEF others, due
  <2> QED BY <2>1, <2>2, RestingType DEF Resting, Evaluation
<1>4. \A f \in others : LET g == [evaluation[f] EXCEPT !.alone = FALSE] IN
        /\ g \in Evaluation /\ g.pc = evaluation[f].pc /\ g.todo = evaluation[f].todo /\ ~g.alone
        /\ g.firing = evaluation[f].firing /\ g.seen = evaluation[f].seen
  BY <1>2 DEF Evaluation
<1> HIDE DEF new
<1>5. /\ evaluation' \in [Evaluators -> Evaluation] /\ evaluation'[e] = new
      /\ \A f \in Evaluators : f # e => /\ evaluation'[f].pc = evaluation[f].pc
                                        /\ evaluation'[f].todo = evaluation[f].todo
                                        /\ evaluation'[f].firing = evaluation[f].firing
                                        /\ evaluation'[f].seen = evaluation[f].seen
                                        /\ Evaluating(f) => ~evaluation'[f].alone
  BY <1>1, <1>2, <1>3, <1>4 DEF Evaluating
<1>6. AlertTypeOK'
  <2>1. 0 \in 0 .. Len(alarms) BY AlarmTypes DEF AlertInv
  <2> QED BY <1>1, <1>3, <1>5, <2>1 DEF AlertInv, AlertTypeOK
<1>7. AlarmsKeep /\ RulesKeep /\ ClockKeeps BY <1>1, NothingMoves
<1>8. CooldownKept' /\ MarkedKnown' /\ NothingLater' /\ \A r \in AlertRules : Firing(r)' \subseteq Firing(r)
  BY <1>7, KeepStep
<1>9. \A f \in Evaluators : f # e => RuleOf(f)' = RuleOf(f) BY <1>5 DEF RuleOf
<1>10. FiringBounded'
  <2>1. \A r \in AlertRules : AboutToFire(r)' \subseteq AboutToFire(r)
    BY <1>3, <1>5, <1>9 DEF AboutToFire
  <2> QED BY <1>6, <1>8, <2>1, CountsShrink
<1>11. OnlyAlone'
  <2> SUFFICES ASSUME NEW f \in Evaluators, NEW g \in Evaluators, f # g, Evaluating(f)', evaluation'[f].alone
               PROVE  ~Evaluating(g)'
    BY DEF OnlyAlone
  <2>1. f = e BY <1>5 DEF Evaluating
  <2> QED BY <2>1, <1>3, <1>5 DEF Evaluating
<1>12. SeenFresh'
  <2> SUFFICES ASSUME NEW f \in Evaluators, Evaluating(f)', evaluation'[f].alone, NEW q \in evaluation'[f].todo
               PROVE  evaluation'[f].seen[q] = rules[q].last
    BY <1>1 DEF SeenFresh
  <2>1. f = e BY <1>5 DEF Evaluating
  <2> QED BY <2>1, <1>3, <1>5
<1>13. BeingMarked'
  <2> SUFFICES ASSUME NEW f \in Evaluators, evaluation'[f].pc = "mark"
               PROVE  LET i == evaluation'[f].firing IN
                      /\ i # 0 /\ alarms[i].rule = RuleOf(f)'
                      /\ \A j \in 1 .. Len(alarms) : j > i => ~alarms[j].alone
    BY <1>1 DEF BeingMarked
  <2>1. f # e BY <1>3, <1>5
  <2> QED BY <2>1, <1>5, <1>9 DEF AlertInv, BeingMarked
<1> QED BY <1>6, <1>8, <1>10, <1>11, <1>12, <1>13 DEF AlertInv

\* A rule that was deleted meanwhile: the evaluation ends.
LEMMA FireInVain == \A e \in Evaluators : AlertInv /\ Fire(e) /\ ~rules[RuleOf(e)].there => AlertInv'
<1> SUFFICES ASSUME NEW e \in Evaluators, AlertInv, Fire(e), ~rules[RuleOf(e)].there PROVE AlertInv' OBVIOUS
<1>1. UNCHANGED <<clock, breached, rules, alarms>> /\ evaluation' = [evaluation EXCEPT ![e] = Resting] BY DEF Fire
<1>2. Goes(e, Resting) BY <1>1, RestingType DEF Goes
<1>3. Resting.firing \in 0 .. Len(alarms) BY RestingType, AlarmTypes DEF AlertInv
<1>4. AlarmsKeep /\ RulesKeep /\ ClockKeeps BY <1>1, NothingMoves
<1> QED BY <1>2, <1>3, <1>4, RestingType, GoesStep

\* The event is inserted: one firing event more, one evaluation about to
\* insert less; and if it met no other, last_triggered_at was what it read.
LEMMA FireInserts == \A e \in Evaluators : AlertInv /\ Fire(e) /\ rules[RuleOf(e)].there => AlertInv'
<1> SUFFICES ASSUME NEW e \in Evaluators, AlertInv, Fire(e), rules[RuleOf(e)].there PROVE AlertInv' OBVIOUS
<1> DEFINE r == RuleOf(e)
           n == Len(alarms)
           x == evaluation[e]
           a == [rule |-> r, status |-> "firing", at |-> clock, gone |-> FALSE, alone |-> x.alone, marked |-> FALSE]
           new == [x EXCEPT !.pc = "mark", !.firing = n + 1]
<1>1. Evaluating(e) /\ r \in x.todo /\ r \in AlertRules
  BY RuleOfType DEF Fire, Evaluating, AlertInv
<1>2. x \in Evaluation /\ evaluation \in [Evaluators -> Evaluation] /\ n \in Nat /\ clock \in Nat
      /\ alarms \in Seq(Alarm)
  BY AlarmTypes DEF AlertInv, AlertTypeOK
<1>3. alarms' = Append(alarms, a) /\ UNCHANGED <<clock, breached, rules>> BY DEF Fire
<1>4. a \in Alarm /\ x.alone \in BOOLEAN
  <2>1. x.alone \in BOOLEAN BY <1>2 DEF Evaluation
  <2> HIDE DEF x, r
  <2> QED BY <1>1, <1>2, <2>1 DEF Alarm, EventStates
<1>5. a.rule = r /\ a.at = clock /\ a.alone = x.alone /\ ~a.marked OBVIOUS
<1> HIDE DEF a
<1>6. /\ alarms' \in Seq(Alarm) /\ Len(alarms') = n + 1 /\ alarms'[n + 1] = a
      /\ \A i \in 1 .. n : alarms'[i] = alarms[i]
  BY <1>2, <1>3, <1>4, AppendProperties
<1>7. evaluation' = [evaluation EXCEPT ![e] = new]
  <2>1. evaluation' = [evaluation EXCEPT ![e].pc = "mark", ![e].firing = n + 1] BY <1>6 DEF Fire
  <2> QED BY <1>2, <2>1
<1>8. new \in Evaluation /\ new.pc = "mark" /\ new.todo = x.todo /\ new.firing = n + 1
      /\ new.alone = x.alone /\ new.seen = x.seen
  <2> DEFINE i == n + 1
  <2>1. x \in Evaluation /\ i \in Nat BY <1>2
  <2>2. new = [x EXCEPT !.pc = "mark", !.firing = i] OBVIOUS
  <2> HIDE DEF x, i, new
  <2>3. new \in Evaluation /\ new.pc = "mark" /\ new.todo = x.todo /\ new.firing = i
        /\ new.alone = x.alone /\ new.seen = x.seen
    BY <2>1, <2>2 DEF Evaluation
  <2> QED BY <2>3 DEF i
<1> HIDE DEF new
<1>9. Goes(e, new) BY <1>1, <1>7, <1>8 DEF Goes
<1>10. /\ evaluation' \in [Evaluators -> Evaluation] /\ evaluation'[e] = new
       /\ \A f \in Evaluators : f # e => evaluation'[f] = evaluation[f] /\ RuleOf(f)' = RuleOf(f)
       /\ \A f \in Evaluators : Evaluating(f)' => evaluation'[f].todo # {}
  BY <1>9, GoesTyped
<1>11. RuleOf(e)' = r BY <1>8, <1>10 DEF RuleOf
<1>12. AlertTypeOK'
  <2>1. \A f \in Evaluators : evaluation'[f].firing \in 0 .. n + 1
    BY <1>2, <1>8, <1>10 DEF AlertInv, AlertTypeOK
  <2> QED BY <1>3, <1>6, <1>10, <2>1 DEF AlertInv, AlertTypeOK, Evaluating
<1>13. OnlyAlone' /\ SeenFresh' BY <1>3, <1>9, GoesAlone
<1>14. CooldownKept'
  <2> SUFFICES ASSUME NEW i \in 1 .. n + 1, NEW j \in 1 .. n + 1, i < j, alarms'[i].rule = alarms'[j].rule,
                      alarms'[j].alone, alarms'[i].marked
               PROVE  alarms'[j].at >= alarms'[i].at + AlertCooldown
    BY <1>6 DEF CooldownKept
  <2>1. i \in 1 .. n /\ alarms'[i] = alarms[i] BY <1>2, <1>6
  <2>2. CASE j \in 1 .. n
    <3>1. alarms'[j] = alarms[j] BY <1>6, <2>2
    <3> QED BY <2>1, <2>2, <3>1 DEF AlertInv, CooldownKept
  <2>3. CASE j = n + 1
    <3>1. alarms[i].rule = r /\ x.alone /\ alarms[i].marked /\ alarms[i].at \in Nat
      BY <1>5, <1>6, <2>1, <2>3, AlarmTypes DEF AlertInv
    <3>2. alarms[i].at <= rules[r].last BY <2>1, <3>1 DEF AlertInv, MarkedKnown
    <3>3. x.seen[r] = rules[r].last BY <1>1, <3>1 DEF AlertInv, SeenFresh
    <3>4. rules[r].last \in Nat BY <1>1, <3>1, <3>2, AlarmTypes DEF AlertInv, Never
    <3>5. rules[r].last + AlertCooldown <= clock BY <3>3, <3>4 DEF Fire, MustFire, CooldownElapsed, Never
    <3>6. AlertCooldown \in Nat BY AlertAssumption
    <3>7. clock >= alarms[i].at + AlertCooldown BY <1>2, <3>1, <3>2, <3>4, <3>5, <3>6
    <3> QED BY <1>5, <1>6, <2>1, <2>3, <3>7
  <2> QED BY <1>2, <2>2, <2>3
<1>15. MarkedKnown' BY <1>2, <1>3, <1>5, <1>6 DEF AlertInv, MarkedKnown
<1>16. NothingLater' BY <1>2, <1>3, <1>5, <1>6 DEF AlertInv, NothingLater
<1>17. BeingMarked'
  <2> SUFFICES ASSUME NEW f \in Evaluators, evaluation'[f].pc = "mark"
               PROVE  LET i == evaluation'[f].firing IN
                      /\ i # 0 /\ alarms'[i].rule = RuleOf(f)'
                      /\ \A j \in 1 .. n + 1 : j > i => ~alarms'[j].alone
    BY <1>6 DEF BeingMarked
  <2>1. CASE f = e BY <1>2, <1>5, <1>6, <1>8, <1>10, <1>11, <2>1
  <2>2. CASE f # e
    <3>1. evaluation'[f] = evaluation[f] /\ RuleOf(f)' = RuleOf(f) /\ Evaluating(f) BY <1>10, <2>2 DEF Evaluating
    <3>2. ~x.alone BY <1>1, <2>2, <3>1 DEF AlertInv, OnlyAlone
    <3>3. LET i == evaluation[f].firing IN
          /\ i # 0 /\ alarms[i].rule = RuleOf(f)
          /\ \A j \in 1 .. n : j > i => ~alarms[j].alone
      BY <3>1 DEF AlertInv, BeingMarked
    <3>4. evaluation[f].firing \in 1 .. n BY <1>2, <3>3 DEF AlertInv, AlertTypeOK
    <3> QED BY <1>2, <1>5, <1>6, <3>1, <3>2, <3>3, <3>4
  <2> QED BY <2>1, <2>2
<1>18. FiringBounded'
  <2> SUFFICES ASSUME NEW q \in AlertRules
               PROVE  Cardinality(Firing(q)') + Cardinality(AboutToFire(q)') <= Cardinality(Evaluators)
    BY DEF FiringBounded
  <2> DEFINE F == Firing(q)
             B == AboutToFire(q)
  <2>1. /\ IsFiniteSet(F) /\ IsFiniteSet(B) /\ Cardinality(F) \in Nat /\ Cardinality(B) \in Nat
        /\ Cardinality(Evaluators) \in Nat
    BY FiniteCounts DEF AlertInv
  <2>2. Cardinality(F) + Cardinality(B) <= Cardinality(Evaluators) BY DEF AlertInv, FiringBounded
  <2>3. ASSUME NEW i PROVE i \in Firing(q)' => i \in F \/ (i = n + 1 /\ q = r)
    <3> SUFFICES ASSUME i \in Firing(q)', i # n + 1 \/ q # r PROVE i \in F OBVIOUS
    <3>1. i \in 1 .. n + 1 /\ alarms'[i].rule = q BY <1>6 DEF Firing
    <3>2. i \in 1 .. n /\ alarms'[i] = alarms[i] BY <1>2, <1>5, <1>6, <3>1
    <3> QED BY <1>3, <3>2 DEF Firing, Alive
  <2>4. ASSUME NEW f PROVE f \in AboutToFire(q)' => f \in B /\ f # e
    BY <1>8, <1>10 DEF AboutToFire
  <2>5. e \in B <=> q = r BY <1>8 DEF AboutToFire, Fire, MustFire
  <2>6. F \cup {n + 1} \in SUBSET Int /\ B \in SUBSET Evaluators BY <1>2 DEF Firing, AboutToFire
  <2> DEFINE F2 == Firing(q)'
             B2 == AboutToFire(q)'
  <2>7. CASE q # r
    <3>1. F2 \in SUBSET F /\ B2 \in SUBSET B BY <2>3, <2>4, <2>7
    <3> HIDE DEF F, B, F2, B2
    <3>2. /\ Cardinality(F2) <= Cardinality(F) /\ Cardinality(B2) <= Cardinality(B)
          /\ IsFiniteSet(F2) /\ IsFiniteSet(B2)
      BY <2>1, <3>1, FS_Subset
    <3>3. Cardinality(F2) \in Nat /\ Cardinality(B2) \in Nat BY <3>2, FS_CardinalityType
    <3>4. Cardinality(F2) + Cardinality(B2) <= Cardinality(Evaluators) BY <2>1, <2>2, <3>2, <3>3
    <3> QED BY <3>4 DEF F2, B2
  <2>8. CASE q = r
    <3>1. F2 \in SUBSET (F \cup {n + 1}) /\ B2 \in SUBSET (B \ {e}) /\ e \in B BY <2>3, <2>4, <2>5, <2>8
    <3> HIDE DEF F, B, F2, B2
    <3>0. Cardinality(F \cup {n + 1}) \in {Cardinality(F), Cardinality(F) + 1} /\ IsFiniteSet(F \cup {n + 1})
      BY <2>1, FS_AddElement
    <3>2. IsFiniteSet(F \cup {n + 1}) /\ Cardinality(F \cup {n + 1}) <= Cardinality(F) + 1
      BY <2>1, <3>0
    <3>3. IsFiniteSet(B \ {e}) /\ Cardinality(B \ {e}) = Cardinality(B) - 1
      BY <2>1, <3>1, FS_RemoveElement
    <3>4. /\ Cardinality(F2) <= Cardinality(F \cup {n + 1}) /\ Cardinality(B2) <= Cardinality(B \ {e})
          /\ IsFiniteSet(F2) /\ IsFiniteSet(B2)
      BY <3>1, <3>2, <3>3, FS_Subset
    <3>5. /\ Cardinality(F2) \in Nat /\ Cardinality(B2) \in Nat
          /\ Cardinality(F \cup {n + 1}) \in Nat /\ Cardinality(B \ {e}) \in Nat
      BY <3>2, <3>3, <3>4, FS_CardinalityType
    <3>6. Cardinality(F2) + Cardinality(B2) <= Cardinality(Evaluators)
      BY <2>1, <2>2, <3>2, <3>3, <3>4, <3>5
    <3> QED BY <3>6 DEF F2, B2
  <2> QED BY <2>7, <2>8
<1> QED BY <1>12, <1>13, <1>14, <1>15, <1>16, <1>17, <1>18 DEF AlertInv

\* last_triggered_at is written: no alarm after that one is of an evaluation
\* that met no other, so none was measured against the older value.
LEMMA MarkStep == \A e \in Evaluators : AlertInv /\ MarkTriggered(e) => AlertInv'
<1> SUFFICES ASSUME NEW e \in Evaluators, AlertInv, MarkTriggered(e) PROVE AlertInv' OBVIOUS
<1> DEFINE r == RuleOf(e)
           n == Len(alarms)
           i == evaluation[e].firing
           a == [alarms[i] EXCEPT !.marked = TRUE]
<1>1. Evaluating(e) /\ NextRule(e) /\ UNCHANGED <<clock, breached>> BY DEF MarkTriggered, Evaluating
<1>2. r \in AlertRules /\ r \in evaluation[e].todo BY <1>1, RuleOfType DEF AlertInv
<1>3. n \in Nat /\ i # 0 /\ alarms[i].rule = r /\ \A j \in 1 .. n : j > i => ~alarms[j].alone
  BY AlarmTypes DEF AlertInv, BeingMarked, MarkTriggered
<1>4. i \in 1 .. n BY <1>3 DEF AlertInv, AlertTypeOK
<1>5. alarms \in Seq(Alarm) /\ alarms[i] \in Alarm /\ clock \in Nat
      /\ \A j \in 1 .. n : alarms[j].rule \in AlertRules /\ alarms[j].at \in Nat /\ alarms[j].at <= clock
  BY <1>4, AlarmTypes DEF AlertInv, AlertTypeOK, NothingLater
<1>6. PICK new : /\ Goes(e, new) /\ new.firing \in 0 .. n /\ new.pc \in {"idle", "metric"}
                 /\ new.pc # "idle" => r \notin new.todo
                 /\ new.pc = "idle" => new.todo = {}
  BY <1>1, NextRuleGoes
<1>7. a \in Alarm /\ a.rule = alarms[i].rule /\ a.at = alarms[i].at /\ a.alone = alarms[i].alone
      /\ a.gone = alarms[i].gone /\ a.status = alarms[i].status
  BY <1>5 DEF Alarm
<1>8. alarms' = [alarms EXCEPT ![i] = a]
  <2>1. alarms' = [alarms EXCEPT ![evaluation[e].firing].marked = TRUE] BY DEF MarkTriggered
  <2> QED BY <2>1
<1> HIDE DEF a, i
<1>9. /\ alarms' \in Seq(Alarm) /\ Len(alarms') = n
      /\ \A j \in 1 .. n : alarms'[j] = IF j = i THEN a ELSE alarms[j]
  BY <1>4, <1>5, <1>7, <1>8, ExceptSeq
<1>10. \A j \in 1 .. n : /\ alarms'[j].rule = alarms[j].rule /\ alarms'[j].at = alarms[j].at
                         /\ alarms'[j].alone = alarms[j].alone /\ alarms'[j].gone = alarms[j].gone
                         /\ alarms'[j].status = alarms[j].status
                         /\ j # i => alarms'[j].marked = alarms[j].marked
  BY <1>7, <1>9
<1>11. /\ rules' \in [AlertRules -> [there : BOOLEAN, enabled : BOOLEAN, last : Nat \cup {Never}]]
       /\ \A q \in AlertRules : /\ rules'[q].there = rules[q].there
                                /\ q # r => rules'[q].last = rules[q].last
       /\ rules[r].there => rules'[r].last = clock
  <2>1. rules \in [AlertRules -> [there : BOOLEAN, enabled : BOOLEAN, last : Nat \cup {Never}]]
    BY DEF AlertInv, AlertTypeOK
  <2>2. rules' = IF rules[r].there THEN [rules EXCEPT ![r].last = clock] ELSE rules BY DEF MarkTriggered
  <2> HIDE DEF r
  <2> QED BY <1>2, <1>5, <2>1, <2>2
<1>12. /\ evaluation' \in [Evaluators -> Evaluation] /\ evaluation'[e] = new
       /\ \A f \in Evaluators : f # e => evaluation'[f] = evaluation[f] /\ RuleOf(f)' = RuleOf(f)
       /\ \A f \in Evaluators : Evaluating(f)' => evaluation'[f].todo # {}
  BY <1>6, GoesTyped
<1>13. AlertTypeOK'
  <2>1. \A f \in Evaluators : evaluation'[f].firing \in 0 .. n BY <1>6, <1>12 DEF AlertInv, AlertTypeOK
  <2> QED BY <1>1, <1>9, <1>11, <1>12, <2>1 DEF AlertInv, AlertTypeOK, Evaluating
<1>14. OnlyAlone' /\ SeenFresh'
  <2>1. \A q \in AlertRules : rules'[q].last = rules[q].last \/ (Evaluating(e) /\ q \notin new.todo)
    BY <1>1, <1>6, <1>11
  <2> QED BY <1>6, <2>1, GoesAlone
<1>15. CooldownKept'
  <2> SUFFICES ASSUME NEW h \in 1 .. n, NEW j \in 1 .. n, h < j, alarms'[h].rule = alarms'[j].rule,
                      alarms'[j].alone, alarms'[h].marked
               PROVE  alarms'[j].at >= alarms'[h].at + AlertCooldown
    BY <1>9 DEF CooldownKept
  <2>1. h # i BY <1>3, <1>10 DEF i
  <2> QED BY <2>1, <1>10 DEF AlertInv, CooldownKept
<1>16. MarkedKnown'
  <2> SUFFICES ASSUME NEW j \in 1 .. n, alarms'[j].marked, rules'[alarms'[j].rule].there
               PROVE  alarms'[j].at <= rules'[alarms'[j].rule].last
    BY <1>9 DEF MarkedKnown
  <2> DEFINE q == alarms[j].rule
  <2>1. q \in AlertRules /\ alarms'[j].rule = q /\ alarms'[j].at = alarms[j].at /\ rules[q].there
    BY <1>5, <1>10, <1>11
  <2>2. CASE q = r BY <1>5, <1>11, <2>1, <2>2
  <2>3. CASE q # r
    <3>1. j # i BY <1>3, <2>3 DEF i
    <3> QED BY <1>10, <1>11, <2>1, <2>3, <3>1 DEF AlertInv, MarkedKnown
  <2> QED BY <2>2, <2>3
<1>17. NothingLater' BY <1>1, <1>5, <1>9, <1>10 DEF NothingLater
<1>18. BeingMarked'
  <2> SUFFICES ASSUME NEW f \in Evaluators, evaluation'[f].pc = "mark"
               PROVE  LET k == evaluation'[f].firing IN
                      /\ k # 0 /\ alarms'[k].rule = RuleOf(f)'
                      /\ \A j \in 1 .. n : j > k => ~alarms'[j].alone
    BY <1>9 DEF BeingMarked
  <2>1. f # e /\ evaluation'[f] = evaluation[f] /\ RuleOf(f)' = RuleOf(f) BY <1>6, <1>12
  <2>2. LET k == evaluation[f].firing IN
        /\ k # 0 /\ alarms[k].rule = RuleOf(f)
        /\ \A j \in 1 .. n : j > k => ~alarms[j].alone
    BY <2>1 DEF AlertInv, BeingMarked
  <2>3. evaluation[f].firing \in 1 .. n BY <1>3, <2>2 DEF AlertInv, AlertTypeOK
  <2> QED BY <2>1, <2>2, <2>3, <1>10
<1>19. FiringBounded'
  <2>1. ASSUME NEW q \in AlertRules PROVE Firing(q)' \subseteq Firing(q)
    <3> SUFFICES ASSUME NEW j \in Firing(q)' PROVE j \in Firing(q) OBVIOUS
    <3>1. j \in 1 .. n /\ alarms'[j].rule = q /\ alarms'[j].status = "firing"
          /\ rules'[alarms'[j].rule].there /\ ~alarms'[j].gone
      BY <1>9 DEF Firing, Alive
    <3> QED BY <1>10, <1>11, <3>1 DEF Firing, Alive
  <2>2. ASSUME NEW q \in AlertRules PROVE AboutToFire(q)' \subseteq AboutToFire(q)
    BY <1>6, <1>12 DEF AboutToFire
  <2> QED BY <1>13, <2>1, <2>2, CountsShrink
<1> QED BY <1>13, <1>14, <1>15, <1>16, <1>17, <1>18, <1>19 DEF AlertInv

\* Every step keeps the invariant.
LEMMA AlertsStep == AlertInv /\ [AlertNext]_alertVars => AlertInv'
<1> SUFFICES ASSUME AlertInv, [AlertNext]_alertVars PROVE AlertInv' OBVIOUS
<1>1. ASSUME NEW e \in Evaluators, EvaluationStep(e) PROVE AlertInv'
  <2>1. CASE ReadMetric(e) BY <2>1, ReadMetricStep
  <2>2. CASE LookForFiring(e) BY <2>2, LookStep
  <2>3. CASE Fire(e) BY <2>3, FireInserts, FireInVain
  <2>4. CASE MarkTriggered(e) BY <2>4, MarkStep
  <2>5. CASE ResolveEvent(e) BY <2>5, ResolveStep
  <2>6. CASE LeaveAsIs(e) BY <2>6, LeaveStep
  <2> QED BY <1>1, <2>1, <2>2, <2>3, <2>4, <2>5, <2>6 DEF EvaluationStep
<1>2. ASSUME NEW e \in Evaluators, EvaluateAlerts(e) PROVE AlertInv' BY <1>2, StartStep
<1>3. ASSUME NEW e \in Evaluators, EvaluationDropped(e) PROVE AlertInv' BY <1>3, LeaveStep
<1>4. ASSUME NEW r \in AlertRules, MetricChanges(r) \/ UpdateAlertRule(r) \/ DeleteAlertRule(r) PROVE AlertInv'
  BY <1>4, EditSteps
<1>5. ASSUME NEW i \in 1 .. Len(alarms), NEW s \in {"resolved", "manual_resolved"}, UpdateAlertStatus(i, s)
      PROVE  AlertInv'
  BY <1>5, OtherSteps
<1>6. CASE TimePasses BY <1>6, OtherSteps
<1>7. CASE Restart BY <1>7, RestartAlertsStep
<1>8. CASE UNCHANGED alertVars
  <2>1. UNCHANGED <<clock, breached, rules, alarms>> /\ UNCHANGED evaluation BY <1>8 DEF alertVars
  <2> QED BY <2>1, NothingMoves, OutsideStep
<1> QED BY <1>1, <1>2, <1>3, <1>4, <1>5, <1>6, <1>7, <1>8 DEF AlertNext

\* In every behaviour, whatever the rules, evaluators and the cooldown: a rule
\* has at most one firing event per evaluation that overlaps, and two
\* successive alarms of it are a cooldown apart, unless the later one's
\* evaluation overlapped another or the earlier one was never marked (ops.rs,
\* evaluate_alerts).
THEOREM AlertsCorrect == AlertSpec => []AlertsSafe
<1>1. AlertInit => AlertInv BY AlertsInitially
<1>2. AlertInv /\ [AlertNext]_alertVars => AlertInv' BY AlertsStep
<1>3. AlertInv => AlertsSafe BY DEF AlertInv, AlertsSafe
<1> QED BY <1>1, <1>2, <1>3, PTL DEF AlertSpec
-----------------------------------------------------------------------------
(*                     Rollups and reports (OpsReports)                    *)

\* Of the minutes that keep their rows, only one with a row has a bucket.
EmptyMinutes ==
  \A m \in Minutes \ trimmed :
    (2 * m >= time - Retention /\ RowsFrom(m, 0) = 0) => buckets[m] = 0

\* A report that was not claimed was not mailed, nor was the one the loop is
\* about to mail.
NotYetMailed ==
  /\ \A k \in Reports, t \in Times : reports[<<k, t>>] = "none" => mailed[<<k, t>>] = 0
  /\ loop = "mail" => LET r == <<NextKind, pending[NextKind]>> IN
                      reports[r] = "processing" /\ mailed[r] = 0

\* A scheduled instant a round has passed was claimed, excused or is pending.
NoneMissed ==
  \A k \in Reports : \A t \in Scheduled[k] :
    (t <= lastRound - 1 /\ reports[<<k, t>>] = "none") => <<k, t>> \in excused \/ pending[k] = t

\* The invariant of the reports.
ReportsInv == ReportTypeOK /\ ReportOnce /\ EmptyMinutes /\ NotYetMailed /\ NoneMissed

\* Instants, minutes, and the instants schedules name (whole minutes).
LEMMA TimesFacts ==
  /\ \A t \in Times : t \in Nat /\ t <= MaxTime /\ Minute(t) \in Minutes
  /\ \A m \in Minutes : m \in Nat /\ 2 * m \in Times
  /\ \A k \in Reports : \A t \in Scheduled[k] : t \in Times /\ t # 0 /\ t % 2 = 0
BY ReportAssumption DEF Times, Minutes, Minute

\* The rows of a minute from an instant on are some of its rows.
LEMMA RowsSum ==
  ASSUME rows \in [Times -> Nat], NEW m \in Minutes, NEW from \in Int
  PROVE  /\ RowsFrom(m, from) \in Nat /\ RowsFrom(m, 0) \in Nat
         /\ RowsFrom(m, from) <= RowsFrom(m, 0)
         /\ 2 * m >= from => RowsFrom(m, from) = RowsFrom(m, 0)
<1>1. m \in Nat /\ 2 * m \in Times BY TimesFacts
<1>2. rows[2 * m] \in Nat BY <1>1
<1>3. 2 * m + 1 \in Times => rows[2 * m + 1] \in Nat OBVIOUS
<1>4. 2 * m \in Nat /\ 2 * m + 1 \in Nat BY <1>1
<1> QED BY <1>2, <1>3, <1>4 DEF RowsFrom

\* What a rollup writes is a number.
LEMMA RolledType ==
  ASSUME ReportTypeOK, NEW w \in Nat
  PROVE  RolledUp(w) \in [Minutes -> Nat]
<1>1. time - w \in Int BY TimesFacts DEF ReportTypeOK
<1>2. \A m \in Minutes : RowsFrom(m, time - w) \in Nat BY <1>1, RowsSum DEF ReportTypeOK
<1> QED BY <1>2 DEF RolledUp, ReportTypeOK

\* A rollup, of any window, fills no minute without rows.
LEMMA RolledEmpty ==
  ASSUME ReportTypeOK, EmptyMinutes, NEW w \in Nat, NEW m \in Minutes \ trimmed,
         2 * m >= time - Retention, RowsFrom(m, 0) = 0
  PROVE  RolledUp(w)[m] = 0
<1>1. time - w \in Int BY TimesFacts DEF ReportTypeOK
<1>2. RowsFrom(m, time - w) \in Nat /\ RowsFrom(m, time - w) <= RowsFrom(m, 0) BY <1>1, RowsSum DEF ReportTypeOK
<1>3. RowsFrom(m, time - w) = 0 BY <1>2
<1> QED BY <1>3 DEF RolledUp, EmptyMinutes

\* The report the loop is at.
LEMMA NextPending ==
  ASSUME ReportTypeOK, pending # NoReport
  PROVE  NextKind \in Reports /\ pending[NextKind] # 0 /\ pending[NextKind] \in Times
<1> DEFINE due == {k \in Reports : pending[k] # 0}
<1>1. due # {} BY DEF ReportTypeOK, NoReport
<1>2. due \in SUBSET Nat BY ReportAssumption
<1>3. \E k \in due : \A j \in due : k <= j
  <2> HIDE DEF due
  <2> QED BY <1>1, <1>2, LeastOf
<1>4. \E k \in Reports : pending[k] # 0 /\ \A j \in Reports : pending[j] # 0 => k <= j BY <1>3
<1>5. NextKind \in Reports /\ pending[NextKind] # 0 BY <1>4 DEF NextKind
<1> QED BY <1>5 DEF ReportTypeOK

\* The invariant holds at first.
LEMMA ReportsInitially == ReportInit => ReportsInv
<1> SUFFICES ASSUME ReportInit PROVE ReportsInv OBVIOUS
<1>1. 0 \in Times /\ \A m \in Minutes : m \in Nat /\ 2 * m \in Times BY TimesFacts, ReportAssumption DEF Times
<1>2. /\ \A k \in Reports, t \in Times : reports[<<k, t>>] = "none" /\ mailed[<<k, t>>] = 0
      /\ reports \in [Reports \X Times -> Statuses] /\ mailed \in [Reports \X Times -> Nat]
  BY DEF ReportInit, Statuses
<1>3. pending \in [Reports -> Times] /\ rows \in [Times -> Nat] /\ buckets \in [Minutes -> Nat]
  BY <1>1 DEF ReportInit, NoReport
<1>4. ReportTypeOK BY <1>1, <1>2, <1>3 DEF ReportInit, ReportTypeOK
<1>5. ReportOnce /\ EmptyMinutes /\ NotYetMailed BY <1>2 DEF ReportInit, ReportOnce, EmptyMinutes, NotYetMailed
<1>6. NoneMissed
  <2>1. \A k \in Reports : \A t \in Scheduled[k] : ~(t <= 0 - 1) BY TimesFacts
  <2> QED BY <2>1 DEF NoneMissed, ReportInit
<1> QED BY <1>4, <1>5, <1>6 DEF ReportsInv

\* A step that touches no minute, and one that touches no round.
MinutesStay == UNCHANGED <<time, rows, buckets, trimmed>>
RoundsStay == UNCHANGED <<reports, mailed, pending, lastRound, excused>>

\* The first keeps what is known of buckets.
LEMMA MinutesKept == EmptyMinutes /\ MinutesStay => EmptyMinutes'
BY DEF EmptyMinutes, MinutesStay, RowsFrom

\* The second keeps what is known of reports.
LEMMA RoundsKept ==
  ASSUME ReportsInv, RoundsStay, loop' = "mail" => loop = "mail"
  PROVE  ReportOnce' /\ NotYetMailed' /\ NoneMissed'
BY DEF ReportsInv, RoundsStay, ReportOnce, NotYetMailed, NoneMissed, NextKind

\* A usage row is written.
LEMMA UsageStep == ReportsInv /\ UsageRow => ReportsInv'
<1> SUFFICES ASSUME ReportsInv, UsageRow PROVE ReportsInv' OBVIOUS
<1>1. rows \in [Times -> Nat] /\ time \in Times BY DEF ReportsInv, ReportTypeOK
<1>2. rows' = [rows EXCEPT ![time] = @ + 1]
      /\ UNCHANGED <<time, buckets, trimmed, loop, pending, reports, mailed, lastRound, excused>>
  BY DEF UsageRow
<1>3. rows' \in [Times -> Nat] /\ \A t \in Times : rows[t] <= rows'[t] BY <1>1, <1>2
<1>4. ReportTypeOK' BY <1>2, <1>3 DEF ReportsInv, ReportTypeOK
<1>5. EmptyMinutes'
  <2> SUFFICES ASSUME NEW m \in Minutes \ trimmed, 2 * m >= time - Retention, RowsFrom(m, 0)' = 0
               PROVE  buckets[m] = 0
    BY <1>2 DEF EmptyMinutes
  <2>1. m \in Nat /\ 2 * m \in Times /\ 2 * m >= 0 /\ 2 * m + 1 >= 0 BY TimesFacts
  <2>2. rows[2 * m] \in Nat /\ rows'[2 * m] \in Nat /\ rows[2 * m] <= rows'[2 * m] BY <1>1, <1>3, <2>1
  <2>3. 2 * m + 1 \in Times => /\ rows[2 * m + 1] \in Nat /\ rows'[2 * m + 1] \in Nat
                               /\ rows[2 * m + 1] <= rows'[2 * m + 1]
    BY <1>1, <1>3
  <2>4. RowsFrom(m, 0) = 0 BY <2>1, <2>2, <2>3 DEF RowsFrom
  <2> QED BY <2>4 DEF ReportsInv, EmptyMinutes
<1>6. ReportOnce' /\ NotYetMailed' /\ NoneMissed' BY <1>2, RoundsKept DEF RoundsStay
<1> QED BY <1>4, <1>5, <1>6 DEF ReportsInv

\* A rollup, of any window.
LEMMA RollStep ==
  ASSUME ReportsInv, NEW w \in Nat, buckets' = RolledUp(w),
         UNCHANGED <<time, rows, trimmed>>
  PROVE  buckets' \in [Minutes -> Nat] /\ EmptyMinutes'
<1>1. buckets' \in [Minutes -> Nat] BY RolledType DEF ReportsInv
<1>2. \A m \in Minutes : RowsFrom(m, 0)' = RowsFrom(m, 0) BY DEF RowsFrom
<1>3. EmptyMinutes'
  <2> SUFFICES ASSUME NEW m \in Minutes \ trimmed, 2 * m >= time - Retention, RowsFrom(m, 0) = 0
               PROVE  RolledUp(w)[m] = 0
    BY <1>2 DEF EmptyMinutes
  <2> QED BY RolledEmpty DEF ReportsInv
<1> QED BY <1>1, <1>3

\* An administrator opens the overview, which rolls its range up.
LEMMA OverviewStep == ReportsInv /\ Overview => ReportsInv'
<1> SUFFICES ASSUME ReportsInv, Overview PROVE ReportsInv' OBVIOUS
<1>1. buckets' = RolledUp(TrendRange) /\ TrendRange \in Nat
      /\ UNCHANGED <<time, rows, trimmed, loop, pending, reports, mailed, lastRound, excused>>
  BY ReportAssumption DEF Overview, Refreshed
<1>2. buckets' \in [Minutes -> Nat] /\ EmptyMinutes' BY <1>1, RollStep
<1>3. ReportOnce' /\ NotYetMailed' /\ NoneMissed' BY <1>1, RoundsKept DEF RoundsStay
<1>4. ReportTypeOK' BY <1>1, <1>2 DEF ReportsInv, ReportTypeOK
<1> QED BY <1>2, <1>3, <1>4 DEF ReportsInv

\* The loop rolls its window up.
LEMMA RollupStep == ReportsInv /\ Rollup => ReportsInv'
<1> SUFFICES ASSUME ReportsInv, Rollup PROVE ReportsInv' OBVIOUS
<1>1. PICK w \in Nat : buckets' = RolledUp(w) BY ReportAssumption DEF Rollup
<1>2. UNCHANGED <<time, rows, trimmed, pending, reports, mailed, lastRound, excused>>
      /\ loop \in {"boot", "sleep"} /\ loop' = "reports"
  BY DEF Rollup
<1>3. buckets' \in [Minutes -> Nat] /\ EmptyMinutes' BY <1>1, <1>2, RollStep
<1>4. ReportOnce' /\ NotYetMailed' /\ NoneMissed' BY <1>2, RoundsKept DEF RoundsStay
<1>5. ReportTypeOK' BY <1>2, <1>3 DEF ReportsInv, ReportTypeOK
<1> QED BY <1>3, <1>4, <1>5 DEF ReportsInv

\* An administrator's cleanup deletes rows of a minute.
LEMMA CleanUsageStep == \A n \in Minutes : ReportsInv /\ CleanUsage(n) => ReportsInv'
<1> SUFFICES ASSUME NEW n \in Minutes, ReportsInv, CleanUsage(n) PROVE ReportsInv' OBVIOUS
<1>1. /\ rows' = [t \in Times |-> IF Minute(t) = n THEN 0 ELSE rows[t]]
      /\ trimmed' = trimmed \cup {n}
      /\ UNCHANGED <<time, buckets, loop, pending, reports, mailed, lastRound, excused>>
  BY DEF CleanUsage
<1>2. rows \in [Times -> Nat] /\ rows' \in [Times -> Nat] BY <1>1 DEF ReportsInv, ReportTypeOK
<1>3. ReportTypeOK' BY <1>1, <1>2 DEF ReportsInv, ReportTypeOK
<1>4. EmptyMinutes'
  <2> SUFFICES ASSUME NEW m \in Minutes \ trimmed, m # n, 2 * m >= time - Retention, RowsFrom(m, 0)' = 0
               PROVE  buckets[m] = 0
    BY <1>1 DEF EmptyMinutes
  <2>1. m \in Nat /\ 2 * m \in Times /\ Minute(2 * m) = m /\ Minute(2 * m + 1) = m
    BY TimesFacts DEF Minute
  <2>2. rows'[2 * m] = rows[2 * m] BY <1>1, <2>1
  <2>3. 2 * m + 1 \in Times => rows'[2 * m + 1] = rows[2 * m + 1] BY <1>1, <2>1
  <2>4. RowsFrom(m, 0)' = RowsFrom(m, 0) BY <2>2, <2>3 DEF RowsFrom
  <2> QED BY <2>4 DEF ReportsInv, EmptyMinutes
<1>5. ReportOnce' /\ NotYetMailed' /\ NoneMissed' BY <1>1, RoundsKept DEF RoundsStay
<1> QED BY <1>3, <1>4, <1>5 DEF ReportsInv

\* The retention's cleanups.
LEMMA CleanupStep == ReportsInv /\ (CleanupRows \/ CleanupRollups) => ReportsInv'
<1> SUFFICES ASSUME ReportsInv, CleanupRows \/ CleanupRollups PROVE ReportsInv' OBVIOUS
<1>1. UNCHANGED <<time, trimmed, pending, reports, mailed, lastRound, excused>>
      /\ loop \in {"cleanup", "trimming"} /\ loop' \in {"trimming", "sleep"}
  BY DEF CleanupRows, CleanupRollups
<1>2. /\ \A t \in Times : rows'[t] = rows[t] \/ t < time - Retention
      /\ \A m \in Minutes : buckets'[m] = buckets[m] \/ buckets'[m] = 0
      /\ rows' \in [Times -> Nat] /\ buckets' \in [Minutes -> Nat]
  BY DEF CleanupRows, CleanupRollups, ReportsInv, ReportTypeOK
<1>3. time \in Int /\ Retention \in Int BY TimesFacts, ReportAssumption DEF ReportsInv, ReportTypeOK
<1>4. EmptyMinutes'
  <2> SUFFICES ASSUME NEW m \in Minutes \ trimmed, 2 * m >= time - Retention, RowsFrom(m, 0)' = 0
               PROVE  buckets'[m] = 0
    BY <1>1 DEF EmptyMinutes
  <2>1. m \in Nat /\ 2 * m \in Times BY TimesFacts
  <2>2. ~(2 * m < time - Retention) /\ ~(2 * m + 1 < time - Retention) BY <1>3, <2>1
  <2>3. rows'[2 * m] = rows[2 * m] BY <1>2, <2>1, <2>2
  <2>4. 2 * m + 1 \in Times => rows'[2 * m + 1] = rows[2 * m + 1] BY <1>2, <2>2
  <2>5. RowsFrom(m, 0)' = RowsFrom(m, 0) BY <2>3, <2>4 DEF RowsFrom
  <2>6. buckets[m] = 0 BY <2>5 DEF ReportsInv, EmptyMinutes
  <2> QED BY <1>2, <2>6
<1>5. ReportOnce' /\ NotYetMailed' /\ NoneMissed' BY <1>1, RoundsKept DEF RoundsStay
<1>6. ReportTypeOK' BY <1>1, <1>2 DEF ReportsInv, ReportTypeOK
<1> QED BY <1>4, <1>5, <1>6 DEF ReportsInv

\* Time passes: an instant is named and no round has looked at it yet.
LEMMA HalfMinuteStep == ReportsInv /\ HalfMinute => ReportsInv'
<1> SUFFICES ASSUME ReportsInv, HalfMinute PROVE ReportsInv' OBVIOUS
<1>1. /\ time' = time + 1 /\ time' \in Times /\ time \in Nat /\ Retention \in Nat
      /\ UNCHANGED <<rows, buckets, trimmed, loop, pending, reports, mailed, lastRound, excused>>
  BY ReportAssumption DEF HalfMinute, ReportsInv, ReportTypeOK, Times
<1>2. ReportTypeOK' BY <1>1 DEF ReportsInv, ReportTypeOK
<1>3. EmptyMinutes'
  <2> SUFFICES ASSUME NEW m \in Minutes \ trimmed, 2 * m >= time' - Retention, RowsFrom(m, 0) = 0
               PROVE  buckets[m] = 0
    BY <1>1 DEF EmptyMinutes, RowsFrom
  <2>1. 2 * m >= time - Retention BY <1>1, TimesFacts
  <2> QED BY <2>1 DEF ReportsInv, EmptyMinutes
<1>4. ReportOnce' /\ NotYetMailed' /\ NoneMissed' BY <1>1, RoundsKept DEF RoundsStay
<1> QED BY <1>2, <1>3, <1>4 DEF ReportsInv

\* evaluate_reports finds what is due, or a late round excuses it.
LEMMA EvaluateStep == ReportsInv /\ EvaluateReports => ReportsInv'
<1> SUFFICES ASSUME ReportsInv, EvaluateReports PROVE ReportsInv' OBVIOUS
<1>1. /\ loop = "reports" /\ loop' = "report" /\ lastRound' = time /\ time \in Times
      /\ pending' = [k \in Reports |-> IF Due(k) = {} THEN 0 ELSE CHOOSE t \in Due(k) : \A u \in Due(k) : t <= u]
      /\ excused' = excused \cup {r \in Reports \X Times : r[2] <= time - 3 /\ time - lastRound > 2}
      /\ UNCHANGED <<time, rows, buckets, trimmed, reports, mailed>>
  BY DEF EvaluateReports, ReportsInv, ReportTypeOK
<1>2. \A k \in Reports : Due(k) # {} => pending'[k] \in Due(k) /\ \A u \in Due(k) : pending'[k] <= u
  <2> SUFFICES ASSUME NEW k \in Reports, Due(k) # {}
               PROVE  pending'[k] \in Due(k) /\ \A u \in Due(k) : pending'[k] <= u
    OBVIOUS
  <2>1. Due(k) \in SUBSET Nat BY TimesFacts DEF Due
  <2>2. \E t \in Due(k) : \A u \in Due(k) : t <= u BY <2>1, LeastOf
  <2>3. pending'[k] = CHOOSE t \in Due(k) : \A u \in Due(k) : t <= u BY <1>1
  <2> QED BY <2>2, <2>3
<1>3. pending' \in [Reports -> Times]
  <2>1. \A k \in Reports : Due(k) \subseteq Times BY TimesFacts DEF Due
  <2>2. \A k \in Reports : Due(k) = {} => pending'[k] = 0 BY <1>1
  <2>3. 0 \in Times BY ReportAssumption DEF Times
  <2>4. \A k \in Reports : pending'[k] \in Times BY <1>2, <2>1, <2>2, <2>3
  <2> QED BY <1>1, <2>4
<1>4. ReportTypeOK' BY <1>1, <1>3 DEF ReportsInv, ReportTypeOK
<1>5. EmptyMinutes' BY <1>1, MinutesKept DEF MinutesStay, ReportsInv
<1>6. ReportOnce' /\ NotYetMailed' BY <1>1 DEF ReportsInv, ReportOnce, NotYetMailed
<1>7. NoneMissed'
  <2> SUFFICES ASSUME NEW k \in Reports, NEW t \in Scheduled[k], t <= time - 1, reports[<<k, t>>] = "none"
               PROVE  <<k, t>> \in excused' \/ pending'[k] = t
    BY <1>1 DEF NoneMissed
  <2>1. t \in Times /\ t \in Nat /\ t # 0 /\ t % 2 = 0 /\ time \in Nat /\ lastRound \in Nat
    BY TimesFacts DEF ReportsInv, ReportTypeOK
  <2>2. pending[k] = 0 BY <1>1 DEF ReportsInv, ReportTypeOK, NoReport
  <2>3. CASE t > time - 3
    <3>1. t \in Due(k) BY <2>1, <2>3 DEF Due
    <3>2. pending'[k] \in Due(k) /\ pending'[k] <= t BY <1>2, <3>1
    <3>3. /\ pending'[k] \in Nat /\ pending'[k] % 2 = 0 /\ pending'[k] > time - 3
      BY <3>2, TimesFacts, <2>1 DEF Due
    <3>4. t - pending'[k] \in {0, 1} BY <2>1, <2>3, <3>2, <3>3
    <3>5. t = pending'[k] BY <2>1, <3>3, <3>4
    <3> QED BY <3>5
  <2>4. CASE t <= time - 3 /\ time - lastRound > 2
    <3>1. <<k, t>> \in Reports \X Times /\ <<k, t>>[2] = t BY <2>1
    <3> QED BY <1>1, <2>4, <3>1
  <2>5. CASE t <= time - 3 /\ ~(time - lastRound > 2)
    <3>1. t <= lastRound - 1 BY <2>1, <2>5
    <3>2. <<k, t>> \in excused \/ pending[k] = t BY <3>1 DEF ReportsInv, NoneMissed
    <3> QED BY <1>1, <2>1, <2>2, <3>2
  <2> QED BY <2>1, <2>3, <2>4, <2>5
<1> QED BY <1>4, <1>5, <1>6, <1>7 DEF ReportsInv

\* INSERT OR IGNORE: a report is claimed once.
LEMMA ClaimReportStep == ReportsInv /\ ClaimReport => ReportsInv'
<1> SUFFICES ASSUME ReportsInv, ClaimReport PROVE ReportsInv' OBVIOUS
<1> DEFINE k == NextKind
           r == <<k, pending[k]>>
<1>1. k \in Reports /\ pending[k] \in Times /\ pending[k] # 0 BY NextPending DEF ClaimReport, ReportsInv
<1>2. /\ loop = "report" /\ pending # NoReport
      /\ UNCHANGED <<time, rows, buckets, trimmed, mailed, lastRound, excused>>
  BY DEF ClaimReport
<1>3. EmptyMinutes' BY <1>2, MinutesKept DEF MinutesStay, ReportsInv
<1>4. reports \in [Reports \X Times -> Statuses] /\ pending \in [Reports -> Times]
      /\ r \in Reports \X Times
  BY <1>1 DEF ReportsInv, ReportTypeOK
<1>5. CASE reports[r] = "none"
  <2>1. loop' = "mail" /\ reports' = [reports EXCEPT ![r] = "processing"] /\ pending' = pending
    BY <1>5 DEF ClaimReport, NotClaimed
  <2>2. reports' \in [Reports \X Times -> Statuses]
        /\ \A q \in Reports \X Times : reports'[q] = "none" => reports[q] = "none"
    BY <1>4, <2>1 DEF Statuses
  <2>3. ReportTypeOK' BY <1>2, <2>1, <2>2 DEF ReportsInv, ReportTypeOK
  <2>4. NextKind' = NextKind BY <2>1 DEF NextKind
  <2>5. mailed[r] = 0 BY <1>1, <1>5 DEF ReportsInv, NotYetMailed
  <2>6. NotYetMailed' BY <1>2, <2>1, <2>2, <2>4, <2>5 DEF ReportsInv, NotYetMailed
  <2>7. ReportOnce' BY <1>2 DEF ReportsInv, ReportOnce
  <2>8. NoneMissed'
    <3>1. \A j \in Reports : \A t \in Scheduled[j] : <<j, t>> \in Reports \X Times BY TimesFacts
    <3> QED BY <1>2, <2>1, <2>2, <3>1 DEF ReportsInv, NoneMissed
  <2> QED BY <1>3, <2>3, <2>6, <2>7, <2>8 DEF ReportsInv
<1>6. CASE reports[r] # "none"
  <2>1. loop' = loop /\ reports' = reports /\ pending' = [pending EXCEPT ![k] = 0]
    BY <1>6 DEF ClaimReport, NotClaimed
  <2>2. pending' \in [Reports -> Times]
        /\ \A j \in Reports : j # k => pending'[j] = pending[j]
    BY <1>4, <2>1, ReportAssumption DEF Times
  <2>3. ReportTypeOK' BY <1>2, <2>1, <2>2 DEF ReportsInv, ReportTypeOK
  <2>4. NotYetMailed' /\ ReportOnce' BY <1>2, <2>1 DEF ReportsInv, NotYetMailed, ReportOnce
  <2>5. NoneMissed'
    <3> SUFFICES ASSUME NEW j \in Reports, NEW t \in Scheduled[j], t <= lastRound - 1,
                        reports[<<j, t>>] = "none"
                 PROVE  <<j, t>> \in excused \/ pending'[j] = t
      BY <1>2, <2>1 DEF NoneMissed
    <3>1. <<j, t>> \in excused \/ pending[j] = t BY DEF ReportsInv, NoneMissed
    <3>2. ~(j = k /\ pending[j] = t) BY <1>6
    <3> QED BY <2>2, <3>1, <3>2
  <2> QED BY <1>3, <2>3, <2>4, <2>5 DEF ReportsInv
<1> QED BY <1>5, <1>6

\* The claimed report is mailed.
LEMMA DeliverStep == ReportsInv /\ DeliverReport => ReportsInv'
<1> SUFFICES ASSUME ReportsInv, DeliverReport PROVE ReportsInv' OBVIOUS
<1> DEFINE k == NextKind
           r == <<k, pending[k]>>
<1>1. /\ loop = "mail" /\ loop' = "mailed" /\ mailed' = [mailed EXCEPT ![r] = @ + 1]
      /\ UNCHANGED <<time, rows, buckets, trimmed, pending, reports, lastRound, excused>>
  BY DEF DeliverReport
<1>2. pending # NoReport BY <1>1 DEF ReportsInv, ReportTypeOK
<1>3. k \in Reports /\ pending[k] \in Times /\ pending[k] # 0 BY <1>2, NextPending DEF ReportsInv
<1>4. mailed \in [Reports \X Times -> Nat] /\ r \in Reports \X Times /\ mailed[r] = 0
  BY <1>1, <1>3 DEF ReportsInv, ReportTypeOK, NotYetMailed
<1>5. mailed' \in [Reports \X Times -> Nat] /\ mailed'[r] = 1
      /\ \A q \in Reports \X Times : q # r => mailed'[q] = mailed[q]
  BY <1>1, <1>4
<1>6. ReportTypeOK' BY <1>1, <1>2, <1>5 DEF ReportsInv, ReportTypeOK
<1>7. EmptyMinutes' BY <1>1, MinutesKept DEF MinutesStay, ReportsInv
<1>8. ReportOnce'
  <2> SUFFICES ASSUME NEW j \in Reports, NEW t \in Times PROVE mailed'[<<j, t>>] <= 1
    BY DEF ReportOnce
  <2>1. <<j, t>> \in Reports \X Times OBVIOUS
  <2>2. mailed[<<j, t>>] <= 1 BY DEF ReportsInv, ReportOnce
  <2> QED BY <1>5, <2>1, <2>2
<1>9. NotYetMailed'
  <2> SUFFICES ASSUME NEW j \in Reports, NEW t \in Times, reports[<<j, t>>] = "none"
               PROVE  mailed'[<<j, t>>] = 0
    BY <1>1 DEF NotYetMailed
  <2>1. reports[r] = "processing"
    BY <1>1 DEF ReportsInv, NotYetMailed
  <2>2. <<j, t>> \in Reports \X Times /\ <<j, t>> # r BY <2>1
  <2> QED BY <1>5, <2>2 DEF ReportsInv, NotYetMailed
<1>10. NoneMissed' BY <1>1 DEF ReportsInv, NoneMissed
<1> QED BY <1>6, <1>7, <1>8, <1>9, <1>10 DEF ReportsInv

\* The report the loop is at is settled, or its round ends.
LEMMA SettleStep == ReportsInv /\ (CompleteReport \/ ReportFails) => ReportsInv'
<1> SUFFICES ASSUME ReportsInv, CompleteReport \/ ReportFails PROVE ReportsInv' OBVIOUS
<1> DEFINE k == NextKind
           r == <<k, pending[k]>>
<1>1. /\ loop \in {"mail", "mailed"} /\ loop' \in {"report", "cleanup"}
      /\ UNCHANGED <<time, rows, buckets, trimmed, mailed, lastRound>>
  BY DEF CompleteReport, ReportFails
<1>2. pending # NoReport BY <1>1 DEF ReportsInv, ReportTypeOK
<1>3. k \in Reports /\ pending[k] \in Times /\ pending[k] # 0 BY <1>2, NextPending DEF ReportsInv
<1>4. reports \in [Reports \X Times -> Statuses] /\ pending \in [Reports -> Times]
      /\ r \in Reports \X Times /\ 0 \in Times
  BY <1>3, ReportAssumption DEF ReportsInv, ReportTypeOK, Times
<1>5. PICK status \in {"sent", "failed"} : reports' = [reports EXCEPT ![r] = status]
  BY DEF CompleteReport, ReportFails
<1>6. /\ reports' \in [Reports \X Times -> Statuses] /\ reports'[r] # "none"
      /\ \A q \in Reports \X Times : q # r => reports'[q] = reports[q]
  BY <1>4, <1>5 DEF Statuses
<1>7. /\ pending' \in [Reports -> Times] /\ excused' \subseteq Reports \X Times /\ excused \subseteq excused'
      /\ pending' # NoReport => loop' = "report"
  <2>1. CASE CompleteReport BY <2>1, <1>3, <1>4 DEF CompleteReport, ReportsInv, ReportTypeOK
  <2>2. CASE ReportFails BY <2>2, <1>4 DEF ReportFails, NothingPending, NoReport, ReportsInv, ReportTypeOK
  <2> QED BY <2>1, <2>2
<1>8. \A j \in Reports : j # k /\ pending[j] # 0 => pending'[j] = pending[j] \/ <<j, pending[j]>> \in excused'
  <2>1. CASE CompleteReport BY <2>1, <1>3, <1>4 DEF CompleteReport
  <2>2. CASE ReportFails BY <2>2, <1>4 DEF ReportFails
  <2> QED BY <2>1, <2>2
<1>9. ReportTypeOK' BY <1>1, <1>6, <1>7 DEF ReportsInv, ReportTypeOK
<1>10. EmptyMinutes' BY <1>1, MinutesKept DEF MinutesStay, ReportsInv
<1>11. ReportOnce' BY <1>1 DEF ReportsInv, ReportOnce
<1>12. \A j \in Reports, t \in Times : <<j, t>> \in Reports \X Times OBVIOUS
<1> HIDE DEF r
<1>13. NotYetMailed' BY <1>1, <1>6, <1>12 DEF ReportsInv, NotYetMailed
<1>14. NoneMissed'
  <2> SUFFICES ASSUME NEW j \in Reports, NEW t \in Scheduled[j], t <= lastRound - 1,
                      reports'[<<j, t>>] = "none"
               PROVE  <<j, t>> \in excused' \/ pending'[j] = t
    BY <1>1 DEF NoneMissed
  <2>1. t \in Times /\ t # 0 BY TimesFacts
  <2>2. <<j, t>> # r /\ reports[<<j, t>>] = "none" BY <1>6, <1>12, <2>1
  <2>3. <<j, t>> \in excused \/ pending[j] = t BY <2>2 DEF ReportsInv, NoneMissed
  <2>4. CASE <<j, t>> \in excused BY <2>4, <1>7
  <2>5. CASE pending[j] = t
    <3>1. j # k BY <2>2, <2>5 DEF r
    <3> QED BY <1>8, <2>1, <2>5, <3>1
  <2> QED BY <2>3, <2>4, <2>5
<1> QED BY <1>9, <1>10, <1>11, <1>13, <1>14 DEF ReportsInv

\* The round ends.
LEMMA DoneStep == ReportsInv /\ ReportsDone => ReportsInv'
<1> SUFFICES ASSUME ReportsInv, ReportsDone PROVE ReportsInv' OBVIOUS
<1>1. UNCHANGED <<time, rows, buckets, trimmed, pending, reports, mailed, lastRound, excused>>
      /\ loop' = "cleanup" /\ pending = NoReport
  BY DEF ReportsDone
<1>2. ReportTypeOK' BY <1>1 DEF ReportsInv, ReportTypeOK
<1>3. EmptyMinutes' BY <1>1, MinutesKept DEF MinutesStay, ReportsInv
<1>4. ReportOnce' /\ NotYetMailed' /\ NoneMissed' BY <1>1, RoundsKept DEF RoundsStay
<1> QED BY <1>2, <1>3, <1>4 DEF ReportsInv

\* The process starts again; what the round had found is excused.
LEMMA RestartOpsStep == ReportsInv /\ RestartOps => ReportsInv'
<1> SUFFICES ASSUME ReportsInv, RestartOps PROVE ReportsInv' OBVIOUS
<1>1. /\ loop' = "boot" /\ pending' = NoReport
      /\ excused' = excused \cup {<<k, pending[k]>> : k \in {j \in Reports : pending[j] # 0}}
      /\ UNCHANGED <<time, rows, buckets, trimmed, reports, mailed, lastRound>>
  BY DEF RestartOps
<1>2. 0 \in Times /\ pending \in [Reports -> Times] BY ReportAssumption DEF Times, ReportsInv, ReportTypeOK
<1>3. ReportTypeOK' BY <1>1, <1>2 DEF ReportsInv, ReportTypeOK, NoReport
<1>4. EmptyMinutes' BY <1>1, MinutesKept DEF MinutesStay, ReportsInv
<1>5. ReportOnce' /\ NotYetMailed' BY <1>1 DEF ReportsInv, ReportOnce, NotYetMailed
<1>6. NoneMissed'
  <2> SUFFICES ASSUME NEW j \in Reports, NEW t \in Scheduled[j], t <= lastRound - 1,
                      reports[<<j, t>>] = "none"
               PROVE  <<j, t>> \in excused'
    BY <1>1 DEF NoneMissed
  <2>1. <<j, t>> \in excused \/ pending[j] = t BY DEF ReportsInv, NoneMissed
  <2>2. t # 0 BY TimesFacts
  <2> QED BY <1>1, <2>1, <2>2
<1> QED BY <1>3, <1>4, <1>5, <1>6 DEF ReportsInv

\* Every step keeps the invariant.
LEMMA ReportsStep == ReportsInv /\ [ReportNext]_reportVars => ReportsInv'
<1> SUFFICES ASSUME ReportsInv, [ReportNext]_reportVars PROVE ReportsInv' OBVIOUS
<1>1. CASE UNCHANGED reportVars
  <2>1. UNCHANGED <<time, rows, buckets, trimmed, loop, pending, reports, mailed, lastRound, excused>>
    BY <1>1 DEF reportVars
  <2>2. ReportTypeOK' BY <2>1 DEF ReportsInv, ReportTypeOK
  <2>3. EmptyMinutes' BY <2>1, MinutesKept DEF MinutesStay, ReportsInv
  <2>4. ReportOnce' /\ NotYetMailed' /\ NoneMissed' BY <2>1, RoundsKept DEF RoundsStay
  <2> QED BY <2>2, <2>3, <2>4 DEF ReportsInv
<1> QED BY <1>1, UsageStep, OverviewStep, HalfMinuteStep, RestartOpsStep, CleanUsageStep, RollupStep,
           EvaluateStep, ClaimReportStep, DeliverStep, SettleStep, DoneStep, CleanupStep DEF ReportNext

\* The invariant gives what the runs check.
LEMMA ReportsAreSafe == ReportsInv => ReportsSafe
<1> SUFFICES ASSUME ReportsInv PROVE ReportsSafe OBVIOUS
<1>1. TrendExact
  <2> SUFFICES ASSUME NEW m \in Minutes \ trimmed, 2 * m >= time - TrendRange, 2 * m >= time - Retention
               PROVE  RolledUp(TrendRange)[m] = RowsFrom(m, 0)
    BY DEF TrendExact, Refreshed
  <2>1. time - TrendRange \in Int BY TimesFacts, ReportAssumption DEF ReportsInv, ReportTypeOK
  <2>2. RowsFrom(m, time - TrendRange) = RowsFrom(m, 0) /\ RowsFrom(m, 0) \in Nat
    BY <2>1, RowsSum DEF ReportsInv, ReportTypeOK
  <2>3. RowsFrom(m, 0) = 0 => buckets[m] = 0 BY DEF ReportsInv, EmptyMinutes
  <2> QED BY <2>2, <2>3 DEF RolledUp
<1>2. NoReportMissed
  <2> SUFFICES ASSUME NEW k \in Reports, NEW t \in Times, t \in Scheduled[k], t <= lastRound - 2,
                      reports[<<k, t>>] = "none"
               PROVE  <<k, t>> \in excused \/ pending[k] = t
    BY DEF NoReportMissed
  <2>1. t <= lastRound - 1 BY TimesFacts DEF ReportsInv, ReportTypeOK
  <2> QED BY <2>1 DEF ReportsInv, NoneMissed
<1> QED BY <1>1, <1>2 DEF ReportsInv, ReportsSafe

\* In every behaviour, whatever the windows, the retention and the schedules:
\* the trend shows every minute's requests, a report is mailed at most once,
\* and none is missed but for a round that was late, failed or was cut short
\* (ops.rs, rollup, evaluate_reports, claim_report).
THEOREM ReportsCorrect == ReportSpec => []ReportsSafe
BY ReportsInitially, ReportsStep, ReportsAreSafe, PTL DEF ReportSpec

=============================================================================
