-------------------------- MODULE BatchImagesProofs --------------------------
(***************************************************************************)
(* Theorems about the types and the money of the batch-image jobs, for any *)
(* number of users, requests and providers, any prices and any number of   *)
(* restarts: the frozen column is the sum of the unfinished holds, no cent *)
(* is lost, the audit trail explains the balance, and the jobs implement   *)
(* the hold ledger.  And about single jobs: what a final job keeps, the    *)
(* order of the statuses, what a completed job is charged for, that a      *)
(* settlement is never refused, that a key submits one job, and that       *)
(* outputs reported deleted are gone.                                      *)
(***************************************************************************)
EXTENDS BatchImages, TotalsProofs

-----------------------------------------------------------------------------
(* Arithmetic of holds *)

(* A price rounded up at a rate in basis points is a natural number.       *)
LEMMA RoundedBpsType ==
  ASSUME NEW v \in Nat, NEW b \in Nat
  PROVE  RoundedBps(v, b) \in Nat
<1> DEFINE m == v * b
           n == m + 9999
<1>1. m \in Nat
  OBVIOUS
<1> HIDE DEF m
<1>2. n \in Nat
  BY <1>1
<1> HIDE DEF n
<1>3. n \div 10000 \in Nat
  BY <1>2
<1> QED
  BY <1>3 DEF RoundedBps, n, m

(* The billable and hold prices of a provider are natural numbers, and the *)
(* hold price covers the billable price.                                   *)
LEMMA UnitTypes ==
  ASSUME NEW p \in Providers, NEW c \in Nat
  PROVE  /\ BillableUnit(p, c) \in Nat
         /\ HoldUnit(p, c) \in Nat
         /\ BillableUnit(p, c) <= HoldUnit(p, c)
<1>1. DiscountBps[p] \in Nat /\ HoldBps[p] \in Nat
  BY ProviderAssumption
<1>2. RoundedBps(c, DiscountBps[p]) \in Nat /\ RoundedBps(c, HoldBps[p]) \in Nat
  BY <1>1, RoundedBpsType
<1> QED
  BY <1>2 DEF BillableUnit, HoldUnit

(* A hold is a natural number and pays for every image asked for.          *)
LEMMA HoldType ==
  ASSUME NEW r \in Requests, NEW p \in Providers, NEW c \in Nat
  PROVE  /\ HoldOf(r, p, c) \in Nat
         /\ Items[r] * BillableUnit(p, c) <= HoldOf(r, p, c)
<1> DEFINE n == Items[r]
           b == BillableUnit(p, c)
           h == HoldUnit(p, c)
<1>1. n \in Nat /\ b \in Nat /\ h \in Nat /\ b <= h
  BY UnitTypes, PopulationAssumption
<1> HIDE DEF n, b, h
<1>2. h * n \in Nat /\ n * b <= h * n
  BY <1>1
<1> QED
  BY <1>2 DEF HoldOf, n, b, h

-----------------------------------------------------------------------------
(* Type correctness *)

(* A provider has been selected when the reservation starts.               *)
ProviderSelected ==
  \A r \in Requests : submit[r].pc = "reserve" => submit[r].provider \in Providers

TypeInv == TypeOK /\ ProviderSelected

(* The status values are those of the column's CHECK.                      *)
LEMMA Statuses ==
  /\ {"none", "created", "queued", "running", "indexing", "settling",
      "completed", "failed", "cancelled", "output_deleted"} \subseteq JobStatus
  /\ "failed" \in Final /\ "cancelled" \in Final
  BY DEF JobStatus, Active, Final, Charged, Uncharged

LEMMA TypeInit == Init => TypeInv
<1> SUFFICES ASSUME Init PROVE TypeInv
  OBVIOUS
<1>1. NoJob \in Job
  BY Statuses DEF NoJob, Job
<1>2. SubmitIdle \in Submitter /\ SchedIdle \in SchedulerState
  BY DEF SubmitIdle, Submitter, SchedIdle, SchedulerState, SchedPc, Remote
<1>3. granted \in [Users -> Int] /\ balance \in [Users -> Nat]
  BY PopulationAssumption DEF Init
<1>4. "none" \in Remote
  BY DEF Remote
<1> QED
  BY <1>1, <1>2, <1>3, <1>4 DEF Init, TypeInv, TypeOK, ProviderSelected, SubmitIdle

(* Writing one column of a row keeps the table well typed.                 *)
LEMMA ColumnUpdates ==
  ASSUME NEW f \in [Requests -> Job], NEW r \in Requests, NEW s \in JobStatus,
         NEW n \in Nat, NEW b \in BOOLEAN
  PROVE  /\ [f EXCEPT ![r].status = s] \in [Requests -> Job]
         /\ [f EXCEPT ![r].generated = n] \in [Requests -> Job]
         /\ [f EXCEPT ![r].cost = n] \in [Requests -> Job]
         /\ [f EXCEPT ![r].itemsOk = n] \in [Requests -> Job]
         /\ [f EXCEPT ![r].retry = n] \in [Requests -> Job]
         /\ [f EXCEPT ![r].named = b] \in [Requests -> Job]
         /\ [f EXCEPT ![r].files = b] \in [Requests -> Job]
         /\ [f EXCEPT ![r].hidden = b] \in [Requests -> Job]
         /\ [f EXCEPT ![r].overdue = b] \in [Requests -> Job]
         /\ [f EXCEPT ![r].expired = b] \in [Requests -> Job]
<1>1. [f EXCEPT ![r].status = s] \in [Requests -> Job]
  BY DEF Job
<1>2. [f EXCEPT ![r].generated = n] \in [Requests -> Job]
  BY DEF Job
<1>3. [f EXCEPT ![r].cost = n] \in [Requests -> Job]
  BY DEF Job
<1>4. [f EXCEPT ![r].itemsOk = n] \in [Requests -> Job]
  BY DEF Job
<1>5. [f EXCEPT ![r].retry = n] \in [Requests -> Job]
  BY DEF Job
<1>6. [f EXCEPT ![r].named = b] \in [Requests -> Job]
  BY DEF Job
<1>7. [f EXCEPT ![r].files = b] \in [Requests -> Job]
  BY DEF Job
<1>8. [f EXCEPT ![r].hidden = b] \in [Requests -> Job]
  BY DEF Job
<1>9. [f EXCEPT ![r].overdue = b] \in [Requests -> Job]
  BY DEF Job
<1>10. [f EXCEPT ![r].expired = b] \in [Requests -> Job]
  BY DEF Job
<1> QED
  BY <1>1, <1>2, <1>3, <1>4, <1>5, <1>6, <1>7, <1>8, <1>9, <1>10

(* Every column update the actions make keeps the row well typed.          *)
LEMMA JobUpdates ==
  ASSUME job \in [Requests -> Job], NEW r \in Requests, NEW s \in JobStatus,
         NEW n \in Nat, NEW b \in BOOLEAN
  PROVE  /\ [job EXCEPT ![r].status = s] \in [Requests -> Job]
         /\ [job EXCEPT ![r].status = s, ![r].generated = n] \in [Requests -> Job]
         /\ [job EXCEPT ![r].status = s, ![r].named = b] \in [Requests -> Job]
         /\ [job EXCEPT ![r].status = s, ![r].cost = n] \in [Requests -> Job]
         /\ [job EXCEPT ![r].itemsOk = n] \in [Requests -> Job]
         /\ [job EXCEPT ![r].itemsOk = n, ![r].generated = n, ![r].status = s]
              \in [Requests -> Job]
         /\ [job EXCEPT ![r].retry = n] \in [Requests -> Job]
         /\ [job EXCEPT ![r].files = b] \in [Requests -> Job]
         /\ [job EXCEPT ![r].hidden = b] \in [Requests -> Job]
         /\ [job EXCEPT ![r].overdue = b] \in [Requests -> Job]
         /\ [job EXCEPT ![r].expired = b] \in [Requests -> Job]
<1> DEFINE f == [job EXCEPT ![r].status = s]
           g == [job EXCEPT ![r].itemsOk = n]
           h == [g EXCEPT ![r].generated = n]
<1>1. f \in [Requests -> Job] /\ g \in [Requests -> Job]
  BY ColumnUpdates
<1>2. /\ [job EXCEPT ![r].status = s, ![r].generated = n] = [f EXCEPT ![r].generated = n]
      /\ [job EXCEPT ![r].status = s, ![r].named = b] = [f EXCEPT ![r].named = b]
      /\ [job EXCEPT ![r].status = s, ![r].cost = n] = [f EXCEPT ![r].cost = n]
  OBVIOUS
<1>3. [job EXCEPT ![r].itemsOk = n, ![r].generated = n, ![r].status = s] = [h EXCEPT ![r].status = s]
  OBVIOUS
<1> HIDE DEF g
<1>4. h \in [Requests -> Job]
  BY <1>1, ColumnUpdates
<1> HIDE DEF f, h
<1>5. /\ [f EXCEPT ![r].generated = n] \in [Requests -> Job]
      /\ [f EXCEPT ![r].named = b] \in [Requests -> Job]
      /\ [f EXCEPT ![r].cost = n] \in [Requests -> Job]
      /\ [h EXCEPT ![r].status = s] \in [Requests -> Job]
  BY <1>1, <1>4, ColumnUpdates
<1>6. /\ [job EXCEPT ![r].retry = n] \in [Requests -> Job]
      /\ [job EXCEPT ![r].files = b] \in [Requests -> Job]
      /\ [job EXCEPT ![r].hidden = b] \in [Requests -> Job]
      /\ [job EXCEPT ![r].overdue = b] \in [Requests -> Job]
      /\ [job EXCEPT ![r].expired = b] \in [Requests -> Job]
  BY ColumnUpdates
<1> QED
  BY <1>1, <1>2, <1>3, <1>5, <1>6 DEF f, g

(* Giving a hold back keeps the columns natural numbers.                   *)
LEMMA ReturnType ==
  ASSUME TypeOK, NEW r \in Requests, NEW kept \in Nat, kept <= job[r].hold,
         FrozenCovers(Owner[r], job[r].hold),
         ReturnBalance(Owner[r], job[r].hold, kept)
  PROVE  /\ balance' \in [Users -> Nat]
         /\ frozen' \in [Users -> Nat]
         /\ enabled' \in [Users -> BOOLEAN]
         /\ ledger' \in [Users -> Int]
         /\ granted' \in [Users -> Int]
<1> DEFINE u == Owner[r]
           h == job[r].hold
<1>1. u \in Users /\ h \in Nat
  BY PopulationAssumption DEF TypeOK, Job
<1> HIDE DEF u, h
<1>2. frozen[u] - h \in Nat
  BY <1>1 DEF TypeOK, FrozenCovers, u, h
<1>3. balance[u] + (h - kept) \in Nat /\ ledger[u] + (h - kept) \in Int
  BY <1>1 DEF TypeOK, u, h
<1> QED
  BY <1>1, <1>2, <1>3 DEF TypeOK, ReturnBalance, u, h

LEMMA FinishType ==
  ASSUME TypeOK, NEW r \in Requests, NEW s \in {"failed", "cancelled"},
         FinishWithoutCharge(r, s)
  PROVE  /\ balance' \in [Users -> Nat]
         /\ frozen' \in [Users -> Nat]
         /\ enabled' \in [Users -> BOOLEAN]
         /\ ledger' \in [Users -> Int]
         /\ granted' \in [Users -> Int]
         /\ job' \in [Requests -> Job]
<1>1. CASE job[r].status \in Final \/ ~Releasable(r)
  BY <1>1 DEF FinishWithoutCharge, TypeOK, users
<1>2. CASE ~(job[r].status \in Final \/ ~Releasable(r))
  <2>1. job' = [job EXCEPT ![r].status = s, ![r].generated = job[r].itemsOk]
    BY <1>2 DEF FinishWithoutCharge
  <2>2. s \in JobStatus /\ job[r].itemsOk \in Nat
    BY Statuses DEF TypeOK, Job
  <2>4. job' \in [Requests -> Job]
    BY <2>1, <2>2, JobUpdates DEF TypeOK
  <2>3. 0 <= job[r].hold
    BY DEF TypeOK, Job
  <2> QED
    BY <1>2, <2>3, <2>4, ReturnType DEF FinishWithoutCharge, Releasable, ReleaseBalance
<1> QED
  BY <1>1, <1>2

(* Moves of the scheduler stay within its type.                            *)
LEMMA SchedMoves ==
  ASSUME TypeOK
  PROVE  /\ \A pc \in SchedPc : [sched EXCEPT !.pc = pc] \in SchedulerState
         /\ [sched EXCEPT !.pc = "next", !.at = {}, !.seen = "none"] \in SchedulerState
         /\ \A s \in Remote : [sched EXCEPT !.pc = "apply", !.seen = s] \in SchedulerState
         /\ SchedIdle \in SchedulerState
  BY DEF TypeOK, SchedulerState, SchedIdle, SchedPc, Remote

LEMMA SubmitType ==
  ASSUME TypeInv, NEW r \in Requests, SubmitStep(r)
  PROVE  TypeInv'
<1> USE DEF TypeInv, TypeOK, users, providers, handlers
<1>1. SubmitDone \in Submitter /\ SubmitDone.pc # "reserve"
  BY DEF SubmitDone, Submitter
<1>2. CASE SubmitFind(r)
  BY <1>1, <1>2 DEF SubmitFind, Submitter, ProviderSelected
<1>3. CASE SubmitSelect(r)
  <2>1. ASSUME NEW p \in Providers
        PROVE  [pc |-> "reserve", provider |-> p, price |-> price[p]] \in Submitter
    <3>1. price[p] \in Prices /\ Prices \subseteq Nat
      BY ProviderAssumption
    <3> QED
      BY <3>1 DEF Submitter
  <2>2. submit' \in [Requests -> Submitter] /\ ProviderSelected'
    BY <1>1, <1>3, <2>1 DEF SubmitSelect, Available, ProviderSelected
  <2> QED
    BY <1>3, <2>2 DEF SubmitSelect
<1>4. CASE SubmitReserve(r)
  <2> DEFINE p == submit[r].provider
             c == submit[r].price
             a == HoldOf(r, p, c)
             u == Owner[r]
  <2>1. p \in Providers /\ c \in Nat /\ u \in Users
    BY <1>4, PopulationAssumption DEF SubmitReserve, ProviderSelected, Submitter
  <2>2. a \in Nat /\ BillableUnit(p, c) \in Nat
    BY <2>1, HoldType, UnitTypes
  <2>3. submit' \in [Requests -> Submitter] /\ ProviderSelected'
    <3>1. [submit[r] EXCEPT !.pc = "call"] \in Submitter
      BY DEF Submitter
    <3>2. \/ submit' = [submit EXCEPT ![r] = SubmitDone]
          \/ submit' = [submit EXCEPT ![r].pc = "call"]
      BY <1>4 DEF SubmitReserve
    <3>3. submit' \in [Requests -> Submitter]
      BY <1>1, <3>1, <3>2
    <3>4. \A q \in Requests \ {r} : submit'[q] = submit[q]
      BY <3>2
    <3>5. submit'[r].pc # "reserve"
      BY <1>1, <3>2 DEF Submitter
    <3> QED
      BY <3>3, <3>4, <3>5 DEF ProviderSelected
  <2>4. CASE ~Reservable(r)
    BY <1>4, <2>3, <2>4 DEF SubmitReserve
  <2>5. CASE Reservable(r)
    <3>1. ReserveBalance(u, a) /\ CanReserve(u, a)
      BY <1>4, <2>5 DEF SubmitReserve, Reservable
    <3> HIDE DEF a, u, p, c
    <3>2. balance[u] - a \in Nat /\ frozen[u] + a \in Nat /\ ledger[u] - a \in Int
      BY <2>1, <2>2, <3>1 DEF CanReserve
    <3>3. /\ balance' \in [Users -> Nat] /\ frozen' \in [Users -> Nat]
          /\ ledger' \in [Users -> Int]
          /\ enabled' = enabled /\ granted' = granted
      BY <2>1, <3>1, <3>2 DEF ReserveBalance
    <3>4. [NoJob EXCEPT !.status = "created", !.provider = p, !.hold = a,
                        !.unit = BillableUnit(p, c)] \in Job
      BY <2>1, <2>2, Statuses DEF Job, NoJob
    <3>5. job' \in [Requests -> Job]
      BY <1>4, <2>5, <3>4 DEF SubmitReserve, a, p, c
    <3> QED
      BY <1>4, <2>3, <3>3, <3>5 DEF SubmitReserve
  <2> QED
    BY <2>4, <2>5
<1>5. CASE SubmitCall(r)
  BY <1>5 DEF SubmitCall, Submitter, ProviderSelected, Remote
<1>6. CASE SubmitRecord(r)
  <2>1. job' \in [Requests -> Job]
    BY <1>6, Statuses, JobUpdates DEF SubmitRecord
  <2> QED
    BY <1>1, <1>6, <2>1 DEF SubmitRecord, ProviderSelected
<1>7. CASE SubmitFail(r)
  BY <1>1, <1>7, FinishType DEF SubmitFail, Submitter, ProviderSelected
<1> QED
  BY <1>2, <1>3, <1>4, <1>5, <1>6, <1>7 DEF SubmitStep

LEMMA SchedType ==
  ASSUME TypeInv, NEW r \in Requests, SchedStep(r)
  PROVE  TypeInv'
<1> USE DEF TypeInv, TypeOK, users, providers, handlers
<1>1. ProviderSelected'
  BY DEF SchedStep, ProviderSelected, SchedTake, SchedExpire, SchedPoll, SchedApply,
         SchedReread, SchedIndex, SchedCommit, SchedSettle, SchedError, SchedExhausted,
         SchedRemove, SchedMark
<1>2. CASE SchedTake(r)
  <2>1. Branch(r) \in SchedPc
    BY DEF Branch, SchedPc
  <2>2. sched' \in SchedulerState
    BY <1>2, <2>1 DEF SchedTake, SchedulerState
  <2> QED
    BY SchedMoves, <1>1, <1>2, <2>2 DEF SchedTake
<1>3. CASE SchedExpire(r)
  BY SchedMoves, <1>1, <1>3, FinishType DEF SchedExpire, SchedNext, Goto, SchedPc
<1>4. CASE SchedPoll(r)
  <2>1. remote[r] \in Remote
    OBVIOUS
  <2>2. [sched EXCEPT !.pc = "apply", !.seen = remote[r]] \in SchedulerState
    BY <2>1, SchedMoves
  <2> QED
    BY SchedMoves, <1>1, <1>4, <2>2 DEF SchedPoll, Goto, SchedPc
<1>5. CASE SchedApply(r)
  <2>1. CASE sched.seen \in {"pending", "running", "succeeded"}
    <3>0. \A s \in JobStatus : [job EXCEPT ![r].status = s] \in [Requests -> Job]
      BY JobUpdates
    <3>1. job' \in [Requests -> Job]
      BY <1>5, <2>1, <3>0, Statuses DEF SchedApply
    <3>2. sched' \in SchedulerState
      BY SchedMoves, <1>5, <2>1 DEF SchedApply, Goto, SchedNext, SchedPc
    <3> QED
      BY SchedMoves, <1>1, <1>5, <2>1, <3>1, <3>2 DEF SchedApply
  <2>2. CASE sched.seen \in {"failed", "cancelled"}
    BY SchedMoves, <1>1, <1>5, <2>2, FinishType DEF SchedApply, Goto, SchedNext, SchedPc
  <2> QED
    BY <1>5, <2>1, <2>2 DEF SchedApply
<1>6. CASE SchedReread(r)
  BY SchedMoves, <1>1, <1>6 DEF SchedReread, Goto, SchedNext, SchedPc
<1>7. CASE SchedIndex(r)
  <2>1. job' \in [Requests -> Job]
    BY <1>7, JobUpdates, Statuses DEF SchedIndex
  <2> QED
    BY SchedMoves, <1>1, <1>7, <2>1 DEF SchedIndex, Goto, SchedPc
<1>8. CASE SchedCommit(r)
  <2>1. PICK n \in ImagesFound(r) :
          job' = IF job[r].status = "indexing"
                 THEN [job EXCEPT ![r].itemsOk = n, ![r].generated = n,
                                  ![r].status = "settling"]
                 ELSE [job EXCEPT ![r].itemsOk = n]
    BY <1>8 DEF SchedCommit
  <2>2. n \in Nat
    BY PopulationAssumption DEF ImagesFound
  <2>3. job' \in [Requests -> Job]
    BY <2>1, <2>2, JobUpdates, Statuses
  <2> QED
    BY SchedMoves, <1>1, <1>8, <2>3 DEF SchedCommit, Goto, SchedPc
<1>9. CASE SchedSettle(r)
  <2>1. CASE job[r].status # "settling" \/ SettleRefused(r)
    BY SchedMoves, <1>1, <1>9, <2>1 DEF SchedSettle, Goto, SchedNext, SchedPc
  <2>2. CASE job[r].status = "settling" /\ ~SettleRefused(r)
    <3>1. Actual(r) \in Nat
      BY DEF Actual, Job
    <3>2. Actual(r) <= job[r].hold /\ FrozenCovers(Owner[r], job[r].hold)
      BY <2>2, <3>1 DEF SettleRefused, Job
    <3>3. job' \in [Requests -> Job]
      <4>1. \A n \in Nat : [job EXCEPT ![r].status = "completed", ![r].cost = n]
                             \in [Requests -> Job]
        BY JobUpdates, Statuses
      <4>2. job' = [job EXCEPT ![r].status = "completed", ![r].cost = Actual(r)]
        BY <1>9, <2>2 DEF SchedSettle
      <4> QED
        BY ONLY <3>1, <4>1, <4>2
    <3> QED
      BY SchedMoves, <1>1, <1>9, <2>2, <3>1, <3>2, <3>3, ReturnType
         DEF SchedSettle, CaptureBalance, SchedNext
  <2> QED
    BY <2>1, <2>2
<1>10. CASE SchedError(r)
  <2>1. job[r].retry + 1 \in Nat
    BY DEF Job
  <2>2. job' \in [Requests -> Job]
    BY <1>10, <2>1, JobUpdates, Statuses DEF SchedError
  <2> QED
    BY SchedMoves, <1>1, <1>10, <2>2 DEF SchedError, Goto, SchedNext, SchedPc
<1>11. CASE SchedExhausted(r)
  BY SchedMoves, <1>1, <1>11, FinishType DEF SchedExhausted, SchedNext
<1>12. CASE SchedRemove(r)
  <2>0. [job EXCEPT ![r].files = FALSE] \in [Requests -> Job]
    BY JobUpdates, Statuses
  <2>1. job' \in [Requests -> Job]
    BY <1>12, <2>0 DEF SchedRemove, RemoveFiles
  <2> QED
    BY SchedMoves, <1>1, <1>12, <2>1 DEF SchedRemove, Goto, SchedPc
<1>13. CASE SchedMark(r)
  <2>0. [job EXCEPT ![r].status = "output_deleted"] \in [Requests -> Job]
    BY JobUpdates, Statuses
  <2>1. job' \in [Requests -> Job]
    BY <1>13, <2>0 DEF SchedMark, MarkDeleted
  <2> QED
    BY SchedMoves, <1>1, <1>13, <2>1 DEF SchedMark
<1> QED
  BY <1>2, <1>3, <1>4, <1>5, <1>6, <1>7, <1>8, <1>9, <1>10, <1>11, <1>12, <1>13
     DEF SchedStep

LEMMA OwnerType ==
  ASSUME TypeInv, NEW r \in Requests, OwnerStep(r)
  PROVE  TypeInv'
<1> USE DEF TypeInv, TypeOK, users, providers, handlers
<1>1. ProviderSelected'
  BY DEF OwnerStep, ProviderSelected, CancelStart, CancelCall, CancelFinish,
         PurgeStart, PurgeRemove, PurgeMark, DeleteRecord
<1>2. /\ [job EXCEPT ![r].files = FALSE] \in [Requests -> Job]
      /\ [job EXCEPT ![r].hidden = TRUE] \in [Requests -> Job]
      /\ [job EXCEPT ![r].status = "output_deleted"] \in [Requests -> Job]
  BY JobUpdates, Statuses
<1>3. CASE CancelStart(r)
  BY <1>1, <1>3 DEF CancelStart
<1>4. CASE CancelCall(r)
  <2>1. cancel' \in [Requests -> {"idle", "call", "finish"}]
    BY <1>4 DEF CancelCall
  <2>2. (IF remote[r] \in RemoteDone THEN remote[r] ELSE "cancelled") \in Remote
    BY DEF Remote, RemoteDone
  <2>3. remote' \in [Requests -> Remote]
    BY <1>4, <2>2 DEF CancelCall
  <2> QED
    BY <1>1, <1>4, <2>1, <2>3 DEF CancelCall
<1>5. CASE CancelFinish(r)
  <2>1. cancel' \in [Requests -> {"idle", "call", "finish"}]
    BY <1>5 DEF CancelFinish
  <2>2. FinishWithoutCharge(r, "cancelled")
    BY <1>5 DEF CancelFinish
  <2> QED
    BY <1>1, <1>5, <2>1, <2>2, FinishType DEF CancelFinish
<1>6. CASE PurgeStart(r)
  BY <1>1, <1>6 DEF PurgeStart
<1>7. CASE PurgeRemove(r)
  BY <1>1, <1>2, <1>7 DEF PurgeRemove, RemoveFiles
<1>8. CASE PurgeMark(r)
  BY <1>1, <1>2, <1>8 DEF PurgeMark, MarkDeleted
<1>9. CASE DeleteRecord(r)
  BY <1>1, <1>2, <1>9 DEF DeleteRecord
<1> QED
  BY <1>3, <1>4, <1>5, <1>6, <1>7, <1>8, <1>9 DEF OwnerStep

LEMMA WorldType ==
  ASSUME TypeInv, NEW r \in Requests, WorldStep(r)
  PROVE  TypeInv'
<1> USE DEF TypeInv, TypeOK, users, providers, handlers
<1>1. SubmitDone \in Submitter /\ SubmitDone.pc # "reserve"
  BY DEF SubmitDone, Submitter
<1>2. /\ [job EXCEPT ![r].overdue = TRUE] \in [Requests -> Job]
      /\ [job EXCEPT ![r].expired = TRUE] \in [Requests -> Job]
  BY JobUpdates, Statuses
<1>3. CASE RemoteStep(r)
  BY <1>3 DEF RemoteStep, Remote, RemoteDone, ProviderSelected
<1>4. CASE CreatedLongAgo(r)
  BY <1>2, <1>4 DEF CreatedLongAgo, ProviderSelected
<1>5. CASE OutputExpires(r)
  BY <1>2, <1>5 DEF OutputExpires, ProviderSelected
<1>6. CASE ClientGone(r)
  BY <1>1, <1>6 DEF ClientGone, ProviderSelected
<1> QED
  BY <1>3, <1>4, <1>5, <1>6 DEF WorldStep

LEMMA AdminType ==
  ASSUME TypeInv, AdminStep
  PROVE  TypeInv'
<1> USE DEF TypeInv, TypeOK, users, providers, handlers
<1>1. ASSUME NEW u \in Users, NEW d \in Deltas, AdjustBalance(u, d)
      PROVE  TypeInv'
  <2>1. d \in Int /\ balance[u] + d \in Nat
    BY <1>1, LimitAssumption DEF AdjustBalance
  <2>2. ledger[u] + d \in Int /\ granted[u] + d \in Int
    BY <2>1
  <2> QED
    BY <1>1, <2>1, <2>2 DEF AdjustBalance, ProviderSelected
<1>2. ASSUME NEW u \in Suspects, DisableUser(u)
      PROVE  TypeInv'
  BY <1>2 DEF DisableUser, ProviderSelected
<1>3. ASSUME NEW p \in Edited, UpdateProvider(p)
      PROVE  TypeInv'
  BY <1>3 DEF UpdateProvider, ProviderSelected
<1> QED
  BY <1>1, <1>2, <1>3 DEF AdminStep

LEMMA TaskType ==
  ASSUME TypeInv, SchedScan \/ SchedCleanup \/ Crash
  PROVE  TypeInv'
<1> USE DEF TypeInv, TypeOK, users, providers, handlers
<1>1. CASE SchedScan
  <2>1. sched' \in SchedulerState
    BY <1>1 DEF SchedScan, Pending, SchedIdle, SchedulerState, SchedPc, Remote
  <2> QED
    BY <1>1, <2>1 DEF SchedScan, ProviderSelected
<1>2. CASE SchedCleanup
  <2>1. /\ SchedIdle \in SchedulerState
        /\ \A r \in Requests : [SchedIdle EXCEPT !.pc = "remove", !.at = {r}] \in SchedulerState
    BY DEF SchedIdle, SchedulerState, SchedPc, Remote
  <2>3. sched' \in SchedulerState
    BY <1>2, <2>1 DEF SchedCleanup, Expired
  <2> QED
    BY <1>2, <2>3 DEF SchedCleanup, ProviderSelected
<1>3. CASE Crash
  <2>1. SubmitDone \in Submitter /\ SubmitDone.pc # "reserve"
    BY DEF SubmitDone, Submitter
  <2>2. submit' \in [Requests -> Submitter] /\ ProviderSelected'
    BY <1>3, <2>1 DEF Crash, ProviderSelected
  <2> QED
    <3>1. SchedIdle \in SchedulerState
      BY SchedMoves
    <3> QED
      BY <1>3, <2>2, <3>1 DEF Crash
<1> QED
  BY <1>1, <1>2, <1>3

LEMMA TypeStep == TypeInv /\ [Next]_vars => TypeInv'
<1>1. ASSUME TypeInv, Next PROVE TypeInv'
  BY <1>1, SubmitType, SchedType, OwnerType, WorldType, AdminType, TaskType DEF Next
<1>2. ASSUME TypeInv, UNCHANGED vars PROVE TypeInv'
  BY <1>2 DEF TypeInv, TypeOK, ProviderSelected, vars, users, providers, handlers
<1> QED
  BY <1>1, <1>2

(* Balances and frozen balances never go below zero, every row keeps the   *)
(* values its columns allow, and no handler or scheduler leaves its steps. *)
THEOREM TypeCorrect == Spec => []TypeOK
<1>1. Spec => []TypeInv
  BY TypeInit, TypeStep, PTL DEF Spec
<1>2. TypeInv => TypeOK
  BY DEF TypeInv
<1> QED
  BY <1>1, <1>2, PTL


-----------------------------------------------------------------------------
(* What a step may do to the money *)

(* A job row exists before anybody works on it: until a submission has     *)
(* reserved there is none, and whoever carries a job in hand has seen one. *)
Fresh(r) ==
  /\ submit[r].pc \in {"idle", "select", "reserve"} => job[r].status = "none"
  /\ job[r].status = "none" => job[r].cost = 0
InHand(r) ==
  \/ submit[r].pc \in {"call", "record", "fail"}
  \/ cancel[r] # "idle" \/ purge[r] # "idle"
  \/ r \in sched.due \/ r \in sched.at
RowsExist ==
  \A r \in Requests : Fresh(r) /\ (InHand(r) => job[r].status # "none")

StepInv == TypeInv /\ RowsExist

Money == <<balance, frozen, ledger, granted>>

SameRow(q) ==
  /\ Phase(job'[q].status) = Phase(job[q].status)
  /\ job'[q].hold = job[q].hold
  /\ job'[q].cost = job[q].cost

OnlyRow(r) == \A q \in Requests \ {r} : SameRow(q)

(* The four kinds of step, and the steps that leave the money alone.       *)
Quiet == UNCHANGED Money /\ \A q \in Requests : SameRow(q)

Reserves(r, a) ==
  /\ Phase(job[r].status) = "none" /\ Phase(job'[r].status) = "held"
  /\ job'[r].hold = a /\ job'[r].cost = job[r].cost
  /\ OnlyRow(r)
  /\ a <= balance[Owner[r]]
  /\ ReserveBalance(Owner[r], a)

Releases(r) ==
  /\ Phase(job[r].status) = "held" /\ Phase(job'[r].status) = "released"
  /\ job'[r].hold = job[r].hold /\ job'[r].cost = job[r].cost
  /\ OnlyRow(r)
  /\ FrozenCovers(Owner[r], job[r].hold)
  /\ ReturnBalance(Owner[r], job[r].hold, 0)

Captures(r, c) ==
  /\ Phase(job[r].status) = "held" /\ Phase(job'[r].status) = "captured"
  /\ job'[r].hold = job[r].hold /\ job'[r].cost = c
  /\ OnlyRow(r)
  /\ c <= job[r].hold
  /\ FrozenCovers(Owner[r], job[r].hold)
  /\ ReturnBalance(Owner[r], job[r].hold, c)

Adjusts(u, d) ==
  /\ balance[u] + d >= 0
  /\ balance' = [balance EXCEPT ![u] = @ + d]
  /\ ledger' = [ledger EXCEPT ![u] = @ + d]
  /\ granted' = [granted EXCEPT ![u] = @ + d]
  /\ UNCHANGED frozen
  /\ \A q \in Requests : SameRow(q)

MoneyStep ==
  \/ Quiet
  \/ \E r \in Requests : SubmitReserve(r) /\ \E a \in Nat : Reserves(r, a)
  \/ \E r \in Requests : Releases(r)
  \/ \E r \in Requests : \E c \in Nat : Captures(r, c)
  \/ \E u \in Users : \E d \in Int : Adjusts(u, d)

(* The phase of each status.                                               *)
LEMMA Phases ==
  ASSUME NEW s \in JobStatus
  PROVE  /\ Phase(s) = "held" <=> s \in Active
         /\ Phase(s) = "captured" <=> s \in Charged
         /\ Phase(s) = "released" <=> s \in Uncharged
         /\ Phase(s) = "none" <=> s = "none"
  BY DEF Phase, JobStatus, Final, Active, Charged, Uncharged

LEMMA PhaseTable ==
  /\ Phase("none") = "none"
  /\ \A s \in {"created", "queued", "running", "indexing", "settling"} :
       Phase(s) = "held"
  /\ Phase("completed") = "captured" /\ Phase("output_deleted") = "captured"
  /\ Phase("failed") = "released" /\ Phase("cancelled") = "released"
  BY DEF Phase, Active, Charged, Uncharged

(* finish_without_charge releases the hold of an unfinished job or changes *)
(* nothing.                                                                *)
LEMMA FinishMoney ==
  ASSUME TypeInv, NEW r \in Requests, job[r].status # "none",
         NEW s \in {"failed", "cancelled"}, FinishWithoutCharge(r, s)
  PROVE  Quiet \/ Releases(r)
<1>1. CASE job[r].status \in Final \/ ~Releasable(r)
  BY <1>1 DEF FinishWithoutCharge, Quiet, Money, users, SameRow
<1>2. CASE ~(job[r].status \in Final \/ ~Releasable(r))
  <2>1. /\ job' = [job EXCEPT ![r].status = s, ![r].generated = job[r].itemsOk]
        /\ ReturnBalance(Owner[r], job[r].hold, 0)
        /\ FrozenCovers(Owner[r], job[r].hold)
    BY <1>2 DEF FinishWithoutCharge, ReleaseBalance, Releasable
  <2>2. job[r].status \in Active
    BY <1>2 DEF TypeInv, TypeOK, Job, JobStatus
  <2>3. Phase(job[r].status) = "held" /\ Phase(s) = "released"
    BY <2>2, Phases, PhaseTable DEF JobStatus
  <2>4. /\ job'[r].status = s /\ job'[r].hold = job[r].hold
        /\ job'[r].cost = job[r].cost
        /\ \A q \in Requests \ {r} : job'[q] = job[q]
    BY <2>1 DEF TypeInv, TypeOK, Job
  <2> QED
    BY <2>1, <2>3, <2>4 DEF Releases, OnlyRow, SameRow
<1> QED
  BY <1>1, <1>2

(* A change of one row that keeps its phase, hold and cost.                *)
LEMMA QuietRow ==
  ASSUME UNCHANGED Money, NEW r \in Requests, SameRow(r),
         \A q \in Requests \ {r} : job'[q] = job[q]
  PROVE  Quiet
  BY DEF Quiet, SameRow

LEMMA QuietJob ==
  ASSUME UNCHANGED <<users, job>>
  PROVE  Quiet
  BY DEF Quiet, Money, users, SameRow

LEMMA SubmitMoney ==
  ASSUME StepInv, NEW r \in Requests, SubmitStep(r)
  PROVE  MoneyStep
<1> USE DEF StepInv, TypeInv, TypeOK
<1>1. CASE SubmitFind(r) \/ SubmitSelect(r) \/ SubmitCall(r)
  BY <1>1, QuietJob DEF SubmitFind, SubmitSelect, SubmitCall, MoneyStep
<1>2. CASE SubmitReserve(r)
  <2> DEFINE p == submit[r].provider
             c == submit[r].price
             a == HoldOf(r, p, c)
             u == Owner[r]
             j == [NoJob EXCEPT !.status = "created", !.provider = p, !.hold = a,
                                !.unit = BillableUnit(p, c)]
  <2>1. p \in Providers /\ c \in Nat /\ u \in Users
    BY <1>2, PopulationAssumption DEF SubmitReserve, ProviderSelected, Submitter
  <2>2. a \in Nat
    BY <2>1, HoldType
  <2>3. CASE ~Reservable(r)
    BY <1>2, <2>3, QuietJob DEF SubmitReserve, MoneyStep
  <2>4. CASE Reservable(r)
    <3>1. ReserveBalance(u, a) /\ CanReserve(u, a) /\ job' = [job EXCEPT ![r] = j]
      BY <1>2, <2>4 DEF SubmitReserve, Reservable
    <3>2. a <= balance[u]
      <4> HIDE DEF a, u
      <4> QED BY <2>1, <2>2, <3>1 DEF CanReserve
    <3>3. job[r].status = "none" /\ job[r].cost = 0
      BY <1>2 DEF SubmitReserve, RowsExist, Fresh, Job
    <3>4. j.status = "created" /\ j.hold = a /\ j.cost = 0
      BY DEF NoJob
    <3> HIDE DEF a, u, j, p, c
    <3>5. /\ job'[r].status = "created" /\ job'[r].hold = a /\ job'[r].cost = 0
          /\ \A q \in Requests \ {r} : job'[q] = job[q]
      BY <3>1, <3>4
    <3>6. Reserves(r, a)
      BY <3>1, <3>2, <3>3, <3>5, PhaseTable DEF Reserves, OnlyRow, SameRow, u
    <3> QED
      BY <1>2, <2>2, <3>6 DEF MoneyStep
  <2> QED
    BY <2>3, <2>4
<1>3. CASE SubmitRecord(r)
  <2>1. SameRow(r) /\ \A q \in Requests \ {r} : job'[q] = job[q]
    BY <1>3, PhaseTable DEF SubmitRecord, SameRow, Job
  <2> QED
    BY <1>3, <2>1, QuietRow DEF SubmitRecord, Money, users, MoneyStep
<1>4. CASE SubmitFail(r)
  <2>1. job[r].status # "none"
    BY <1>4 DEF SubmitFail, RowsExist, InHand
  <2>2. FinishWithoutCharge(r, "failed")
    BY <1>4 DEF SubmitFail
  <2> QED
    BY <2>1, <2>2, FinishMoney DEF MoneyStep
<1> QED
  BY <1>1, <1>2, <1>3, <1>4 DEF SubmitStep

LEMMA SchedMoney ==
  ASSUME StepInv, NEW r \in Requests, SchedStep(r)
  PROVE  MoneyStep
<1> USE DEF StepInv, TypeInv, TypeOK
<1>1. CASE SchedTake(r) \/ SchedPoll(r) \/ SchedReread(r)
  BY <1>1, QuietJob DEF SchedTake, SchedPoll, SchedReread, MoneyStep
<1>2. sched.at = {r} => job[r].status # "none"
  BY DEF RowsExist, InHand
<1>3. CASE SchedExpire(r) \/ SchedExhausted(r)
  <2>1. FinishWithoutCharge(r, "failed") /\ sched.at = {r}
    BY <1>3 DEF SchedExpire, SchedExhausted
  <2> QED
    BY <1>2, <2>1, FinishMoney DEF MoneyStep
<1>4. CASE SchedApply(r)
  <2>1. CASE sched.seen \in {"pending", "running", "succeeded"}
    <3>1. SameRow(r) /\ \A q \in Requests \ {r} : job'[q] = job[q]
      BY <1>4, <2>1, PhaseTable DEF SchedApply, SameRow, Job
    <3>2. UNCHANGED Money
      BY <1>4, <2>1 DEF SchedApply, Money, users
    <3> QED
      BY <3>1, <3>2, QuietRow DEF MoneyStep
  <2>2. CASE sched.seen \in {"failed", "cancelled"}
    <3>1. FinishWithoutCharge(r, sched.seen) /\ sched.at = {r}
      BY <1>4, <2>2 DEF SchedApply
    <3> QED
      BY <1>2, <2>2, <3>1, FinishMoney DEF MoneyStep
  <2> QED
    BY <1>4, <2>1, <2>2 DEF SchedApply
<1>5. CASE SchedIndex(r) \/ SchedRemove(r) \/ SchedError(r)
  <2>1. CASE SchedIndex(r)
    <3>1. SameRow(r) /\ \A q \in Requests \ {r} : job'[q] = job[q]
      BY <2>1 DEF SchedIndex, SameRow, Job
    <3> QED
      BY <2>1, <3>1, QuietRow DEF SchedIndex, Money, users, MoneyStep
  <2>2. CASE SchedRemove(r)
    <3>1. SameRow(r) /\ \A q \in Requests \ {r} : job'[q] = job[q]
      BY <2>2 DEF SchedRemove, RemoveFiles, SameRow, Job
    <3> QED
      BY <2>2, <3>1, QuietRow DEF SchedRemove, Money, users, MoneyStep
  <2>3. CASE SchedError(r)
    <3>1. \/ UNCHANGED job
          \/ job' = [job EXCEPT ![r].retry = job[r].retry + 1]
      BY <2>3 DEF SchedError
    <3>2. SameRow(r) /\ \A q \in Requests \ {r} : job'[q] = job[q]
      BY <3>1 DEF SameRow, Job
    <3> QED
      BY <2>3, <3>2, QuietRow DEF SchedError, Money, users, MoneyStep
  <2> QED
    BY <1>5, <2>1, <2>2, <2>3
<1>6. CASE SchedCommit(r)
  <2>1. SameRow(r) /\ \A q \in Requests \ {r} : job'[q] = job[q]
    BY <1>6, PhaseTable DEF SchedCommit, SameRow, Job
  <2> QED
    BY <1>6, <2>1, QuietRow DEF SchedCommit, Money, users, MoneyStep
<1>7. CASE SchedSettle(r)
  <2>1. CASE job[r].status # "settling" \/ SettleRefused(r)
    BY <1>7, <2>1, QuietJob DEF SchedSettle, MoneyStep
  <2>2. CASE job[r].status = "settling" /\ ~SettleRefused(r)
    <3> DEFINE c == Actual(r)
    <3>1. c \in Nat
      BY DEF Actual, Job
    <3>2. /\ job' = [job EXCEPT ![r].status = "completed", ![r].cost = c]
          /\ ReturnBalance(Owner[r], job[r].hold, c)
      BY <1>7, <2>2 DEF SchedSettle, CaptureBalance
    <3>3. c <= job[r].hold /\ FrozenCovers(Owner[r], job[r].hold)
      BY <2>2, <3>1 DEF SettleRefused, Job
    <3> HIDE DEF c
    <3>4. /\ job'[r].status = "completed" /\ job'[r].hold = job[r].hold
          /\ job'[r].cost = c
          /\ \A q \in Requests \ {r} : job'[q] = job[q]
      BY <3>2 DEF Job
    <3>5. Captures(r, c)
      BY <2>2, <3>2, <3>3, <3>4, PhaseTable DEF Captures, OnlyRow, SameRow
    <3> QED
      BY <3>1, <3>5 DEF MoneyStep
  <2> QED
    BY <2>1, <2>2
<1>8. CASE SchedMark(r)
  <2>1. SameRow(r) /\ \A q \in Requests \ {r} : job'[q] = job[q]
    BY <1>8, PhaseTable DEF SchedMark, MarkDeleted, SameRow, Job
  <2> QED
    BY <1>8, <2>1, QuietRow DEF SchedMark, Money, users, MoneyStep
<1> QED
  BY <1>1, <1>3, <1>4, <1>5, <1>6, <1>7, <1>8 DEF SchedStep

LEMMA OtherMoney ==
  ASSUME StepInv, NEW r \in Requests, OwnerStep(r) \/ WorldStep(r)
  PROVE  MoneyStep
<1> USE DEF StepInv, TypeInv, TypeOK
<1>1. CASE \/ CancelStart(r) \/ CancelCall(r) \/ PurgeStart(r)
           \/ RemoteStep(r) \/ ClientGone(r)
  BY <1>1, QuietJob
     DEF CancelStart, CancelCall, PurgeStart, RemoteStep, ClientGone, MoneyStep
<1>2. CASE CancelFinish(r)
  <2>1. FinishWithoutCharge(r, "cancelled") /\ job[r].status # "none"
    BY <1>2 DEF CancelFinish, RowsExist, InHand
  <2> QED
    BY <2>1, FinishMoney DEF MoneyStep
<1>3. CASE PurgeRemove(r) \/ DeleteRecord(r) \/ CreatedLongAgo(r) \/ OutputExpires(r)
  <2>1. SameRow(r) /\ \A q \in Requests \ {r} : job'[q] = job[q]
    BY <1>3 DEF PurgeRemove, RemoveFiles, DeleteRecord, CreatedLongAgo, OutputExpires,
                SameRow, Job
  <2> QED
    BY <1>3, <2>1, QuietRow
       DEF PurgeRemove, DeleteRecord, CreatedLongAgo, OutputExpires, Money, users,
           MoneyStep
<1>4. CASE PurgeMark(r)
  <2>1. SameRow(r) /\ \A q \in Requests \ {r} : job'[q] = job[q]
    BY <1>4, PhaseTable DEF PurgeMark, MarkDeleted, SameRow, Job
  <2> QED
    BY <1>4, <2>1, QuietRow DEF PurgeMark, Money, users, MoneyStep
<1> QED
  BY <1>1, <1>2, <1>3, <1>4 DEF OwnerStep, WorldStep

LEMMA AdminMoney ==
  ASSUME StepInv, AdminStep
  PROVE  MoneyStep
<1>1. ASSUME NEW u \in Users, NEW d \in Deltas, AdjustBalance(u, d)
      PROVE  MoneyStep
  <2>1. d \in Int
    BY LimitAssumption
  <2>2. balance[u] + d >= 0
    BY <1>1 DEF AdjustBalance
  <2>3. Adjusts(u, d)
    BY <1>1, <2>2 DEF AdjustBalance, Adjusts, SameRow
  <2> QED
    BY <2>1, <2>3 DEF MoneyStep
<1>2. ASSUME NEW u \in Suspects, DisableUser(u)
      PROVE  MoneyStep
  BY <1>2 DEF DisableUser, MoneyStep, Quiet, Money, SameRow
<1>3. ASSUME NEW p \in Edited, UpdateProvider(p)
      PROVE  MoneyStep
  BY <1>3, QuietJob DEF UpdateProvider, MoneyStep
<1> QED
  BY <1>1, <1>2, <1>3 DEF AdminStep

(* Every step of the system is one of the four kinds or quiet.             *)
LEMMA EveryStep ==
  ASSUME StepInv, [Next]_vars
  PROVE  MoneyStep
<1>1. CASE SchedScan \/ SchedCleanup \/ Crash
  BY <1>1, QuietJob DEF SchedScan, SchedCleanup, Crash, MoneyStep
<1>2. CASE UNCHANGED vars
  BY <1>2, QuietJob DEF vars, MoneyStep
<1> QED
  BY <1>1, <1>2, SubmitMoney, SchedMoney, OtherMoney, AdminMoney DEF Next

-----------------------------------------------------------------------------
(* Rows exist before they are worked on *)

LEMMA StepInvInit == Init => StepInv
<1> SUFFICES ASSUME Init PROVE StepInv
  OBVIOUS
<1>1. TypeInv
  BY TypeInit
<1>2. RowsExist
  BY DEF Init, RowsExist, Fresh, InHand, SubmitIdle, SchedIdle, NoJob
<1> QED
  BY <1>1, <1>2 DEF StepInv

(* Only a reservation creates a row.                                       *)
LEMMA NewRows ==
  ASSUME StepInv, TypeInv', [Next]_vars
  PROVE  \/ \A q \in Requests : /\ job'[q].status = "none" <=> job[q].status = "none"
                                /\ job'[q].status = "none" => job'[q].cost = job[q].cost
         \/ \E r \in Requests : /\ SubmitReserve(r)
                                /\ job'[r].status # "none"
                                /\ \A q \in Requests \ {r} : job'[q] = job[q]
<1>1. \A q \in Requests : /\ job[q].status \in JobStatus
                          /\ job'[q].status \in JobStatus
  BY DEF StepInv, TypeInv, TypeOK, Job
<1>2. ASSUME NEW q \in Requests, SameRow(q)
      PROVE  /\ job'[q].status = "none" <=> job[q].status = "none"
             /\ job'[q].cost = job[q].cost
  BY <1>1, <1>2, Phases DEF SameRow
<1>3. CASE Quiet \/ \E u \in Users : \E d \in Int : Adjusts(u, d)
  BY <1>2, <1>3 DEF Quiet, Adjusts
<1>4. ASSUME NEW r \in Requests,
             Releases(r) \/ \E c \in Nat : Captures(r, c)
      PROVE  \A q \in Requests :
               /\ job'[q].status = "none" <=> job[q].status = "none"
               /\ job'[q].status = "none" => job'[q].cost = job[q].cost
  <2>1. job[r].status # "none" /\ job'[r].status # "none"
    BY <1>1, <1>4, PhaseTable DEF Releases, Captures
  <2> QED
    BY <1>2, <1>4, <2>1 DEF Releases, Captures, OnlyRow
<1>5. ASSUME NEW r \in Requests, SubmitReserve(r), NEW a \in Nat, Reserves(r, a)
      PROVE  /\ job'[r].status # "none"
             /\ \A q \in Requests \ {r} : job'[q] = job[q]
  <2>1. job'[r].status # "none"
    BY <1>1, <1>5, PhaseTable DEF Reserves
  <2> QED
    BY <1>5, <2>1 DEF SubmitReserve, StepInv, TypeInv, TypeOK
<1> QED
  BY <1>3, <1>4, <1>5, EveryStep DEF MoneyStep

(* Nobody takes a job in hand without having seen its row.                 *)
LEMMA HandsOnRows ==
  ASSUME StepInv, [Next]_vars, NEW r \in Requests
  PROVE  /\ submit'[r].pc \in {"idle", "select", "reserve"} =>
              submit[r].pc \in {"idle", "select", "reserve"}
         /\ InHand(r)' => InHand(r) \/ job[r].status # "none" \/ SubmitReserve(r)
<1> USE DEF StepInv, TypeInv, TypeOK, InHand
<1>1. ASSUME NEW q \in Requests, SubmitStep(q)
      PROVE  /\ submit'[r].pc \in {"idle", "select", "reserve"} =>
                  submit[r].pc \in {"idle", "select", "reserve"}
             /\ InHand(r)' => InHand(r) \/ job[r].status # "none" \/ SubmitReserve(r)
  <2>1. CASE SubmitFind(q)
    BY <2>1 DEF SubmitFind, SubmitDone, Submitter
  <2>2. CASE SubmitSelect(q)
    BY <2>2 DEF SubmitSelect, SubmitDone, Submitter
  <2>3. CASE SubmitReserve(q)
    BY <2>3 DEF SubmitReserve, SubmitDone, Submitter
  <2>4. CASE SubmitCall(q)
    BY <2>4 DEF SubmitCall, Submitter
  <2>5. CASE SubmitRecord(q)
    BY <2>5 DEF SubmitRecord, SubmitDone, Submitter
  <2>6. CASE SubmitFail(q)
    BY <2>6 DEF SubmitFail, SubmitDone, Submitter
  <2> QED
    BY <1>1, <2>1, <2>2, <2>3, <2>4, <2>5, <2>6 DEF SubmitStep
<1>2. ASSUME NEW q \in Requests, SchedStep(q)
      PROVE  /\ UNCHANGED handlers
             /\ sched'.due \cup sched'.at \subseteq sched.due \cup sched.at
  <2>1. UNCHANGED handlers
    BY <1>2 DEF SchedStep, SchedTake, SchedExpire, SchedPoll, SchedApply, SchedReread,
                SchedIndex, SchedCommit, SchedSettle, SchedError, SchedExhausted,
                SchedRemove, SchedMark
  <2>2. CASE SchedTake(q)
    BY <2>1, <2>2 DEF SchedTake, SchedulerState
  <2>3. CASE ~SchedTake(q)
    <3>1. \/ \E pc \in SchedPc : sched' = [sched EXCEPT !.pc = pc]
          \/ \E seen \in Remote : sched' = [sched EXCEPT !.pc = "apply", !.seen = seen]
          \/ SchedNext
          \/ sched' = SchedIdle
      BY <1>2, <2>3
         DEF SchedStep, SchedExpire, SchedPoll, SchedApply, SchedReread, SchedIndex,
             SchedCommit, SchedSettle, SchedError, SchedExhausted, SchedRemove,
             SchedMark, Goto, SchedPc
    <3>2. CASE \E pc \in SchedPc : sched' = [sched EXCEPT !.pc = pc]
      BY <2>1, <3>2 DEF SchedulerState
    <3>3. CASE \E seen \in Remote : sched' = [sched EXCEPT !.pc = "apply", !.seen = seen]
      BY <2>1, <3>3 DEF SchedulerState
    <3>4. CASE SchedNext
      BY <2>1, <3>4 DEF SchedNext, SchedulerState
    <3>5. CASE sched' = SchedIdle
      BY <2>1, <3>5 DEF SchedIdle
    <3> QED
      BY <3>1, <3>2, <3>3, <3>4, <3>5
  <2> QED
    BY <2>2, <2>3
<1>3. ASSUME NEW q \in Requests, OwnerStep(q)
      PROVE  /\ UNCHANGED <<submit, sched>>
             /\ cancel'[r] # "idle" => cancel[r] # "idle" \/ job[r].status # "none"
             /\ purge'[r] # "idle" => purge[r] # "idle" \/ job[r].status # "none"
  BY <1>3 DEF OwnerStep, CancelStart, CancelCall, CancelFinish, PurgeStart, PurgeRemove,
              PurgeMark, DeleteRecord, Visible, handlers
<1>4. ASSUME NEW q \in Requests, WorldStep(q)
      PROVE  /\ UNCHANGED sched
             /\ submit'[r] = submit[r] \/ submit'[r] = SubmitDone
             /\ cancel'[r] # "idle" => cancel[r] # "idle"
             /\ purge'[r] # "idle" => purge[r] # "idle"
  BY <1>4 DEF WorldStep, RemoteStep, CreatedLongAgo, OutputExpires, ClientGone, handlers
<1>5. ASSUME AdminStep \/ UNCHANGED vars
      PROVE  UNCHANGED <<handlers, sched>>
  BY <1>5 DEF AdminStep, AdjustBalance, DisableUser, UpdateProvider, vars, handlers
<1>6. ASSUME SchedScan \/ SchedCleanup
      PROVE  /\ UNCHANGED handlers
             /\ r \in sched'.due \cup sched'.at => job[r].status # "none"
  <2>1. "none" \notin Active
    BY DEF Active
  <2>2. CASE SchedScan
    BY <2>1, <2>2 DEF SchedScan, Pending, SchedIdle
  <2>3. CASE SchedCleanup
    <3>1. CASE Expired = {} /\ sched' = SchedIdle
      BY <2>3, <3>1 DEF SchedCleanup, SchedIdle
    <3>2. ASSUME NEW q \in Expired, sched' = [SchedIdle EXCEPT !.pc = "remove", !.at = {q}]
          PROVE  sched'.due = {} /\ sched'.at = {q} /\ job[q].status = "completed"
      BY <3>2 DEF Expired, SchedIdle
    <3> QED
      BY <2>3, <3>1, <3>2 DEF SchedCleanup
  <2> QED
    BY <1>6, <2>2, <2>3
<1>7. ASSUME Crash
      PROVE  /\ submit'[r] = submit[r] \/ submit'[r] = SubmitDone
             /\ cancel'[r] = "idle" /\ purge'[r] = "idle"
             /\ sched'.due = {} /\ sched'.at = {}
  BY <1>7 DEF Crash, SchedIdle
<1>8. SubmitDone.pc = "done"
  BY DEF SubmitDone
<1> QED
  BY <1>1, <1>2, <1>3, <1>4, <1>5, <1>6, <1>7, <1>8 DEF Next, handlers

LEMMA StepInvStep == StepInv /\ [Next]_vars => StepInv'
<1> SUFFICES ASSUME StepInv, [Next]_vars PROVE StepInv'
  OBVIOUS
<1>1. TypeInv'
  BY TypeStep DEF StepInv
<1>2. ASSUME NEW r \in Requests
      PROVE  Fresh(r)' /\ (InHand(r)' => job'[r].status # "none")
  <2>1. CASE \A q \in Requests :
               /\ job'[q].status = "none" <=> job[q].status = "none"
               /\ job'[q].status = "none" => job'[q].cost = job[q].cost
    <3>1. Fresh(r) /\ (InHand(r) => job[r].status # "none")
      BY DEF StepInv, RowsExist
    <3>2. SubmitReserve(r) /\ job'[r].status = "none" => ~InHand(r)'
      <4> SUFFICES ASSUME SubmitReserve(r), job'[r].status = "none"
                   PROVE  ~InHand(r)'
        OBVIOUS
      <4>1. ~InHand(r)
        BY <2>1, <3>1
      <4>2. Reservable(r) => job'[r].status = "created"
        <5> DEFINE p == submit[r].provider
                   row == [NoJob EXCEPT !.status = "created", !.provider = p,
                                        !.hold = HoldOf(r, p, submit[r].price),
                                        !.unit = BillableUnit(p, submit[r].price)]
        <5>1. Reservable(r) => job' = [job EXCEPT ![r] = row]
          BY DEF SubmitReserve
        <5>2. row.status = "created"
          BY DEF NoJob
        <5> HIDE DEF row
        <5> QED
          BY <5>1, <5>2 DEF StepInv, TypeInv, TypeOK
      <4>3. submit' = [submit EXCEPT ![r] = SubmitDone]
        BY <4>2 DEF SubmitReserve
      <4>4. submit'[r].pc = "done"
        BY <4>3 DEF SubmitDone, StepInv, TypeInv, TypeOK
      <4>5. UNCHANGED <<cancel, purge, sched>>
        BY DEF SubmitReserve
      <4> QED
        BY <4>1, <4>4, <4>5 DEF InHand
    <3> QED
      BY <2>1, <3>1, <3>2, HandsOnRows DEF Fresh
  <2>2. CASE \E p \in Requests : /\ SubmitReserve(p)
                                 /\ job'[p].status # "none"
                                 /\ \A q \in Requests \ {p} : job'[q] = job[q]
    <3>1. PICK p \in Requests : /\ SubmitReserve(p)
                               /\ job'[p].status # "none"
                               /\ \A q \in Requests \ {p} : job'[q] = job[q]
      BY <2>2
    <3>2. CASE p # r
      <4>1. submit'[r] = submit[r]
        BY <3>1, <3>2 DEF SubmitReserve, StepInv, TypeInv, TypeOK
      <4>2. UNCHANGED <<cancel, purge, sched>> /\ job'[r] = job[r]
        BY <3>1, <3>2 DEF SubmitReserve
      <4> QED
        BY <4>1, <4>2 DEF StepInv, RowsExist, Fresh, InHand
    <3>3. CASE p = r
      <4>1. submit'[r].pc \in {"call", "done"}
        BY <3>1, <3>3 DEF SubmitReserve, SubmitDone, StepInv, TypeInv, TypeOK, Submitter
      <4> QED
        BY <3>1, <3>3, <4>1 DEF Fresh
    <3> QED
      BY <3>2, <3>3
  <2> QED
    BY <1>1, <2>1, <2>2, NewRows
<1> QED
  BY <1>1, <1>2 DEF StepInv, RowsExist

-----------------------------------------------------------------------------
(* Sums of holds and of costs *)

(* The rows a user's frozen balance and costs are summed over, by phase.   *)
LEMMA RowSets ==
  ASSUME TypeInv, NEW u \in Users
  PROVE  /\ HeldBy(u) = {r \in Requests : Owner[r] = u /\ Phase(job[r].status) = "held"}
         /\ ChargedTo(u) =
              {r \in Requests : Owner[r] = u /\ Phase(job[r].status) = "captured"}
         /\ IsFiniteSet(HeldBy(u)) /\ IsFiniteSet(ChargedTo(u))
         /\ \A r \in Requests : /\ HoldColumn[r] = job[r].hold /\ job[r].hold \in Nat
                               /\ CostColumn[r] = job[r].cost /\ job[r].cost \in Nat
<1>1. \A r \in Requests : /\ job[r].status \in JobStatus
                          /\ job[r].hold \in Nat /\ job[r].cost \in Nat
  BY DEF TypeInv, TypeOK, Job
<1>2. HeldBy(u) \subseteq Requests /\ ChargedTo(u) \subseteq Requests
  BY DEF HeldBy, ChargedTo
<1>3. IsFiniteSet(HeldBy(u)) /\ IsFiniteSet(ChargedTo(u))
  BY <1>2, FS_Subset, PopulationAssumption
<1> QED
  BY <1>1, <1>3, Phases DEF HeldBy, ChargedTo, HoldColumn, CostColumn

LEMMA RowSetsNext ==
  ASSUME TypeInv', NEW u \in Users
  PROVE  /\ HeldBy(u)' = {r \in Requests : Owner[r] = u /\ Phase(job'[r].status) = "held"}
         /\ ChargedTo(u)' =
              {r \in Requests : Owner[r] = u /\ Phase(job'[r].status) = "captured"}
         /\ \A r \in Requests : /\ HoldColumn'[r] = job'[r].hold /\ job'[r].hold \in Nat
                               /\ CostColumn'[r] = job'[r].cost /\ job'[r].cost \in Nat
<1>1. \A r \in Requests : /\ job'[r].status \in JobStatus
                          /\ job'[r].hold \in Nat /\ job'[r].cost \in Nat
  BY DEF TypeInv, TypeOK, Job
<1> QED
  BY <1>1, Phases DEF HeldBy, ChargedTo, HoldColumn, CostColumn

(* A user none of whose rows changes phase, hold or cost keeps both sums.  *)
LEMMA SumsSame ==
  ASSUME TypeInv, TypeInv', NEW u \in Users,
         \A r \in Requests : Owner[r] = u => SameRow(r)
  PROVE  /\ Total(HeldBy(u), HoldColumn)' = Total(HeldBy(u), HoldColumn)
         /\ Total(ChargedTo(u), CostColumn)' = Total(ChargedTo(u), CostColumn)
<1>1. HeldBy(u)' = HeldBy(u) /\ ChargedTo(u)' = ChargedTo(u)
  <2>1. /\ HeldBy(u) = {q \in Requests : Owner[q] = u /\ Phase(job[q].status) = "held"}
        /\ ChargedTo(u)
             = {q \in Requests : Owner[q] = u /\ Phase(job[q].status) = "captured"}
    BY RowSets
  <2>2. /\ HeldBy(u)'
             = {q \in Requests : Owner[q] = u /\ Phase(job'[q].status) = "held"}
        /\ ChargedTo(u)'
             = {q \in Requests : Owner[q] = u /\ Phase(job'[q].status) = "captured"}
    BY RowSetsNext
  <2> QED
    BY <2>1, <2>2 DEF SameRow
<1>2. /\ \A r \in HeldBy(u) : HoldColumn'[r] = HoldColumn[r]
      /\ \A r \in ChargedTo(u) : CostColumn'[r] = CostColumn[r]
  BY RowSets, RowSetsNext DEF SameRow
<1>3. /\ Total(HeldBy(u), HoldColumn') = Total(HeldBy(u), HoldColumn)
      /\ Total(ChargedTo(u), CostColumn') = Total(ChargedTo(u), CostColumn)
  BY <1>2, TotalSame
<1> QED
  BY <1>1, <1>3

(* A reservation adds its hold to the owner's sum.                         *)
LEMMA SumsReserve ==
  ASSUME TypeInv, TypeInv', NEW r \in Requests, NEW a \in Nat, Reserves(r, a)
  PROVE  /\ Total(HeldBy(Owner[r]), HoldColumn)' = Total(HeldBy(Owner[r]), HoldColumn) + a
         /\ Total(ChargedTo(Owner[r]), CostColumn)'
              = Total(ChargedTo(Owner[r]), CostColumn)
<1> DEFINE u == Owner[r]
           H == HeldBy(u)
           C == ChargedTo(u)
           f == HoldColumn
           g == HoldColumn'
<1>1. u \in Users
  BY PopulationAssumption
<1>2. HeldBy(u)' = H \cup {r} /\ r \notin H /\ ChargedTo(u)' = C
  <2>1. /\ HeldBy(u) = {q \in Requests : Owner[q] = u /\ Phase(job[q].status) = "held"}
        /\ ChargedTo(u)
             = {q \in Requests : Owner[q] = u /\ Phase(job[q].status) = "captured"}
    BY <1>1, RowSets
  <2>2. /\ HeldBy(u)'
             = {q \in Requests : Owner[q] = u /\ Phase(job'[q].status) = "held"}
        /\ ChargedTo(u)'
             = {q \in Requests : Owner[q] = u /\ Phase(job'[q].status) = "captured"}
    BY <1>1, RowSetsNext
  <2> QED
    BY <2>1, <2>2 DEF Reserves, OnlyRow, SameRow
<1>3. /\ \A q \in H : f[q] = g[q] /\ g[q] \in Nat
      /\ g[r] = a
      /\ \A q \in C : CostColumn'[q] = CostColumn[q]
  BY <1>1, <1>2, RowSets, RowSetsNext DEF Reserves, OnlyRow, SameRow
<1>4. IsFiniteSet(H)
  BY <1>1, RowSets
<1> HIDE DEF u, H, C, f, g
<1>5. Total(H, f) = Total(H, g)
  BY <1>3, TotalSame
<1>6. Total(H \cup {r}, g) = Total(H, g) + a
  BY <1>2, <1>3, <1>4, TotalAdd
<1>7. Total(C, CostColumn') = Total(C, CostColumn)
  BY <1>3, TotalSame
<1> QED
  BY <1>2, <1>5, <1>6, <1>7 DEF u, H, C, f, g

(* A release takes the hold out of the owner's sum.                        *)
LEMMA SumsRelease ==
  ASSUME TypeInv, TypeInv', NEW r \in Requests, Releases(r)
  PROVE  /\ Total(HeldBy(Owner[r]), HoldColumn)'
              = Total(HeldBy(Owner[r]), HoldColumn) - job[r].hold
         /\ Total(ChargedTo(Owner[r]), CostColumn)'
              = Total(ChargedTo(Owner[r]), CostColumn)
<1> DEFINE u == Owner[r]
           H == HeldBy(u)
           C == ChargedTo(u)
           f == HoldColumn
           g == HoldColumn'
<1>1. u \in Users
  BY PopulationAssumption
<1>2. HeldBy(u)' = H \ {r} /\ r \in H /\ ChargedTo(u)' = C
  <2>1. /\ HeldBy(u) = {q \in Requests : Owner[q] = u /\ Phase(job[q].status) = "held"}
        /\ ChargedTo(u)
             = {q \in Requests : Owner[q] = u /\ Phase(job[q].status) = "captured"}
    BY <1>1, RowSets
  <2>2. /\ HeldBy(u)'
             = {q \in Requests : Owner[q] = u /\ Phase(job'[q].status) = "held"}
        /\ ChargedTo(u)'
             = {q \in Requests : Owner[q] = u /\ Phase(job'[q].status) = "captured"}
    BY <1>1, RowSetsNext
  <2> QED
    BY <2>1, <2>2 DEF Releases, OnlyRow, SameRow
<1>3. /\ \A q \in H : f[q] \in Nat
      /\ \A q \in H \ {r} : f[q] = g[q]
      /\ f[r] = job[r].hold
      /\ \A q \in C : CostColumn'[q] = CostColumn[q]
  BY <1>1, <1>2, RowSets, RowSetsNext DEF Releases, OnlyRow, SameRow
<1>4. IsFiniteSet(H)
  BY <1>1, RowSets
<1> HIDE DEF u, H, C, f, g
<1>5. Total(H \ {r}, f) = Total(H \ {r}, g)
  BY <1>3, TotalSame
<1>6. Total(H \ {r}, f) = Total(H, f) - f[r]
  BY <1>2, <1>3, <1>4, TotalRemove
<1>7. Total(C, CostColumn') = Total(C, CostColumn)
  BY <1>3, TotalSame
<1> QED
  BY <1>2, <1>3, <1>5, <1>6, <1>7 DEF u, H, C, f, g

(* A capture takes the hold out and adds the cost.                         *)
LEMMA SumsCapture ==
  ASSUME TypeInv, TypeInv', NEW r \in Requests, NEW c \in Nat, Captures(r, c)
  PROVE  /\ Total(HeldBy(Owner[r]), HoldColumn)'
              = Total(HeldBy(Owner[r]), HoldColumn) - job[r].hold
         /\ Total(ChargedTo(Owner[r]), CostColumn)'
              = Total(ChargedTo(Owner[r]), CostColumn) + c
<1> DEFINE u == Owner[r]
           H == HeldBy(u)
           C == ChargedTo(u)
           f == HoldColumn
           g == HoldColumn'
           k == CostColumn
           l == CostColumn'
<1>1. u \in Users
  BY PopulationAssumption
<1>2. HeldBy(u)' = H \ {r} /\ r \in H /\ ChargedTo(u)' = C \cup {r} /\ r \notin C
  <2>1. /\ HeldBy(u) = {q \in Requests : Owner[q] = u /\ Phase(job[q].status) = "held"}
        /\ ChargedTo(u)
             = {q \in Requests : Owner[q] = u /\ Phase(job[q].status) = "captured"}
    BY <1>1, RowSets
  <2>2. /\ HeldBy(u)'
             = {q \in Requests : Owner[q] = u /\ Phase(job'[q].status) = "held"}
        /\ ChargedTo(u)'
             = {q \in Requests : Owner[q] = u /\ Phase(job'[q].status) = "captured"}
    BY <1>1, RowSetsNext
  <2> QED
    BY <2>1, <2>2 DEF Captures, OnlyRow, SameRow
<1>3. /\ \A q \in H : f[q] \in Nat
      /\ \A q \in H \ {r} : f[q] = g[q]
      /\ f[r] = job[r].hold
      /\ \A q \in C : k[q] = l[q] /\ l[q] \in Nat
      /\ l[r] = c
  BY <1>1, <1>2, RowSets, RowSetsNext DEF Captures, OnlyRow, SameRow
<1>4. IsFiniteSet(H) /\ IsFiniteSet(C)
  BY <1>1, RowSets
<1> HIDE DEF u, H, C, f, g, k, l
<1>5. Total(H \ {r}, f) = Total(H \ {r}, g)
  BY <1>3, TotalSame
<1>9. r \in H /\ IsFiniteSet(H) /\ \A q \in H : f[q] \in Nat
  BY <1>2, <1>3, <1>4
<1>6. Total(H \ {r}, f) = Total(H, f) - f[r]
  BY ONLY <1>9, TotalRemove
<1>7. Total(C, k) = Total(C, l)
  BY <1>3, TotalSame
<1>8. Total(C \cup {r}, l) = Total(C, l) + c
  BY <1>2, <1>3, <1>4, TotalAdd
<1> QED
  BY <1>2, <1>3, <1>5, <1>6, <1>7, <1>8 DEF u, H, C, f, g, k, l

-----------------------------------------------------------------------------
(* The books *)

(* What a step does to the columns of each user.                           *)
LEMMA StepSums ==
  ASSUME TypeInv, TypeInv', MoneyStep, NEW u \in Users
  PROVE  \E dh \in Int, dc \in Int, dg \in Int :
           /\ Total(HeldBy(u), HoldColumn)' = Total(HeldBy(u), HoldColumn) + dh
           /\ Total(ChargedTo(u), CostColumn)' = Total(ChargedTo(u), CostColumn) + dc
           /\ frozen'[u] = frozen[u] + dh
           /\ granted'[u] = granted[u] + dg
           /\ balance'[u] = balance[u] + (dg - dh - dc)
           /\ ledger'[u] = ledger[u] + (dg - dh - dc)
<1> DEFINE P(dh, dc, dg) ==
           /\ Total(HeldBy(u), HoldColumn)' = Total(HeldBy(u), HoldColumn) + dh
           /\ Total(ChargedTo(u), CostColumn)' = Total(ChargedTo(u), CostColumn) + dc
           /\ frozen'[u] = frozen[u] + dh
           /\ granted'[u] = granted[u] + dg
           /\ balance'[u] = balance[u] + (dg - dh - dc)
           /\ ledger'[u] = ledger[u] + (dg - dh - dc)
<1>1. /\ Total(HeldBy(u), HoldColumn) \in Nat
      /\ Total(ChargedTo(u), CostColumn) \in Nat
  <2>1. /\ \A r \in HeldBy(u) : HoldColumn[r] \in Nat
        /\ \A r \in ChargedTo(u) : CostColumn[r] \in Nat
    BY RowSets DEF HeldBy, ChargedTo
  <2> QED
    BY <2>1, RowSets, TotalType
<1>2. /\ balance \in [Users -> Nat] /\ frozen \in [Users -> Nat]
      /\ ledger \in [Users -> Int] /\ granted \in [Users -> Int]
  BY DEF TypeInv, TypeOK
<1>3. ASSUME \A r \in Requests : Owner[r] = u => SameRow(r),
             NEW d \in Int,
             balance'[u] = balance[u] + d, ledger'[u] = ledger[u] + d,
             granted'[u] = granted[u] + d, frozen'[u] = frozen[u]
      PROVE  P(0, 0, d)
  BY <1>1, <1>2, <1>3, SumsSame
<1>4. ASSUME Quiet
      PROVE  P(0, 0, 0)
  BY <1>2, <1>3, <1>4 DEF Quiet, Money
<1>5. ASSUME NEW v \in Users, NEW d \in Int, Adjusts(v, d)
      PROVE  P(0, 0, d) \/ P(0, 0, 0)
  <2>1. CASE u = v
    BY <1>2, <1>3, <1>5, <2>1 DEF Adjusts
  <2>2. CASE u # v
    BY <1>2, <1>3, <1>5, <2>2 DEF Adjusts
  <2> QED
    BY <2>1, <2>2
<1>6. ASSUME NEW r \in Requests, NEW a \in Nat, Reserves(r, a)
      PROVE  P(a, 0, 0) \/ P(0, 0, 0)
  <2>1. CASE u = Owner[r]
    <3>1. /\ balance'[u] = balance[u] - a /\ frozen'[u] = frozen[u] + a
          /\ ledger'[u] = ledger[u] - a /\ granted'[u] = granted[u]
      BY <1>2, <1>6, <2>1 DEF Reserves, ReserveBalance
    <3> QED
      BY <1>1, <1>2, <1>6, <2>1, <3>1, SumsReserve
  <2>2. CASE u # Owner[r]
    <3>1. /\ balance'[u] = balance[u] /\ frozen'[u] = frozen[u]
          /\ ledger'[u] = ledger[u] /\ granted'[u] = granted[u]
      BY <1>2, <1>6, <2>2 DEF Reserves, ReserveBalance
    <3>2. \A q \in Requests : Owner[q] = u => SameRow(q)
      BY <1>6, <2>2 DEF Reserves, OnlyRow
    <3> QED
      BY <1>2, <1>3, <2>2, <3>1, <3>2
  <2> QED
    BY <2>1, <2>2
<1>7. ASSUME NEW r \in Requests, Releases(r)
      PROVE  \E dh \in Int : P(dh, 0, 0)
  <2>0. job[r].hold \in Nat
    BY DEF TypeInv, TypeOK, Job
  <2>1. CASE u = Owner[r]
    <3>1. /\ balance'[u] = balance[u] + job[r].hold
          /\ frozen'[u] = frozen[u] - job[r].hold
          /\ ledger'[u] = ledger[u] + job[r].hold /\ granted'[u] = granted[u]
      BY <1>2, <1>7, <2>0, <2>1 DEF Releases, ReturnBalance
    <3>2. P(0 - job[r].hold, 0, 0)
      BY <1>1, <1>2, <1>7, <2>0, <2>1, <3>1, SumsRelease
    <3> QED
      BY <2>0, <3>2
  <2>2. CASE u # Owner[r]
    <3>1. /\ balance'[u] = balance[u] /\ frozen'[u] = frozen[u]
          /\ ledger'[u] = ledger[u] /\ granted'[u] = granted[u]
      BY <1>2, <1>7, <2>2 DEF Releases, ReturnBalance
    <3>2. \A q \in Requests : Owner[q] = u => SameRow(q)
      BY <1>7, <2>2 DEF Releases, OnlyRow
    <3> QED
      BY <1>2, <1>3, <2>2, <3>1, <3>2
  <2> QED
    BY <2>1, <2>2
<1>8. ASSUME NEW r \in Requests, NEW c \in Nat, Captures(r, c)
      PROVE  \E dh \in Int, dc \in Int : P(dh, dc, 0)
  <2>0. job[r].hold \in Nat
    BY DEF TypeInv, TypeOK, Job
  <2>1. CASE u = Owner[r]
    <3>1. /\ balance'[u] = balance[u] + (job[r].hold - c)
          /\ frozen'[u] = frozen[u] - job[r].hold
          /\ ledger'[u] = ledger[u] + (job[r].hold - c) /\ granted'[u] = granted[u]
      BY <1>2, <1>8, <2>0, <2>1 DEF Captures, ReturnBalance
    <3>2. P(0 - job[r].hold, c, 0)
      BY <1>1, <1>2, <1>8, <2>0, <2>1, <3>1, SumsCapture
    <3> QED
      BY <2>0, <3>2
  <2>2. CASE u # Owner[r]
    <3>1. /\ balance'[u] = balance[u] /\ frozen'[u] = frozen[u]
          /\ ledger'[u] = ledger[u] /\ granted'[u] = granted[u]
      BY <1>2, <1>8, <2>2 DEF Captures, ReturnBalance
    <3>2. \A q \in Requests : Owner[q] = u => SameRow(q)
      BY <1>8, <2>2 DEF Captures, OnlyRow
    <3> QED
      BY <1>2, <1>3, <2>2, <3>1, <3>2
  <2> QED
    BY <2>1, <2>2
<1> HIDE DEF P
<1>9. \E dh \in Int, dc \in Int, dg \in Int : P(dh, dc, dg)
  <2>1. \A n \in Nat : n \in Int
    OBVIOUS
  <2>2. CASE Quiet
    BY <1>4, <2>2
  <2>3. CASE \E v \in Users : \E d \in Int : Adjusts(v, d)
    BY <1>5, <2>3
  <2>4. CASE \E r \in Requests : \E a \in Nat : Reserves(r, a)
    BY <1>6, <2>1, <2>4
  <2>5. CASE \E r \in Requests : Releases(r)
    BY <1>7, <2>5
  <2>6. CASE \E r \in Requests : \E c \in Nat : Captures(r, c)
    BY <1>8, <2>6
  <2> QED
    BY <2>2, <2>3, <2>4, <2>5, <2>6 DEF MoneyStep
<1> QED
  BY <1>9 DEF P

Books == FrozenMatchesHolds /\ MoneyConserved /\ LedgerExplainsBalance

BooksInv == StepInv /\ Books

LEMMA BooksInit == Init => BooksInv
<1> SUFFICES ASSUME Init PROVE BooksInv
  OBVIOUS
<1>1. StepInv
  BY StepInvInit
<1>2. ASSUME NEW u \in Users
      PROVE  /\ Total(HeldBy(u), HoldColumn) = 0
             /\ Total(ChargedTo(u), CostColumn) = 0
  <2>1. HeldBy(u) = {} /\ ChargedTo(u) = {}
    BY DEF Init, HeldBy, ChargedTo, NoJob, Active, Charged
  <2> QED
    BY <2>1, TotalEmpty
<1>3. Books
  BY <1>2, PopulationAssumption
     DEF Init, Books, FrozenMatchesHolds, MoneyConserved, LedgerExplainsBalance
<1> QED
  BY <1>1, <1>3 DEF BooksInv

LEMMA BooksStep == BooksInv /\ [Next]_vars => BooksInv'
<1> SUFFICES ASSUME BooksInv, [Next]_vars PROVE BooksInv'
  OBVIOUS
<1>1. StepInv /\ StepInv'
  BY StepInvStep DEF BooksInv
<1>2. TypeInv /\ TypeInv' /\ MoneyStep
  BY <1>1, EveryStep DEF StepInv
<1>3. ASSUME NEW u \in Users
      PROVE  /\ frozen'[u] = Total(HeldBy(u), HoldColumn)'
             /\ granted'[u]
                  = balance'[u] + frozen'[u] + Total(ChargedTo(u), CostColumn)'
             /\ balance'[u] = Opening[u] + ledger'[u]
  <2> DEFINE h == Total(HeldBy(u), HoldColumn)
             k == Total(ChargedTo(u), CostColumn)
             o == Opening[u]
  <2>1. /\ frozen[u] = h /\ granted[u] = balance[u] + frozen[u] + k
        /\ balance[u] = o + ledger[u]
    BY DEF BooksInv, Books, FrozenMatchesHolds, MoneyConserved, LedgerExplainsBalance
  <2>2. \E dh \in Int, dc \in Int, dg \in Int :
          /\ h' = h + dh /\ k' = k + dc
          /\ frozen'[u] = frozen[u] + dh /\ granted'[u] = granted[u] + dg
          /\ balance'[u] = balance[u] + (dg - dh - dc)
          /\ ledger'[u] = ledger[u] + (dg - dh - dc)
    BY <1>2, StepSums
  <2>3. /\ balance[u] \in Int /\ frozen[u] \in Int /\ ledger[u] \in Int
        /\ granted[u] \in Int
    BY <1>2 DEF TypeInv, TypeOK
  <2>4. h \in Int /\ o \in Int
    BY <2>1, <2>3, PopulationAssumption
  <2>5. k \in Int
    <3>1. \A r \in ChargedTo(u) : CostColumn[r] \in Nat
      BY <1>2, RowSets DEF ChargedTo
    <3> QED
      BY <1>2, <3>1, RowSets, TotalType
  <2> HIDE DEF h, k, o
  <2>6. /\ frozen'[u] = h' /\ granted'[u] = balance'[u] + frozen'[u] + k'
        /\ balance'[u] = o + ledger'[u]
    BY <2>1, <2>2, <2>3, <2>4, <2>5
  <2> QED
    BY <2>6 DEF h, k, o
<1>4. Books'
  BY <1>3 DEF Books, FrozenMatchesHolds, MoneyConserved, LedgerExplainsBalance
<1> QED
  BY <1>1, <1>4 DEF BooksInv

LEMMA BooksAlways == Spec => []BooksInv
  BY BooksInit, BooksStep, PTL DEF Spec

(* The frozen column is at every instant the sum of the holds of the       *)
(* user's unfinished jobs.                                                 *)
THEOREM FrozenCorrect == Spec => []FrozenMatchesHolds
<1>1. BooksInv => FrozenMatchesHolds
  BY DEF BooksInv, Books
<1> QED
  BY <1>1, BooksAlways, PTL

(* No cent is lost or created by any interleaving, lost client or restart. *)
THEOREM MoneyCorrect == Spec => []MoneyConserved
<1>1. BooksInv => MoneyConserved
  BY DEF BooksInv, Books
<1> QED
  BY <1>1, BooksAlways, PTL

(* The audit trail adds up to the balance.                                 *)
THEOREM LedgerCorrect == Spec => []LedgerExplainsBalance
<1>1. BooksInv => LedgerExplainsBalance
  BY DEF BooksInv, Books
<1> QED
  BY <1>1, BooksAlways, PTL

-----------------------------------------------------------------------------
(* The jobs implement the hold ledger *)

PhaseColumn == [r \in Requests |-> Phase(job[r].status)]

LEMMA RefinesInit == Init => Hold!LedgerInit
<1> SUFFICES ASSUME Init PROVE Hold!LedgerInit
  OBVIOUS
<1>1. balance \in [Users -> Nat]
  BY PopulationAssumption DEF Init
<1>2. \A r \in Requests : /\ Phase(job[r].status) = "none"
                          /\ job[r].hold = 0 /\ job[r].cost = 0
  BY PhaseTable DEF Init, NoJob
<1> QED
  BY <1>1, <1>2 DEF Hold!LedgerInit, HoldColumn, CostColumn

(* Rows other than r keep their entries in the three columns.              *)
LEMMA ColumnsOnlyRow ==
  ASSUME NEW r \in Requests, OnlyRow(r)
  PROVE  /\ PhaseColumn' = [PhaseColumn EXCEPT ![r] = Phase(job'[r].status)]
         /\ HoldColumn' = [HoldColumn EXCEPT ![r] = job'[r].hold]
         /\ CostColumn' = [CostColumn EXCEPT ![r] = job'[r].cost]
  BY DEF OnlyRow, SameRow, PhaseColumn, HoldColumn, CostColumn

LEMMA ColumnsSame ==
  ASSUME \A q \in Requests : SameRow(q)
  PROVE  UNCHANGED <<PhaseColumn, HoldColumn, CostColumn>>
  BY DEF SameRow, PhaseColumn, HoldColumn, CostColumn

LEMMA RefinesStep ==
  ASSUME StepInv, StepInv', MoneyStep
  PROVE  [Hold!LedgerNext]_(Hold!ledgerVars)
<1>0. /\ balance \in [Users -> Nat] /\ balance' \in [Users -> Nat]
      /\ \A r \in Requests : /\ Owner[r] \in Users
                            /\ job[r].hold \in Nat /\ job[r].cost \in Nat
  BY PopulationAssumption DEF StepInv, TypeInv, TypeOK, Job
<1>1. CASE Quiet
  <2>1. UNCHANGED <<balance, PhaseColumn, HoldColumn, CostColumn>>
    BY <1>1, ColumnsSame DEF Quiet, Money
  <2> QED
    BY <2>1 DEF Hold!ledgerVars, PhaseColumn
<1>2. ASSUME NEW u \in Users, NEW d \in Int, Adjusts(u, d)
      PROVE  Hold!LedgerNext
  <2>1. UNCHANGED <<PhaseColumn, HoldColumn, CostColumn>>
    BY <1>2, ColumnsSame DEF Adjusts
  <2>2. \A v \in Users \ {u} : balance'[v] = balance[v]
    BY <1>0, <1>2 DEF Adjusts
  <2>3. Hold!Adjust(u)
    BY <1>0, <2>1, <2>2 DEF Hold!Adjust, PhaseColumn
  <2> QED
    BY <2>3 DEF Hold!LedgerNext
<1>3. ASSUME NEW r \in Requests, NEW a \in Nat, Reserves(r, a)
      PROVE  Hold!LedgerNext
  <2>1. /\ PhaseColumn' = [PhaseColumn EXCEPT ![r] = "held"]
        /\ HoldColumn' = [HoldColumn EXCEPT ![r] = a]
    BY <1>3, ColumnsOnlyRow DEF Reserves
  <2>2. CostColumn' = CostColumn
    BY <1>3, ColumnsOnlyRow DEF Reserves, CostColumn
  <2>3. PhaseColumn[r] = "none"
    BY <1>3 DEF Reserves, PhaseColumn
  <2>4. a \in 0 .. balance[Owner[r]]
    BY <1>0, <1>3 DEF Reserves
  <2>5. balance' = [balance EXCEPT ![Owner[r]] = @ - a]
    BY <1>3 DEF Reserves, ReserveBalance
  <2>6. Hold!Reserve(r, a)
    BY <2>1, <2>2, <2>3, <2>5 DEF Hold!Reserve, PhaseColumn
  <2> QED
    BY <2>4, <2>6 DEF Hold!LedgerNext
<1>4. ASSUME NEW r \in Requests, Releases(r)
      PROVE  Hold!LedgerNext
  <2>1. PhaseColumn' = [PhaseColumn EXCEPT ![r] = "released"]
    BY <1>4, ColumnsOnlyRow DEF Releases
  <2>2. HoldColumn' = HoldColumn /\ CostColumn' = CostColumn
    BY <1>4, ColumnsOnlyRow DEF Releases, HoldColumn, CostColumn
  <2>3. PhaseColumn[r] = "held" /\ HoldColumn[r] = job[r].hold
    BY <1>4 DEF Releases, PhaseColumn, HoldColumn
  <2>4. balance' = [balance EXCEPT ![Owner[r]] = @ + HoldColumn[r]]
    <3>1. job[r].hold - 0 = job[r].hold
      BY <1>0
    <3> QED
      BY <1>4, <2>3, <3>1 DEF Releases, ReturnBalance
  <2>5. Hold!Release(r)
    BY <2>1, <2>2, <2>3, <2>4 DEF Hold!Release, PhaseColumn
  <2> QED
    BY <2>5 DEF Hold!LedgerNext
<1>5. ASSUME NEW r \in Requests, NEW c \in Nat, Captures(r, c)
      PROVE  Hold!LedgerNext
  <2>1. /\ PhaseColumn' = [PhaseColumn EXCEPT ![r] = "captured"]
        /\ CostColumn' = [CostColumn EXCEPT ![r] = c]
    BY <1>5, ColumnsOnlyRow DEF Captures
  <2>2. HoldColumn' = HoldColumn
    BY <1>5, ColumnsOnlyRow DEF Captures, HoldColumn
  <2>3. PhaseColumn[r] = "held" /\ HoldColumn[r] = job[r].hold
    BY <1>5 DEF Captures, PhaseColumn, HoldColumn
  <2>4. balance' = [balance EXCEPT ![Owner[r]] = @ + (HoldColumn[r] - c)]
    BY <1>5, <2>3 DEF Captures, ReturnBalance
  <2>5. c \in 0 .. HoldColumn[r]
    BY <1>0, <1>5, <2>3 DEF Captures
  <2>6. Hold!Capture(r, c)
    BY <2>1, <2>2, <2>3, <2>4 DEF Hold!Capture, PhaseColumn
  <2> QED
    BY <2>5, <2>6 DEF Hold!LedgerNext
<1> QED
  BY <1>1, <1>2, <1>3, <1>4, <1>5 DEF MoneyStep

(* Whatever the handlers, the scheduler, the provider and restarts do, a   *)
(* hold is taken once out of money the owner has and resolved at most      *)
(* once: the jobs implement the hold ledger.                               *)
THEOREM RefinesHoldLedger == Spec => ImplementsHoldLedger
<1>1. Spec => []StepInv
  BY StepInvInit, StepInvStep, PTL DEF Spec
<1>2. StepInv /\ StepInv' /\ [Next]_vars => [Hold!LedgerNext]_(Hold!ledgerVars)
  BY EveryStep, RefinesStep
<1> QED
  BY RefinesInit, <1>1, <1>2, PTL DEF Spec, ImplementsHoldLedger, Hold!LedgerSpec

-----------------------------------------------------------------------------
(* What a step may do to a row *)

KeepsStatus(r) == job'[r].status = job[r].status
KeepsPrice(r) ==
  job'[r].hold = job[r].hold /\ job'[r].unit = job[r].unit
KeepsCounts(r) ==
  job'[r].generated = job[r].generated /\ job'[r].itemsOk = job[r].itemsOk
KeepsCost(r) == job'[r].cost = job[r].cost

Keeps(r) == KeepsStatus(r) /\ KeepsPrice(r) /\ KeepsCounts(r) /\ KeepsCost(r)

Born(r) ==
  /\ job[r].status = "none" /\ job'[r].status = "created"
  /\ SameKey(r) = {}
  /\ Items[r] * job'[r].unit <= job'[r].hold
  /\ job'[r].generated = 0 /\ job'[r].itemsOk = 0 /\ job'[r].cost = 0
  /\ \A q \in Requests \ {r} : job'[q] = job[q]

Moves(r) ==
  /\ \/ job[r].status = "created" /\ job'[r].status = "queued"
     \/ /\ job[r].status \in {"queued", "running"}
        /\ job'[r].status \in {"queued", "running", "indexing"}
  /\ KeepsPrice(r) /\ KeepsCounts(r) /\ KeepsCost(r)

Ends(r) ==
  /\ job[r].status \in Active /\ job'[r].status \in Uncharged
  /\ job'[r].itemsOk = job[r].itemsOk /\ job'[r].generated = job[r].itemsOk
  /\ KeepsPrice(r) /\ KeepsCost(r)

Counts(r) ==
  /\ sched'.pc = "settle"
  /\ job[r].status = "indexing" /\ job'[r].status = "settling"
  /\ job'[r].itemsOk \in 0 .. Items[r] /\ job'[r].generated = job'[r].itemsOk
  /\ KeepsPrice(r) /\ KeepsCost(r)

(* The items of a job that is no longer indexing.                          *)
Recounts(r) ==
  /\ sched.pc = "commit" /\ sched.at = {r} /\ job[r].status # "indexing"
  /\ job'[r].itemsOk \in 0 .. Items[r] /\ job'[r].generated = job[r].generated
  /\ KeepsStatus(r) /\ KeepsPrice(r) /\ KeepsCost(r)

Settles(r) ==
  /\ job[r].status = "settling" /\ job'[r].status = "completed"
  /\ job'[r].cost = job[r].generated * job[r].unit
  /\ KeepsPrice(r) /\ KeepsCounts(r)

Deletes(r) ==
  /\ job[r].status = "completed" /\ job'[r].status = "output_deleted"
  /\ KeepsPrice(r) /\ KeepsCounts(r) /\ KeepsCost(r)

RowStep(r) ==
  \/ Keeps(r) \/ Born(r) \/ Moves(r) \/ Ends(r)
  \/ Counts(r) \/ Recounts(r) \/ Settles(r) \/ Deletes(r)

LEMMA FinishRow ==
  ASSUME TypeInv, NEW r \in Requests, job[r].status # "none",
         NEW s \in {"failed", "cancelled"}, FinishWithoutCharge(r, s)
  PROVE  RowStep(r)
<1> USE DEF Keeps, KeepsStatus, KeepsPrice, KeepsCounts, KeepsCost
<1>1. CASE job[r].status \in Final \/ ~Releasable(r)
  BY <1>1 DEF FinishWithoutCharge, RowStep
<1>2. CASE ~(job[r].status \in Final \/ ~Releasable(r))
  <2>1. job' = [job EXCEPT ![r].status = s, ![r].generated = job[r].itemsOk]
    BY <1>2 DEF FinishWithoutCharge
  <2>2. job[r].status \in Active
    BY <1>2 DEF TypeInv, TypeOK, Job, JobStatus
  <2>3. /\ job'[r].status = s /\ job'[r].generated = job[r].itemsOk
        /\ job'[r].itemsOk = job[r].itemsOk
        /\ KeepsPrice(r) /\ KeepsCost(r)
    BY <2>1 DEF TypeInv, TypeOK, Job
  <2> QED
    BY <2>2, <2>3 DEF RowStep, Ends, Uncharged
<1> QED
  BY <1>1, <1>2

LEMMA SubmitRow ==
  ASSUME StepInv, NEW r \in Requests, SubmitStep(r)
  PROVE  RowStep(r)
<1> USE DEF StepInv, TypeInv, TypeOK, KeepsStatus, KeepsPrice, KeepsCounts, KeepsCost
<1>1. CASE SubmitFind(r) \/ SubmitSelect(r) \/ SubmitCall(r)
  BY <1>1 DEF SubmitFind, SubmitSelect, SubmitCall, RowStep, Keeps
<1>2. CASE SubmitReserve(r)
  <2> DEFINE p == submit[r].provider
             c == submit[r].price
             a == HoldOf(r, p, c)
             b == BillableUnit(p, c)
             j == [NoJob EXCEPT !.status = "created", !.provider = p, !.hold = a,
                                !.unit = b]
  <2>1. CASE ~Reservable(r)
    BY <1>2, <2>1 DEF SubmitReserve, RowStep, Keeps
  <2>2. CASE Reservable(r)
    <3>1. job' = [job EXCEPT ![r] = j] /\ SameKey(r) = {}
      BY <1>2, <2>2 DEF SubmitReserve, Reservable
    <3>2. p \in Providers /\ c \in Nat
      BY <1>2 DEF SubmitReserve, ProviderSelected, Submitter
    <3>3. Items[r] * b <= a
      BY <3>2, HoldType
    <3>4. job[r].status = "none"
      BY <1>2 DEF SubmitReserve, RowsExist, Fresh
    <3>5. /\ j.status = "created" /\ j.hold = a /\ j.unit = b
          /\ j.generated = 0 /\ j.itemsOk = 0 /\ j.cost = 0
      BY DEF NoJob
    <3> HIDE DEF j, a, b, c, p
    <3>6. job'[r] = j /\ \A q \in Requests \ {r} : job'[q] = job[q]
      BY <3>1
    <3> QED
      BY <3>1, <3>3, <3>4, <3>5, <3>6 DEF RowStep, Born
  <2> QED
    BY <2>1, <2>2
<1>3. CASE SubmitRecord(r)
  <2>1. CASE job[r].status = "created"
    BY <1>3, <2>1 DEF SubmitRecord, RowStep, Moves, Job
  <2>2. CASE job[r].status # "created"
    BY <1>3, <2>2 DEF SubmitRecord, RowStep, Keeps
  <2> QED
    BY <2>1, <2>2
<1>4. CASE SubmitFail(r)
  <2>1. job[r].status # "none" /\ FinishWithoutCharge(r, "failed")
    BY <1>4 DEF SubmitFail, RowsExist, InHand
  <2> QED
    BY <2>1, FinishRow
<1> QED
  BY <1>1, <1>2, <1>3, <1>4 DEF SubmitStep

LEMMA SchedRow ==
  ASSUME StepInv, NEW r \in Requests, SchedStep(r)
  PROVE  RowStep(r)
<1> USE DEF StepInv, TypeInv, TypeOK, KeepsStatus, KeepsPrice, KeepsCounts, KeepsCost
<1>1. CASE SchedTake(r) \/ SchedPoll(r) \/ SchedReread(r)
  BY <1>1 DEF SchedTake, SchedPoll, SchedReread, RowStep, Keeps
<1>2. sched.at = {r} => job[r].status # "none"
  BY DEF RowsExist, InHand
<1>3. CASE SchedExpire(r) \/ SchedExhausted(r)
  <2>1. FinishWithoutCharge(r, "failed") /\ sched.at = {r}
    BY <1>3 DEF SchedExpire, SchedExhausted
  <2> QED
    BY <1>2, <2>1, FinishRow
<1>4. CASE SchedApply(r)
  <2>1. CASE sched.seen \in {"pending", "running", "succeeded"}
    <3>1. \/ UNCHANGED job
          \/ /\ job[r].status \in {"queued", "running"}
             /\ \E s \in {"queued", "running", "indexing"} :
                  job' = [job EXCEPT ![r].status = s]
      BY <1>4, <2>1 DEF SchedApply
    <3> QED
      BY <3>1 DEF RowStep, Keeps, Moves, Job
  <2>2. CASE sched.seen \in {"failed", "cancelled"}
    <3>1. FinishWithoutCharge(r, sched.seen) /\ sched.at = {r}
      BY <1>4, <2>2 DEF SchedApply
    <3> QED
      BY <1>2, <2>2, <3>1, FinishRow
  <2> QED
    BY <1>4, <2>1, <2>2 DEF SchedApply
<1>5. CASE SchedIndex(r) \/ SchedRemove(r)
  BY <1>5 DEF SchedIndex, SchedRemove, RemoveFiles, RowStep, Keeps, Job
<1>6. CASE SchedError(r)
  <2>1. \/ UNCHANGED job
        \/ job' = [job EXCEPT ![r].retry = job[r].retry + 1]
    BY <1>6 DEF SchedError
  <2> QED
    BY <2>1 DEF RowStep, Keeps, Job
<1>7. CASE SchedCommit(r)
  <2>1. PICK n \in 0 .. Items[r] :
          job' = IF job[r].status = "indexing"
                 THEN [job EXCEPT ![r].itemsOk = n, ![r].generated = n,
                                  ![r].status = "settling"]
                 ELSE [job EXCEPT ![r].itemsOk = n]
    BY <1>7 DEF SchedCommit, ImagesFound
  <2>2. CASE job[r].status = "indexing"
    <3>1. job' = [job EXCEPT ![r].itemsOk = n, ![r].generated = n,
                             ![r].status = "settling"]
      BY <2>1, <2>2
    <3>2. sched'.pc = "settle"
      BY <1>7 DEF SchedCommit, Goto, SchedulerState
    <3>3. Counts(r)
      BY <2>2, <3>1, <3>2 DEF Counts, Job
    <3> QED
      BY <3>3 DEF RowStep
  <2>3. CASE job[r].status # "indexing"
    <3>1. job' = [job EXCEPT ![r].itemsOk = n]
      BY <2>1, <2>3
    <3>2. Recounts(r)
      BY <1>7, <2>3, <3>1 DEF SchedCommit, Recounts, Job
    <3> QED
      BY <3>2 DEF RowStep
  <2> QED
    BY <2>2, <2>3
<1>8. CASE SchedSettle(r)
  <2>1. CASE job[r].status # "settling" \/ SettleRefused(r)
    BY <1>8, <2>1 DEF SchedSettle, RowStep, Keeps
  <2>2. CASE job[r].status = "settling" /\ ~SettleRefused(r)
    <3>1. job' = [job EXCEPT ![r].status = "completed", ![r].cost = Actual(r)]
      BY <1>8, <2>2 DEF SchedSettle
    <3>2. Settles(r)
      BY <2>2, <3>1 DEF Settles, Actual, Job
    <3> QED
      BY <3>2 DEF RowStep
  <2> QED
    BY <2>1, <2>2
<1>9. CASE SchedMark(r)
  BY <1>9 DEF SchedMark, MarkDeleted, RowStep, Keeps, Deletes, Job
<1> QED
  BY <1>1, <1>3, <1>4, <1>5, <1>6, <1>7, <1>8, <1>9 DEF SchedStep

LEMMA OtherRow ==
  ASSUME StepInv, NEW r \in Requests, OwnerStep(r) \/ WorldStep(r)
  PROVE  RowStep(r)
<1> USE DEF StepInv, TypeInv, TypeOK, KeepsStatus, KeepsPrice, KeepsCounts, KeepsCost
<1>1. CASE \/ CancelStart(r) \/ CancelCall(r) \/ PurgeStart(r)
           \/ RemoteStep(r) \/ ClientGone(r)
  BY <1>1 DEF CancelStart, CancelCall, PurgeStart, RemoteStep, ClientGone, RowStep, Keeps
<1>2. CASE CancelFinish(r)
  <2>1. FinishWithoutCharge(r, "cancelled") /\ job[r].status # "none"
    BY <1>2 DEF CancelFinish, RowsExist, InHand
  <2> QED
    BY <2>1, FinishRow
<1>3. CASE PurgeRemove(r) \/ DeleteRecord(r) \/ CreatedLongAgo(r) \/ OutputExpires(r)
  BY <1>3 DEF PurgeRemove, RemoveFiles, DeleteRecord, CreatedLongAgo, OutputExpires,
              RowStep, Keeps, Job
<1>4. CASE PurgeMark(r)
  BY <1>4 DEF PurgeMark, MarkDeleted, RowStep, Keeps, Deletes, Job
<1> QED
  BY <1>1, <1>2, <1>3, <1>4 DEF OwnerStep, WorldStep

(* The steps of one request leave the rows of the others alone.            *)
LEMMA OtherRows ==
  ASSUME StepInv, NEW r \in Requests, NEW q \in Requests \ {r},
         SubmitStep(r) \/ SchedStep(r) \/ OwnerStep(r) \/ WorldStep(r)
  PROVE  job'[q] = job[q]
<1>0. job \in [Requests -> Job]
  BY DEF StepInv, TypeInv, TypeOK
<1>1. CASE SubmitStep(r)
  BY <1>0, <1>1 DEF SubmitStep, SubmitFind, SubmitSelect, SubmitReserve, SubmitCall,
              SubmitRecord, SubmitFail, FinishWithoutCharge
<1>2. CASE SchedStep(r)
  BY <1>0, <1>2 DEF SchedStep, SchedTake, SchedExpire, SchedPoll, SchedApply, SchedReread,
              SchedIndex, SchedCommit, SchedSettle, SchedError, SchedExhausted,
              SchedRemove, SchedMark, FinishWithoutCharge, RemoveFiles, MarkDeleted
<1>3. CASE OwnerStep(r)
  BY <1>0, <1>3 DEF OwnerStep, CancelStart, CancelCall, CancelFinish, PurgeStart, PurgeRemove,
              PurgeMark, DeleteRecord, FinishWithoutCharge, RemoveFiles, MarkDeleted
<1>4. CASE WorldStep(r)
  BY <1>0, <1>4 DEF WorldStep, RemoteStep, CreatedLongAgo, OutputExpires, ClientGone
<1> QED
  BY <1>1, <1>2, <1>3, <1>4

LEMMA EveryRow ==
  ASSUME StepInv, [Next]_vars, NEW q \in Requests
  PROVE  RowStep(q)
<1>1. job'[q] = job[q] => RowStep(q)
  BY DEF RowStep, Keeps, KeepsStatus, KeepsPrice, KeepsCounts, KeepsCost
<1>2. CASE SchedScan \/ SchedCleanup \/ Crash \/ AdminStep \/ UNCHANGED vars
  <2>1. UNCHANGED job
    BY <1>2 DEF SchedScan, SchedCleanup, Crash, AdminStep, AdjustBalance, DisableUser,
                UpdateProvider, vars
  <2> QED
    BY <1>1, <2>1
<1>3. ASSUME NEW r \in Requests,
             SubmitStep(r) \/ SchedStep(r) \/ OwnerStep(r) \/ WorldStep(r)
      PROVE  RowStep(q)
  <2>1. CASE q = r
    BY <1>3, <2>1, SubmitRow, SchedRow, OtherRow
  <2>2. CASE q # r
    BY <1>1, <1>3, <2>2, OtherRows
  <2> QED
    BY <2>1, <2>2
<1> QED
  BY <1>2, <1>3 DEF Next

-----------------------------------------------------------------------------
(* What a final job keeps, and the order of the statuses *)

LEMMA StepInvAlways == Spec => []StepInv
  BY StepInvInit, StepInvStep, PTL DEF Spec

(* A final job never runs again.                                           *)
THEOREM FinalCorrect == Spec => FinalIsFinal
<1>1. StepInv /\ [Next]_vars =>
        [\A r \in Requests :
           job[r].status \in Final =>
             /\ job'[r].cost = job[r].cost
             /\ job'[r].generated = job[r].generated
             /\ \/ job'[r].status = job[r].status
                \/ job[r].status = "completed" /\ job'[r].status = "output_deleted"]_vars
  BY EveryRow DEF RowStep, Keeps, Born, Moves, Ends, Counts, Recounts, Settles, Deletes,
                  KeepsStatus, KeepsCounts, KeepsCost, Final, Charged, Uncharged, Active
<1> QED
  BY <1>1, StepInvAlways, PTL DEF Spec, FinalIsFinal

(* No step sends a job back past indexing, and only settling charges it.   *)
THEOREM FlowCorrect == Spec => StatusFlow
<1>1. ASSUME NEW r \in Requests, RowStep(r)
      PROVE  Forward(job[r].status, job'[r].status)
  BY <1>1 DEF RowStep, Keeps, Born, Moves, Ends, Counts, Recounts, Settles, Deletes,
              KeepsStatus, Forward, Active, Uncharged
<1>2. StepInv /\ [Next]_vars =>
        [\A r \in Requests : Forward(job[r].status, job'[r].status)]_vars
  BY <1>1, EveryRow
<1> QED
  BY <1>2, StepInvAlways, PTL DEF Spec, StatusFlow

-----------------------------------------------------------------------------
(* One job per key *)

LEMMA OneJobStep ==
  ASSUME StepInv, StepInv', [Next]_vars, OneJobPerKey
  PROVE  OneJobPerKey'
<1>1. CASE \A q \in Requests : job'[q].status = "none" <=> job[q].status = "none"
  BY <1>1 DEF OneJobPerKey
<1>2. CASE \E r \in Requests : Born(r)
  <2>1. PICK r \in Requests : Born(r)
    BY <1>2
  <2>2. \A q \in Requests :
          job'[q].status # "none" /\ q # r /\ IdemKey[q] # NoKey => IdemKey[q] # IdemKey[r]
    BY <2>1 DEF Born, SameKey
  <2>3. \A q \in Requests \ {r} : job'[q] = job[q]
    BY <2>1 DEF Born
  <2> QED
    BY <2>2, <2>3 DEF OneJobPerKey
<1>3. ASSUME NEW r \in Requests, ~Born(r)
      PROVE  job'[r].status = "none" <=> job[r].status = "none"
  BY <1>3, EveryRow DEF RowStep, Keeps, Moves, Ends, Counts, Recounts, Settles, Deletes,
                        KeepsStatus, Active, Uncharged
<1> QED
  BY <1>1, <1>2, <1>3

(* The look-up and the insertion are separate steps of concurrent          *)
(* handlers, yet a key and Idempotency-Key submit one job.                 *)
THEOREM OneJobCorrect == Spec => []OneJobPerKey
<1>1. Init => OneJobPerKey
  BY DEF Init, OneJobPerKey, NoJob
<1> QED
  BY <1>1, OneJobStep, StepInvAlways, PTL DEF Spec

-----------------------------------------------------------------------------
(* What a job is charged *)

(* The hold pays for every image asked for, and no more images are found.  *)
Priced(r) ==
  /\ Items[r] * job[r].unit <= job[r].hold
  /\ job[r].generated <= Items[r] /\ job[r].itemsOk <= Items[r]

(* From settling on the counts are those of the item rows.                 *)
Counted(r) ==
  /\ job[r].status = "settling" => job[r].generated = job[r].itemsOk
  /\ job[r].status \in Charged => /\ job[r].generated = job[r].itemsOk
                                 /\ job[r].cost = job[r].itemsOk * job[r].unit

(* The job whose results the scheduler is indexing is not charged yet.     *)
Working(r) ==
  sched.pc \in {"index", "commit"} /\ sched.at = {r} =>
    job[r].status \in {"indexing"} \cup Uncharged

RowInv == \A r \in Requests : Priced(r) /\ Counted(r) /\ Working(r)

LEMMA RowInvInit == Init => RowInv
<1> SUFFICES ASSUME Init PROVE RowInv
  OBVIOUS
<1>1. ASSUME NEW r \in Requests
      PROVE  Priced(r)
  <2>1. Items[r] \in Nat
    BY PopulationAssumption
  <2>2. job[r].unit = 0 /\ job[r].hold = 0 /\ job[r].generated = 0 /\ job[r].itemsOk = 0
    BY DEF Init, NoJob
  <2> QED
    BY <2>1, <2>2 DEF Priced
<1>2. ASSUME NEW r \in Requests
      PROVE  Counted(r) /\ Working(r)
  BY DEF Init, Counted, Working, NoJob, SchedIdle, Charged
<1> QED
  BY <1>1, <1>2 DEF RowInv

LEMMA PricedStep ==
  ASSUME StepInv, StepInv', NEW r \in Requests, Priced(r), RowStep(r)
  PROVE  Priced(r)'
<1>1. Items[r] \in Nat
  BY PopulationAssumption
<1>2. job[r].generated \in Nat /\ job[r].itemsOk \in Nat
  BY DEF StepInv, TypeInv, TypeOK, Job
<1>3. CASE Born(r)
  BY <1>1, <1>3 DEF Born, Priced
<1>4. CASE ~Born(r)
  <2>1. job'[r].hold = job[r].hold /\ job'[r].unit = job[r].unit
    BY <1>4 DEF RowStep, Keeps, Moves, Ends, Counts, Recounts, Settles, Deletes, KeepsPrice
  <2>2. job'[r].generated <= Items[r] /\ job'[r].itemsOk <= Items[r]
    BY <1>1, <1>2, <1>4
       DEF Priced, RowStep, Keeps, Moves, Ends, Counts, Recounts, Settles, Deletes,
           KeepsCounts
  <2> QED
    BY <2>1, <2>2 DEF Priced
<1> QED
  BY <1>3, <1>4

LEMMA CountedStep ==
  ASSUME NEW r \in Requests, Counted(r), Working(r), RowStep(r)
  PROVE  Counted(r)'
<1> USE DEF Counted, KeepsStatus, KeepsPrice, KeepsCounts, KeepsCost, Charged
<1>1. CASE Keeps(r)
  BY <1>1 DEF Keeps
<1>2. CASE Born(r) \/ Moves(r) \/ Ends(r) \/ Counts(r)
  BY <1>2 DEF Born, Moves, Ends, Counts, Uncharged
<1>3. CASE Recounts(r)
  BY <1>3 DEF Recounts, Working, Uncharged
<1>4. CASE Settles(r)
  BY <1>4 DEF Settles
<1>5. CASE Deletes(r)
  BY <1>5 DEF Deletes
<1> QED
  BY <1>1, <1>2, <1>3, <1>4, <1>5 DEF RowStep

(* Only a job seen indexing is indexed.                                    *)
LEMMA TakesIndexing ==
  ASSUME StepInv, [Next]_vars, NEW r \in Requests, Working(r),
         sched'.pc \in {"index", "commit"}, sched'.at = {r}
  PROVE  \/ sched' = sched
         \/ job'[r].status = job[r].status /\ job[r].status \in {"indexing"} \cup Uncharged
<1> USE DEF StepInv, TypeInv, TypeOK
<1>1. ASSUME NEW q \in Requests, SubmitStep(q) \/ OwnerStep(q) \/ WorldStep(q)
      PROVE  sched' = sched
  BY <1>1 DEF SubmitStep, SubmitFind, SubmitSelect, SubmitReserve, SubmitCall,
              SubmitRecord, SubmitFail, OwnerStep, CancelStart, CancelCall, CancelFinish,
              PurgeStart, PurgeRemove, PurgeMark, DeleteRecord, WorldStep, RemoteStep,
              CreatedLongAgo, OutputExpires, ClientGone
<1>2. CASE AdminStep \/ UNCHANGED vars
  BY <1>2 DEF AdminStep, AdjustBalance, DisableUser, UpdateProvider, vars
<1>3. ~(SchedScan \/ Crash)
  <2>1. \A due : [SchedIdle EXCEPT !.pc = "next", !.due = due].pc = "next"
    BY DEF SchedIdle
  <2>2. SchedScan => sched'.pc = "next"
    BY <2>1 DEF SchedScan
  <2>3. Crash => sched'.pc = "idle"
    BY DEF Crash, SchedIdle
  <2> QED
    BY <2>2, <2>3
<1>4. ~SchedCleanup
  <2> SUFFICES ASSUME SchedCleanup PROVE FALSE
    OBVIOUS
  <2>1. sched'.pc \in {"idle", "remove"}
    <3>1. SchedIdle.pc = "idle"
      BY DEF SchedIdle
    <3>2. \A q : [SchedIdle EXCEPT !.pc = "remove", !.at = {q}].pc = "remove"
      BY DEF SchedIdle
    <3> QED
      BY <3>1, <3>2 DEF SchedCleanup
  <2> QED
    BY <2>1
<1>5. ASSUME NEW q \in Requests, SchedStep(q)
      PROVE  job'[r].status = job[r].status /\ job[r].status \in {"indexing"} \cup Uncharged
  <2>1. CASE SchedTake(q)
    <3>1. sched'.pc = Branch(q) /\ sched'.at = (IF Branch(q) = "next" THEN {} ELSE {q})
      BY <2>1 DEF SchedTake, SchedulerState
    <3>2. q = r /\ Branch(r) \in {"index", "commit"}
      BY <3>1
    <3>3. job[r].status = "indexing"
      BY <3>2 DEF Branch
    <3> QED
      BY <2>1, <3>3 DEF SchedTake
  <2>2. CASE SchedReread(q)
    BY <2>2 DEF SchedReread, Goto, SchedNext, SchedulerState
  <2>3. CASE SchedIndex(q)
    <3>1. sched.pc = "index" /\ sched.at = {r}
      BY <2>3 DEF SchedIndex, Goto, SchedulerState
    <3>2. job'[r].status = job[r].status
      BY <2>3 DEF SchedIndex, Job
    <3> QED
      BY <3>1, <3>2 DEF Working
  <2>4. CASE ~(SchedTake(q) \/ SchedReread(q) \/ SchedIndex(q))
    <3>1. \/ \E pc \in SchedPc \ {"index", "commit"} : sched' = [sched EXCEPT !.pc = pc]
          \/ \E seen \in Remote : sched' = [sched EXCEPT !.pc = "apply", !.seen = seen]
          \/ SchedNext
          \/ sched' = SchedIdle
      BY <1>5, <2>4
         DEF SchedStep, SchedExpire, SchedPoll, SchedApply, SchedCommit, SchedSettle,
             SchedError, SchedExhausted, SchedRemove, SchedMark, Goto, SchedPc
    <3>2. sched'.pc \notin {"index", "commit"}
      <4>1. CASE \E pc \in SchedPc \ {"index", "commit"} : sched' = [sched EXCEPT !.pc = pc]
        BY <4>1 DEF SchedulerState
      <4>2. CASE \E seen \in Remote : sched' = [sched EXCEPT !.pc = "apply", !.seen = seen]
        BY <4>2 DEF SchedulerState
      <4>3. CASE SchedNext
        BY <4>3 DEF SchedNext, SchedulerState
      <4>4. CASE sched' = SchedIdle
        BY <4>4 DEF SchedIdle
      <4> QED
        BY <3>1, <4>1, <4>2, <4>3, <4>4
    <3> QED
      BY <3>2
  <2> QED
    BY <2>1, <2>2, <2>3, <2>4
<1> QED
  BY <1>1, <1>2, <1>3, <1>4, <1>5 DEF Next

LEMMA WorkingStep ==
  ASSUME StepInv, [Next]_vars, NEW r \in Requests, Working(r), RowStep(r)
  PROVE  Working(r)'
<1> SUFFICES ASSUME sched'.pc \in {"index", "commit"}, sched'.at = {r}
             PROVE  job'[r].status \in {"indexing"} \cup Uncharged
  BY DEF Working
<1>1. CASE sched' = sched
  <2>1. job[r].status \in {"indexing"} \cup Uncharged
    BY <1>1 DEF Working
  <2> QED
    BY <2>1 DEF RowStep, Keeps, Born, Moves, Ends, Counts, Recounts, Settles, Deletes,
                KeepsStatus, Uncharged, Active
<1> QED
  BY <1>1, TakesIndexing

LEMMA RowInvStep == StepInv /\ StepInv' /\ RowInv /\ [Next]_vars => RowInv'
  BY EveryRow, PricedStep, CountedStep, WorkingStep DEF RowInv

LEMMA RowInvAlways == Spec => [](RowInv /\ BooksInv)
<1>1. BooksInv => StepInv
  BY DEF BooksInv
<1>2. BooksInv' => StepInv'
  BY DEF BooksInv
<1>3. RowInv /\ BooksInv /\ BooksInv' /\ [Next]_vars => RowInv'
  BY <1>1, <1>2, RowInvStep
<1> QED
  BY <1>3, RowInvInit, BooksAlways, PTL DEF Spec

(* A completed job is charged for the images its item rows show.           *)
THEOREM ItemsCorrect == Spec => []ChargedForItems
<1>1. RowInv => ChargedForItems
  BY DEF RowInv, Counted, ChargedForItems
<1> QED
  BY <1>1, RowInvAlways, PTL

(* A settlement is never refused.                                          *)
THEOREM AffordableCorrect == Spec => []SettlementAffordable
<1>1. ASSUME RowInv, BooksInv, NEW r \in Requests, job[r].status = "settling"
      PROVE  ~SettleRefused(r)
  <2> DEFINE u == Owner[r]
             n == Items[r]
             g == job[r].generated
             k == job[r].unit
             h == job[r].hold
             s == Total(HeldBy(u), HoldColumn)
  <2>1. u \in Users /\ n \in Nat /\ g \in Nat /\ k \in Nat /\ h \in Nat
    <3>1. u \in Users /\ n \in Nat
      BY PopulationAssumption
    <3>2. job[r] \in Job
      BY <1>1 DEF BooksInv, StepInv, TypeInv, TypeOK
    <3>3. g \in Nat /\ k \in Nat /\ h \in Nat
      BY <3>2 DEF Job
    <3> QED
      BY <3>1, <3>3
  <2>2. n * k <= h /\ g <= n
    BY <1>1 DEF RowInv, Priced
  <2>3. frozen[u] = s
    BY <1>1, <2>1 DEF BooksInv, Books, FrozenMatchesHolds
  <2>4. h <= s
    <3>1. TypeInv
      BY <1>1 DEF BooksInv, StepInv
    <3>2. r \in HeldBy(u)
      BY <1>1 DEF HeldBy, Active
    <3>3. /\ IsFiniteSet(HeldBy(u)) /\ HoldColumn[r] = h
          /\ \A q \in HeldBy(u) : HoldColumn[q] \in Nat
      BY <2>1, <3>1, RowSets DEF HeldBy
    <3> QED
      BY <3>2, <3>3, TotalCovers
  <2>5. s \in Nat
    BY <1>1, <2>1, <2>3 DEF BooksInv, StepInv, TypeInv, TypeOK
  <2> HIDE DEF u, n, g, k, h, s
  <2>6. g * k <= n * k
    BY <2>1, <2>2
  <2>7. g * k <= h
    <3>1. g * k \in Nat /\ n * k \in Nat
      BY <2>1
    <3> QED
      BY <2>1, <2>2, <2>6, <3>1
  <2>8. ~(g * k > h) /\ FrozenCovers(u, h)
    <3>1. g * k \in Nat
      BY <2>1
    <3> QED
      BY <2>1, <2>3, <2>4, <2>5, <2>7, <3>1 DEF FrozenCovers
  <2> QED
    BY <2>8 DEF SettleRefused, Actual, u, g, k, h
<1>2. RowInv /\ BooksInv => SettlementAffordable
  BY <1>1 DEF SettlementAffordable
<1> QED
  BY <1>2, RowInvAlways, PTL

-----------------------------------------------------------------------------
(* What is left of deleted outputs *)

Purging(r) == purge[r] # "idle"
Removing(r) == sched.pc \in {"remove", "mark"} /\ sched.at = {r}
Removed(r) == purge[r] = "mark" \/ (sched.pc = "mark" /\ sched.at = {r})

(* Whoever removes the outputs of a job has seen it completed, and reports *)
(* them deleted only when the directory is gone.                           *)
Cleared(r) ==
  /\ Purging(r) \/ Removing(r) => job[r].status \in Charged
  /\ Removed(r) \/ job[r].status = "output_deleted" => ~job[r].files

(* What a step may do to the directory of a job, and to its report.        *)
LeavesFiles(r) ==
  /\ job'[r].files = job[r].files
  /\ job'[r].status = job[r].status \/ job'[r].status # "output_deleted"
ClearsFiles(r) ==
  /\ ~job'[r].files
  /\ job'[r].status = job[r].status \/ job'[r].status # "output_deleted"

(* A job that ends without a charge keeps its directory.                   *)
LEMMA FinishFiles ==
  ASSUME TypeInv, NEW r \in Requests, NEW s \in {"failed", "cancelled"}, FinishWithoutCharge(r, s)
  PROVE  LeavesFiles(r)
<1>1. job' = job \/ job' = [job EXCEPT ![r].status = s, ![r].generated = job[r].itemsOk]
  BY DEF FinishWithoutCharge
<1> QED
  BY <1>1 DEF TypeInv, TypeOK, Job, LeavesFiles

(* A move of the status other than the report.                             *)
LEMMA MoveFiles ==
  ASSUME TypeInv, NEW r \in Requests, NEW s \in JobStatus \ {"output_deleted"},
         job' = [job EXCEPT ![r].status = s]
  PROVE  LeavesFiles(r)
BY DEF TypeInv, TypeOK, Job, LeavesFiles

(* Each step is of one of these kinds.                                     *)
LEMMA FilesKinds ==
  ASSUME StepInv, [Next]_vars, NEW r \in Requests
  PROVE  LeavesFiles(r) \/ ClearsFiles(r) \/ SchedIndex(r) \/ SchedMark(r) \/ PurgeMark(r)
<1>0. TypeInv /\ job \in [Requests -> Job]
  BY DEF StepInv, TypeInv, TypeOK
<1>1. job'[r] = job[r] => LeavesFiles(r)
  BY DEF LeavesFiles
<1>2. CASE SubmitStep(r)
  <2>1. CASE SubmitFind(r) \/ SubmitSelect(r) \/ SubmitCall(r)
    BY <1>1, <2>1 DEF SubmitFind, SubmitSelect, SubmitCall
  <2>2. CASE SubmitReserve(r)
    <3> DEFINE p == submit[r].provider
               c == submit[r].price
               j == [NoJob EXCEPT !.status = "created", !.provider = p, !.hold = HoldOf(r, p, c),
                                  !.unit = BillableUnit(p, c)]
    <3>1. job' = job \/ job' = [job EXCEPT ![r] = j]
      BY <2>2 DEF SubmitReserve
    <3>2. j.status = "created" /\ ~j.files
      BY DEF NoJob
    <3> HIDE DEF j
    <3>3. job'[r] = job[r] \/ job'[r] = j
      BY <1>0, <3>1
    <3> QED
      BY <1>1, <3>2, <3>3 DEF ClearsFiles
  <2>3. CASE SubmitRecord(r)
    BY <1>0, <2>3 DEF SubmitRecord, LeavesFiles, Job
  <2>4. CASE SubmitFail(r)
    BY <1>0, <2>4, FinishFiles DEF SubmitFail
  <2> QED
    BY <1>2, <2>1, <2>2, <2>3, <2>4 DEF SubmitStep
<1>3. CASE SchedStep(r)
  <2>1. CASE SchedTake(r) \/ SchedPoll(r) \/ SchedReread(r)
    BY <1>1, <2>1 DEF SchedTake, SchedPoll, SchedReread
  <2>2. CASE SchedExpire(r) \/ SchedExhausted(r)
    BY <1>0, <2>2, FinishFiles DEF SchedExpire, SchedExhausted
  <2>3. CASE SchedApply(r)
    <3>1. \/ job' = job
          \/ \E s \in {"queued", "running", "indexing"} : job' = [job EXCEPT ![r].status = s]
          \/ \E s \in {"failed", "cancelled"} : FinishWithoutCharge(r, s)
      BY <2>3 DEF SchedApply
    <3> QED
      BY <1>0, <1>1, <3>1, FinishFiles, MoveFiles DEF JobStatus, Active
  <2>4. CASE SchedCommit(r)
    <3>1. \E n : \/ job' = [job EXCEPT ![r].itemsOk = n, ![r].generated = n, ![r].status = "settling"]
                \/ job' = [job EXCEPT ![r].itemsOk = n]
      BY <2>4 DEF SchedCommit
    <3> QED
      BY <1>0, <3>1 DEF LeavesFiles, Job
  <2>5. CASE SchedSettle(r)
    <3>1. job' = job \/ job' = [job EXCEPT ![r].status = "completed", ![r].cost = Actual(r)]
      BY <2>5 DEF SchedSettle
    <3> QED
      BY <1>0, <1>1, <3>1 DEF LeavesFiles, Job
  <2>6. CASE SchedError(r)
    <3>1. job' = job \/ \E n : job' = [job EXCEPT ![r].retry = n]
      BY <2>6 DEF SchedError
    <3> QED
      BY <1>0, <1>1, <3>1 DEF LeavesFiles, Job
  <2>7. CASE SchedRemove(r)
    <3>1. job' = job \/ job' = [job EXCEPT ![r].files = FALSE]
      BY <2>7 DEF SchedRemove, RemoveFiles
    <3> QED
      BY <1>0, <1>1, <3>1 DEF ClearsFiles, Job
  <2> QED
    BY <1>3, <2>1, <2>2, <2>3, <2>4, <2>5, <2>6, <2>7 DEF SchedStep
<1>4. CASE OwnerStep(r) \/ WorldStep(r)
  <2>1. CASE \/ CancelStart(r) \/ CancelCall(r) \/ PurgeStart(r) \/ RemoteStep(r) \/ ClientGone(r)
    BY <1>1, <2>1 DEF CancelStart, CancelCall, PurgeStart, RemoteStep, ClientGone
  <2>2. CASE CancelFinish(r)
    BY <1>0, <2>2, FinishFiles DEF CancelFinish
  <2>3. CASE PurgeRemove(r)
    <3>1. job' = job \/ job' = [job EXCEPT ![r].files = FALSE]
      BY <2>3 DEF PurgeRemove, RemoveFiles
    <3> QED
      BY <1>0, <1>1, <3>1 DEF ClearsFiles, Job
  <2>4. CASE DeleteRecord(r) \/ CreatedLongAgo(r) \/ OutputExpires(r)
    BY <1>0, <2>4 DEF DeleteRecord, CreatedLongAgo, OutputExpires, LeavesFiles, Job
  <2> QED
    BY <1>4, <2>1, <2>2, <2>3, <2>4 DEF OwnerStep, WorldStep
<1>5. CASE SchedScan \/ SchedCleanup \/ Crash \/ AdminStep \/ UNCHANGED vars
  BY <1>1, <1>5 DEF SchedScan, SchedCleanup, Crash, AdminStep, AdjustBalance, DisableUser, UpdateProvider, vars
<1>6. ASSUME NEW q \in Requests \ {r},
             SubmitStep(q) \/ SchedStep(q) \/ OwnerStep(q) \/ WorldStep(q)
      PROVE  LeavesFiles(r)
  BY <1>1, <1>6, OtherRows
<1> QED
  BY <1>2, <1>3, <1>4, <1>5, <1>6 DEF Next

(* Only the indexing of a job writes its directory.                        *)
LEMMA FilesWritten ==
  ASSUME StepInv, [Next]_vars, NEW r \in Requests, Working(r), job'[r].files
  PROVE  job[r].files \/ job'[r].status \notin Charged
<1> USE DEF StepInv, TypeInv, TypeOK
<1>1. CASE SchedIndex(r)
  <2>1. sched.pc = "index" /\ sched.at = {r} /\ job'[r].status = job[r].status
    BY <1>1 DEF SchedIndex, Job
  <2> QED
    BY <2>1 DEF Working, Charged, Uncharged
<1>2. CASE SchedMark(r) \/ PurgeMark(r)
  BY <1>2 DEF SchedMark, PurgeMark, MarkDeleted, Job
<1> QED
  BY <1>1, <1>2, FilesKinds DEF LeavesFiles, ClearsFiles

(* Outputs are reported deleted by whoever has removed them.               *)
LEMMA MarkedByRemover ==
  ASSUME StepInv, [Next]_vars, NEW r \in Requests,
         job[r].status # "output_deleted", job'[r].status = "output_deleted"
  PROVE  Removed(r) /\ job'[r].files = job[r].files
<1> USE DEF StepInv, TypeInv, TypeOK
<1>1. CASE SchedMark(r) \/ PurgeMark(r)
  BY <1>1 DEF SchedMark, PurgeMark, MarkDeleted, Removed, Job
<1>2. ~SchedIndex(r)
  BY DEF SchedIndex, Job
<1> QED
  BY <1>1, <1>2, FilesKinds DEF LeavesFiles, ClearsFiles

(* A handler that deletes outputs starts from a completed job and goes on  *)
(* when the directory is removed.                                          *)
LEMMA PurgeMoves ==
  ASSUME StepInv, [Next]_vars, NEW r \in Requests
  PROVE  \/ purge'[r] = purge[r] \/ purge'[r] = "idle"
         \/ purge'[r] = "remove" /\ job[r].status = "completed" /\ job' = job
         \/ purge'[r] = "mark" /\ purge[r] = "remove" /\ ~job'[r].files
<1> USE DEF StepInv, TypeInv, TypeOK
<1>1. CASE \E q \in Requests : PurgeStart(q) \/ PurgeRemove(q) \/ PurgeMark(q) \/ ClientGone(q)
  <2>1. PICK q \in Requests : PurgeStart(q) \/ PurgeRemove(q) \/ PurgeMark(q) \/ ClientGone(q)
    BY <1>1
  <2>2. CASE q # r
    BY <2>1, <2>2 DEF PurgeStart, PurgeRemove, PurgeMark, ClientGone
  <2>3. CASE q = r
    BY <2>1, <2>3 DEF PurgeStart, PurgeRemove, PurgeMark, ClientGone, RemoveFiles, Job
  <2> QED
    BY <2>2, <2>3
<1>2. CASE Crash
  BY <1>2 DEF Crash
<1>3. CASE \/ \E q \in Requests : \/ SubmitStep(q) \/ SchedStep(q)
                                  \/ CancelStart(q) \/ CancelCall(q) \/ CancelFinish(q) \/ DeleteRecord(q)
                                  \/ RemoteStep(q) \/ CreatedLongAgo(q) \/ OutputExpires(q)
           \/ SchedScan \/ SchedCleanup \/ AdminStep \/ UNCHANGED vars
  BY <1>3 DEF SubmitStep, SubmitFind, SubmitSelect, SubmitReserve, SubmitCall, SubmitRecord, SubmitFail,
              SchedStep, SchedTake, SchedExpire, SchedPoll, SchedApply, SchedReread, SchedIndex, SchedCommit,
              SchedSettle, SchedError, SchedExhausted, SchedRemove, SchedMark, CancelStart, CancelCall,
              CancelFinish, DeleteRecord, RemoteStep, CreatedLongAgo, OutputExpires, SchedScan, SchedCleanup,
              AdminStep, AdjustBalance, DisableUser, UpdateProvider, vars, handlers
<1> QED
  BY <1>1, <1>2, <1>3 DEF Next, OwnerStep, WorldStep

(* So does the scheduler's clean-up.                                       *)
LEMMA CleanupMoves ==
  ASSUME StepInv, [Next]_vars, NEW r \in Requests, Removing(r)'
  PROVE  \/ sched' = sched
         \/ sched'.pc = "remove" /\ job[r].status = "completed" /\ job' = job
         \/ sched'.pc = "mark" /\ sched.pc = "remove" /\ sched.at = {r} /\ ~job'[r].files
<1> USE DEF StepInv, TypeInv, TypeOK
<1>0. sched'.pc \in {"remove", "mark"} /\ sched'.at = {r}
  BY DEF Removing
<1>1. ASSUME NEW q \in Requests, SubmitStep(q) \/ OwnerStep(q) \/ WorldStep(q)
      PROVE  sched' = sched
  BY <1>1 DEF SubmitStep, SubmitFind, SubmitSelect, SubmitReserve, SubmitCall,
              SubmitRecord, SubmitFail, OwnerStep, CancelStart, CancelCall, CancelFinish,
              PurgeStart, PurgeRemove, PurgeMark, DeleteRecord, WorldStep, RemoteStep,
              CreatedLongAgo, OutputExpires, ClientGone
<1>2. CASE AdminStep \/ UNCHANGED vars
  BY <1>2 DEF AdminStep, AdjustBalance, DisableUser, UpdateProvider, vars
<1>3. ~(SchedScan \/ Crash)
  <2>1. \A due : [SchedIdle EXCEPT !.pc = "next", !.due = due].pc = "next"
    BY DEF SchedIdle
  <2>2. SchedScan => sched'.pc = "next"
    BY <2>1 DEF SchedScan
  <2>3. Crash => sched'.pc = "idle"
    BY DEF Crash, SchedIdle
  <2> QED
    BY <1>0, <2>2, <2>3
<1>4. CASE SchedCleanup
  <2>1. \A q : [SchedIdle EXCEPT !.pc = "remove", !.at = {q}] = [SchedIdle EXCEPT !.pc = "remove", !.at = {q}]
               /\ [SchedIdle EXCEPT !.pc = "remove", !.at = {q}].pc = "remove"
               /\ [SchedIdle EXCEPT !.pc = "remove", !.at = {q}].at = {q}
    BY DEF SchedIdle
  <2>2. SchedIdle.pc = "idle"
    BY DEF SchedIdle
  <2>3. PICK q \in Expired : sched' = [SchedIdle EXCEPT !.pc = "remove", !.at = {q}]
    BY <1>0, <1>4, <2>2 DEF SchedCleanup
  <2>4. q = r /\ sched'.pc = "remove"
    BY <1>0, <2>1, <2>3
  <2> QED
    BY <1>4, <2>3, <2>4 DEF SchedCleanup, Expired
<1>5. ASSUME NEW q \in Requests, SchedStep(q)
      PROVE  sched'.pc = "mark" /\ sched.pc = "remove" /\ sched.at = {r} /\ ~job'[r].files
  <2>1. CASE SchedTake(q)
    <3>1. sched'.pc = Branch(q)
      BY <2>1 DEF SchedTake, SchedulerState
    <3>2. Branch(q) \notin {"remove", "mark"}
      BY DEF Branch
    <3> QED
      BY <1>0, <3>1, <3>2
  <2>2. CASE SchedReread(q) \/ SchedIndex(q)
    BY <1>0, <2>2 DEF SchedReread, SchedIndex, Goto, SchedNext, SchedulerState
  <2>3. CASE SchedRemove(q)
    <3>1. SchedIdle.pc = "idle"
      BY DEF SchedIdle
    <3>2. RemoveFiles(q) /\ Goto("mark") /\ sched.pc = "remove" /\ sched.at = {q}
      BY <1>0, <2>3, <3>1 DEF SchedRemove
    <3>3. sched'.pc = "mark" /\ sched'.at = {q}
      BY <3>2 DEF Goto, SchedulerState
    <3>4. q = r
      BY <1>0, <3>3
    <3> QED
      BY <3>2, <3>3, <3>4 DEF RemoveFiles, Job
  <2>4. CASE ~(SchedTake(q) \/ SchedReread(q) \/ SchedIndex(q) \/ SchedRemove(q))
    <3>1. \/ \E pc \in SchedPc \ {"remove", "mark"} : sched' = [sched EXCEPT !.pc = pc]
          \/ \E seen \in Remote : sched' = [sched EXCEPT !.pc = "apply", !.seen = seen]
          \/ SchedNext
          \/ sched' = SchedIdle
      BY <1>5, <2>4
         DEF SchedStep, SchedExpire, SchedPoll, SchedApply, SchedCommit, SchedSettle,
             SchedError, SchedExhausted, SchedMark, Goto, SchedPc
    <3>2. sched'.pc \notin {"remove", "mark"}
      <4>1. CASE \E pc \in SchedPc \ {"remove", "mark"} : sched' = [sched EXCEPT !.pc = pc]
        BY <4>1 DEF SchedulerState
      <4>2. CASE \E seen \in Remote : sched' = [sched EXCEPT !.pc = "apply", !.seen = seen]
        BY <4>2 DEF SchedulerState
      <4>3. CASE SchedNext
        BY <4>3 DEF SchedNext, SchedulerState
      <4>4. CASE sched' = SchedIdle
        BY <4>4 DEF SchedIdle
      <4> QED
        BY <3>1, <4>1, <4>2, <4>3, <4>4
    <3> QED
      BY <1>0, <3>2
  <2> QED
    BY <1>5, <2>1, <2>2, <2>3, <2>4
<1> QED
  BY <1>1, <1>2, <1>3, <1>4, <1>5 DEF Next

(* Every step keeps what the removers know.                                *)
LEMMA ClearedStep ==
  ASSUME StepInv, [Next]_vars, NEW r \in Requests, Working(r), Cleared(r)
  PROVE  Cleared(r)'
<1>1. job[r].status \in Charged => job'[r].status \in Charged
  BY EveryRow DEF RowStep, Keeps, Born, Moves, Ends, Counts, Recounts, Settles, Deletes,
                  KeepsStatus, Charged, Active
<1>2. job[r].status \in Charged /\ ~job[r].files => ~job'[r].files
  BY <1>1, FilesWritten
<1>3. Purging(r)' => job'[r].status \in Charged
  BY <1>1, PurgeMoves DEF Cleared, Purging, Charged
<1>4. Removing(r)' => job'[r].status \in Charged
  BY <1>1, CleanupMoves DEF Cleared, Removing, Charged
<1>5. purge'[r] = "mark" => ~job'[r].files
  BY <1>2, PurgeMoves DEF Cleared, Purging, Removed
<1>6. sched'.pc = "mark" /\ sched'.at = {r} => ~job'[r].files
  BY <1>2, CleanupMoves DEF Cleared, Removing, Removed
<1>7. job'[r].status = "output_deleted" => ~job'[r].files
  <2>1. CASE job[r].status = "output_deleted"
    BY <1>2, <2>1 DEF Cleared, Charged
  <2>2. CASE job[r].status # "output_deleted"
    BY <2>2, MarkedByRemover DEF Cleared
  <2> QED
    BY <2>1, <2>2
<1> QED
  BY <1>3, <1>4, <1>5, <1>6, <1>7 DEF Cleared, Removed

(* Once outputs are reported deleted the directory is gone for good,       *)
(* whoever deletes, cancels, indexes or restarts at the same time.         *)
THEOREM DeletedCorrect == Spec => []DeletedOutputsAreGone
<1>1. Init => \A r \in Requests : Cleared(r)
  BY DEF Init, Cleared, Purging, Removing, Removed, NoJob, SchedIdle
<1>2. RowInv /\ BooksInv /\ (\A r \in Requests : Cleared(r)) /\ [Next]_vars
        => (\A r \in Requests : Cleared(r))'
  BY ClearedStep DEF BooksInv, RowInv
<1>3. (\A r \in Requests : Cleared(r)) => DeletedOutputsAreGone
  BY DEF Cleared, DeletedOutputsAreGone
<1> QED
  BY <1>1, <1>2, <1>3, RowInvAlways, PTL DEF Spec
=============================================================================
