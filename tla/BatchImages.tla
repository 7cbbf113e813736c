---------------------------- MODULE BatchImages ----------------------------
(***************************************************************************)
(* The batch-image jobs of src/batch_images.rs and the money they hold.    *)
(*                                                                         *)
(* A submission reserves a hold on its owner's balance, creates the job    *)
(* and its remote batch; the one scheduler task polls the provider,        *)
(* indexes the results, settles or fails the job; the owner may cancel it, *)
(* delete its outputs and hide its record; administrators move balances,   *)
(* disable users and edit providers meanwhile.  SQLite transactions are    *)
(* atomic steps; every .await between two of them is a point where other   *)
(* handlers run, where the client may disconnect (the handler's future is  *)
(* dropped) and where the process may stop.                                *)
(***************************************************************************)
EXTENDS Totals, Integers

CONSTANTS
  Users, Providers,
  Requests,        \* submissions; the job a submission creates carries its name
  Keys,            \* (API key, Idempotency-Key) pairs
  NoKey,           \* a submission without an Idempotency-Key
  NoProvider,      \* the provider of a job that does not exist
  Owner,           \* [Requests -> Users]
  IdemKey,         \* [Requests -> Keys \cup {NoKey}]
  Items,           \* [Requests -> number of images asked for]
  Rank,            \* [Providers -> Nat], ORDER BY priority, id
  Concurrency,     \* [Providers -> Nat \ {0}]
  DiscountBps, HoldBps,          \* [Providers -> 0 .. 10000]
  Prices,          \* unit prices in cents an administrator may set
  Opening,         \* [Users -> Nat], balances at the start
  Deltas,          \* balance changes made outside this module
  Suspects,        \* users an administrator may disable
  Edited,          \* providers an administrator may edit
  MaxBalance,      \* MAX_BALANCE_CENTS
  MaxRetry,        \* processing errors after which a job fails (5)
  PassLimit,       \* jobs per scheduler pass (10)
  MaxCrashes       \* bound on the restarts explored

ASSUME PopulationAssumption ==
  /\ IsFiniteSet(Requests)
  /\ Owner \in [Requests -> Users]
  /\ IdemKey \in [Requests -> Keys \cup {NoKey}]
  /\ NoKey \notin Keys
  /\ Items \in [Requests -> Nat \ {0}]
  /\ Opening \in [Users -> Nat]

ASSUME ProviderAssumption ==
  /\ NoProvider \notin Providers
  /\ Rank \in [Providers -> Nat]
  /\ \A p, q \in Providers : Rank[p] = Rank[q] => p = q
  /\ Concurrency \in [Providers -> Nat \ {0}]
  /\ DiscountBps \in [Providers -> Nat]
  /\ HoldBps \in [Providers -> Nat]
  /\ \A p \in Providers : DiscountBps[p] <= 10000 /\ HoldBps[p] <= 10000
  /\ Prices \subseteq Nat

ASSUME LimitAssumption ==
  /\ Deltas \subseteq Int
  /\ Suspects \subseteq Users
  /\ Edited \subseteq Providers
  /\ MaxBalance \in Nat
  /\ MaxRetry \in Nat \ {0}
  /\ PassLimit \in Nat \ {0}
  /\ MaxCrashes \in Nat

Active == {"created", "queued", "running", "indexing", "settling"}
Charged == {"completed", "output_deleted"}
Uncharged == {"failed", "cancelled"}
Final == Charged \cup Uncharged
JobStatus == {"none"} \cup Active \cup Final
RemoteDone == {"succeeded", "failed", "cancelled"}
Remote == {"none", "pending", "running"} \cup RemoteDone

Job == [status    : JobStatus,
        provider  : Providers \cup {NoProvider},
        hold      : Nat,        \* hold_amount_cents
        unit      : Nat,        \* billable_unit_price_cents
        named     : BOOLEAN,    \* provider_job_name IS NOT NULL
        overdue   : BOOLEAN,    \* created more than 300 seconds ago
        itemsOk   : Nat,        \* items whose status is 'success'
        generated : Nat,        \* generated_image_count = success_count
        retry     : Nat,        \* retry_count
        cost      : Nat,        \* actual_cost_cents
        files     : BOOLEAN,    \* the job directory exists
        expired   : BOOLEAN,    \* output_expires_at has passed
        hidden    : BOOLEAN]    \* user_deleted_at IS NOT NULL

NoJob == [status |-> "none", provider |-> NoProvider, hold |-> 0, unit |-> 0,
          named |-> FALSE, overdue |-> FALSE, itemsOk |-> 0, generated |-> 0,
          retry |-> 0, cost |-> 0, files |-> FALSE, expired |-> FALSE,
          hidden |-> FALSE]

VARIABLES
  balance, frozen,   \* users.balance_cents, users.frozen_balance_cents
  enabled,           \* users.enabled = 1 AND deleted_at IS NULL
  ledger,            \* SUM(delta_cents) of user_balance_adjustments
  granted,           \* history: opening balance plus changes from outside
  price, open,       \* providers: unit_price_cents and enabled
  job,               \* batch_image_jobs, by the request that created it
  remote,            \* the provider's batch for a request
  submit,            \* the submit handlers
  cancel,            \* the cancel handlers, one at a time per job
  purge,             \* the delete-outputs handlers, one at a time per job
  sched,             \* the scheduler task
  crashes            \* restarts so far

users == <<balance, frozen, enabled, ledger, granted>>
providers == <<price, open>>
handlers == <<submit, cancel, purge>>
vars == <<users, providers, job, remote, handlers, sched, crashes>>

Submitter == [pc : {"idle", "select", "reserve", "call", "record", "fail", "done"},
              provider : Providers \cup {NoProvider}, price : Nat]
SubmitIdle == [pc |-> "idle", provider |-> NoProvider, price |-> 0]
SubmitDone == [pc |-> "done", provider |-> NoProvider, price |-> 0]

SchedPc == {"idle", "next", "expire", "poll", "apply", "reread", "index", "commit", "settle",
            "error", "exhausted", "cleanup", "remove", "mark"}
\* `due' is what the pass has still to process, `at' the job in hand
SchedulerState == [pc : SchedPc, due : SUBSET Requests, at : SUBSET Requests,
              seen : Remote]
SchedIdle == [pc |-> "idle", due |-> {}, at |-> {}, seen |-> "none"]

-----------------------------------------------------------------------------
(* Money *)

RoundedBps(value, bps) == (value * bps + 9999) \div 10000

BillableUnit(p, cents) == RoundedBps(cents, DiscountBps[p])
(* Variant: the hold follows its own rate even below the billable price.   *)
HoldUnitUnbounded(p, cents) == RoundedBps(cents, HoldBps[p])

HoldUnit(p, cents) ==
  LET h == RoundedBps(cents, HoldBps[p])
      b == BillableUnit(p, cents)
  IN  IF h >= b THEN h ELSE b

HoldOf(r, p, cents) == HoldUnit(p, cents) * Items[r]

(* Variant: the UPDATE of reserve_balance without balance_cents >= ?.      *)
CanReserveUnchecked(u, amount) == amount = 0 \/ enabled[u]

(* reserve_balance: a hold of zero touches no row.                         *)
CanReserve(u, amount) == amount = 0 \/ (enabled[u] /\ balance[u] >= amount)

ReserveBalance(u, amount) ==
  /\ balance' = [balance EXCEPT ![u] = @ - amount]
  /\ frozen' = [frozen EXCEPT ![u] = @ + amount]
  /\ ledger' = [ledger EXCEPT ![u] = @ - amount]
  /\ UNCHANGED <<enabled, granted>>

(* capture_balance and release_balance: the UPDATE needs the frozen column *)
(* to cover the hold, otherwise the transaction is rolled back.            *)
FrozenCovers(u, hold) == hold = 0 \/ frozen[u] >= hold

(* Variant: the remainder is returned without an adjustment row.           *)
ReturnBalanceUnlogged(u, hold, kept) ==
  /\ balance' = [balance EXCEPT ![u] = @ + (hold - kept)]
  /\ frozen' = [frozen EXCEPT ![u] = @ - hold]
  /\ UNCHANGED <<enabled, ledger, granted>>

ReturnBalance(u, hold, kept) ==
  /\ balance' = [balance EXCEPT ![u] = @ + (hold - kept)]
  /\ frozen' = [frozen EXCEPT ![u] = @ - hold]
  /\ ledger' = [ledger EXCEPT ![u] = @ + (hold - kept)]
  /\ UNCHANGED <<enabled, granted>>

ReleaseBalance(u, amount) == ReturnBalance(u, amount, 0)

(* Variants: a capture that unfreezes only the cost, and one that gives    *)
(* the cost back as well.                                                  *)
CaptureCostOnly(u, hold, actual) == ReturnBalance(u, actual, actual)
CaptureNothing(u, hold, actual) == ReturnBalance(u, hold, 0)
CaptureBalance(u, hold, actual) == ReturnBalance(u, hold, actual)

(* finish_without_charge: a job that is already final is left alone; the   *)
(* counts are recomputed from the item rows.                               *)
Releasable(r) == FrozenCovers(Owner[r], job[r].hold)

FinishWithoutCharge(r, status) ==
  IF job[r].status \in Final \/ ~Releasable(r)
  THEN UNCHANGED <<users, job>>
  ELSE /\ job' = [job EXCEPT ![r].status = status,
                             ![r].generated = job[r].itemsOk]
       /\ ReleaseBalance(Owner[r], job[r].hold)

-----------------------------------------------------------------------------
Init ==
  /\ balance = Opening
  /\ frozen = [u \in Users |-> 0]
  /\ enabled = [u \in Users |-> TRUE]
  /\ ledger = [u \in Users |-> 0]
  /\ granted = Opening
  /\ price \in [Providers -> Prices]
  /\ open = [p \in Providers |-> TRUE]
  /\ job = [r \in Requests |-> NoJob]
  /\ remote = [r \in Requests |-> "none"]
  /\ submit = [r \in Requests |-> SubmitIdle]
  /\ cancel = [r \in Requests |-> "idle"]
  /\ purge = [r \in Requests |-> "idle"]
  /\ sched = SchedIdle
  /\ crashes = 0

-----------------------------------------------------------------------------
(* submit_job *)

SameKey(r) == {q \in Requests : /\ job[q].status # "none"
                                /\ IdemKey[q] # NoKey
                                /\ IdemKey[q] = IdemKey[r]}

(* find_idempotent_job: a hit answers with the existing job, or with a     *)
(* conflict when the body differs; either way the handler is over.         *)
SubmitFind(r) ==
  /\ submit[r].pc = "idle"
  /\ submit' = [submit EXCEPT ![r] = IF SameKey(r) # {} THEN SubmitDone
                                     ELSE [@ EXCEPT !.pc = "select"]]
  /\ UNCHANGED <<users, providers, job, remote, cancel, purge, sched, crashes>>

ActiveOn(p) == {q \in Requests : job[q].status \in Active /\ job[q].provider = p}

Available == {p \in Providers : open[p] /\ Cardinality(ActiveOn(p)) < Concurrency[p]}

(* select_provider: the count and the choice are read outside the          *)
(* transaction that will insert the job.                                   *)
SubmitSelect(r) ==
  /\ submit[r].pc = "select"
  /\ \/ /\ Available = {}
        /\ submit' = [submit EXCEPT ![r] = SubmitDone]
     \/ \E p \in Available :
          /\ \A q \in Available : Rank[p] <= Rank[q]
          /\ submit' = [submit EXCEPT ![r] =
                          [pc |-> "reserve", provider |-> p, price |-> price[p]]]
  /\ UNCHANGED <<users, providers, job, remote, cancel, purge, sched, crashes>>

(* The transaction: hold the balance, insert the job (the unique index on  *)
(* key and Idempotency-Key may refuse it) and its items.                   *)
(* Variant: no unique index behind the look-up.                            *)
ReservableWithoutIndex(r) ==
  CanReserve(Owner[r], HoldOf(r, submit[r].provider, submit[r].price))

Reservable(r) ==
  /\ SameKey(r) = {}
  /\ CanReserve(Owner[r], HoldOf(r, submit[r].provider, submit[r].price))

SubmitReserve(r) ==
  LET p == submit[r].provider
      cents == submit[r].price
  IN
  /\ submit[r].pc = "reserve"
  /\ \/ /\ ~Reservable(r)
        /\ submit' = [submit EXCEPT ![r] = SubmitDone]
        /\ UNCHANGED <<users, job>>
     \/ /\ Reservable(r)
        /\ ReserveBalance(Owner[r], HoldOf(r, p, cents))
        /\ job' = [job EXCEPT ![r] = [NoJob EXCEPT !.status = "created",
                                                   !.provider = p,
                                                   !.hold = HoldOf(r, p, cents),
                                                   !.unit = BillableUnit(p, cents)]]
        /\ submit' = [submit EXCEPT ![r].pc = "call"]
  /\ UNCHANGED <<providers, remote, cancel, purge, sched, crashes>>

(* gemini_submit / vertex_submit: the batch may exist at the provider      *)
(* although the answer is an error or never arrives.                       *)
SubmitCall(r) ==
  /\ submit[r].pc = "call"
  /\ \E answer \in {"record", "fail"}, made \in BOOLEAN :
       /\ answer = "record" => made
       /\ submit' = [submit EXCEPT ![r].pc = answer]
       /\ remote' = IF made THEN [remote EXCEPT ![r] = "pending"] ELSE remote
  /\ UNCHANGED <<users, providers, job, cancel, purge, sched, crashes>>

(* Variant: the UPDATE to 'queued' without AND status = 'created'.         *)
SubmitRecordAlways(r) ==
  /\ submit[r].pc = "record"
  /\ job' = [job EXCEPT ![r].status = "queued", ![r].named = TRUE]
  /\ submit' = [submit EXCEPT ![r] = SubmitDone]
  /\ UNCHANGED <<users, providers, remote, cancel, purge, sched, crashes>>

SubmitRecord(r) ==
  /\ submit[r].pc = "record"
  /\ job' = IF job[r].status = "created"
            THEN [job EXCEPT ![r].status = "queued", ![r].named = TRUE]
            ELSE job
  /\ submit' = [submit EXCEPT ![r] = SubmitDone]
  /\ UNCHANGED <<users, providers, remote, cancel, purge, sched, crashes>>

SubmitFail(r) ==
  /\ submit[r].pc = "fail"
  /\ FinishWithoutCharge(r, "failed")
  /\ submit' = [submit EXCEPT ![r] = SubmitDone]
  /\ UNCHANGED <<providers, remote, cancel, purge, sched, crashes>>

-----------------------------------------------------------------------------
(* The scheduler task: process_pending_jobs, then cleanup_expired_output *)

Pending == {r \in Requests : job[r].status \in Active}

(* SELECT ... ORDER BY updated_at, id LIMIT: any PassLimit pending jobs.   *)
SchedScan ==
  /\ sched.pc = "idle"
  /\ \E due \in SUBSET Pending :
       /\ \/ due = Pending /\ Cardinality(Pending) <= PassLimit
          \/ Cardinality(due) = PassLimit
       /\ sched' = [SchedIdle EXCEPT !.pc = "next", !.due = due]
  /\ UNCHANGED <<users, providers, job, remote, handlers, crashes>>

(* process_job reads the row and branches on its status.                   *)
(* Variant: unfinished submissions are never recovered.                    *)
BranchWithoutRecovery(r) ==
  CASE job[r].status = "settling"              -> "settle"
    [] job[r].status = "indexing"              -> "index"
    [] job[r].status \in {"queued", "running"} -> "poll"
    [] OTHER                                   -> "next"

Branch(r) ==
  CASE job[r].status = "created" /\ job[r].overdue -> "expire"
    [] job[r].status = "settling"                  -> "settle"
    [] job[r].status = "indexing"                  -> "index"
    [] job[r].status \in {"queued", "running"}     -> "poll"
    [] OTHER                                       -> "next"

SchedTake(r) ==
  /\ sched.pc = "next"
  /\ r \in sched.due
  /\ sched' = [sched EXCEPT !.pc = Branch(r), !.due = @ \ {r},
                            !.at = IF Branch(r) = "next" THEN {} ELSE {r}]
  /\ UNCHANGED <<users, providers, job, remote, handlers, crashes>>

Goto(pc) == sched' = [sched EXCEPT !.pc = pc]
SchedNext == sched' = [sched EXCEPT !.pc = "next", !.at = {}, !.seen = "none"]

(* fail_job(SUBMIT_RECOVERY_FAILED) re-reads the row, but only asks that   *)
(* it is not final.                                                        *)
SchedExpire(r) ==
  /\ sched.pc = "expire" /\ sched.at = {r}
  /\ FinishWithoutCharge(r, "failed")
  /\ IF Releasable(r) THEN SchedNext ELSE Goto("error")
  /\ UNCHANGED <<providers, remote, handlers, crashes>>

(* gemini_get_batch / vertex_get_batch *)
SchedPoll(r) ==
  /\ sched.pc = "poll" /\ sched.at = {r}
  /\ \/ sched' = [sched EXCEPT !.pc = "apply", !.seen = remote[r]]
     \/ Goto("error")
  /\ UNCHANGED <<users, providers, job, remote, handlers, crashes>>

(* Variant: the updates do not ask for 'queued' or 'running'.              *)
SchedApplyAlways(r) ==
  LET Move(status) == job' = [job EXCEPT ![r].status = status]
  IN
  /\ sched.pc = "apply" /\ sched.at = {r}
  /\ \/ /\ sched.seen \in {"pending", "running"}
        /\ Move(IF sched.seen = "running" THEN "running" ELSE "queued")
        /\ SchedNext /\ UNCHANGED users
     \/ /\ sched.seen = "succeeded"
        /\ Move("indexing")
        /\ Goto("reread") /\ UNCHANGED users
     \/ /\ sched.seen \in {"failed", "cancelled"}
        /\ FinishWithoutCharge(r, sched.seen)
        /\ IF Releasable(r) THEN SchedNext ELSE Goto("error")
  /\ UNCHANGED <<providers, remote, handlers, crashes>>

(* What was seen is applied to the row as it is now.                       *)
SchedApply(r) ==
  LET polled == job[r].status \in {"queued", "running"}
      Move(status) == job' = IF polled THEN [job EXCEPT ![r].status = status] ELSE job
  IN
  /\ sched.pc = "apply" /\ sched.at = {r}
  /\ \/ /\ sched.seen = "pending"
        /\ Move("queued") /\ SchedNext /\ UNCHANGED users
     \/ /\ sched.seen = "running"
        /\ Move("running") /\ SchedNext /\ UNCHANGED users
     \/ /\ sched.seen = "succeeded"
        /\ Move("indexing")
        /\ Goto("reread") /\ UNCHANGED users
     \/ /\ sched.seen = "failed"
        /\ FinishWithoutCharge(r, "failed")
        /\ IF Releasable(r) THEN SchedNext ELSE Goto("error")
     \/ /\ sched.seen = "cancelled"
        /\ FinishWithoutCharge(r, "cancelled")
        /\ IF Releasable(r) THEN SchedNext ELSE Goto("error")
  /\ UNCHANGED <<providers, remote, handlers, crashes>>

(* After the update the row is read again: a job that was cancelled in     *)
(* between is neither indexed nor settled.                                 *)
SchedReread(r) ==
  /\ sched.pc = "reread" /\ sched.at = {r}
  /\ IF job[r].status = "indexing" THEN Goto("index") ELSE SchedNext
  /\ UNCHANGED <<users, providers, job, remote, handlers, crashes>>

(* index_job up to its transaction: directory, download, parsing.          *)
SchedIndex(r) ==
  /\ sched.pc = "index" /\ sched.at = {r}
  /\ job' = [job EXCEPT ![r].files = TRUE]
  /\ Goto("commit") \/ Goto("error")
  /\ UNCHANGED <<users, providers, remote, handlers, crashes>>

(* index_result_file: how many of the expected items have an image.        *)
ImagesFound(r) == 0 .. Items[r]

(* Variant: the job moves on whatever became of it.                        *)
SchedCommitAlways(r) ==
  /\ sched.pc = "commit" /\ sched.at = {r}
  /\ \E n \in ImagesFound(r) :
       job' = [job EXCEPT ![r].itemsOk = n, ![r].generated = n,
                          ![r].status = "settling"]
  /\ Goto("settle")
  /\ UNCHANGED <<users, providers, remote, handlers, crashes>>

(* index_job's transaction: the items take their result whatever became of *)
(* the job; the job moves on only if it is still indexing.                 *)
SchedCommit(r) ==
  /\ sched.pc = "commit" /\ sched.at = {r}
  /\ \E n \in ImagesFound(r) :
       job' = IF job[r].status = "indexing"
              THEN [job EXCEPT ![r].itemsOk = n, ![r].generated = n,
                               ![r].status = "settling"]
              ELSE [job EXCEPT ![r].itemsOk = n]
  /\ Goto("settle")
  /\ UNCHANGED <<users, providers, remote, handlers, crashes>>

(* Variant: the requested images are charged, not the generated ones.      *)
ActualRequested(r) == Items[r] * job[r].unit
Actual(r) == job[r].generated * job[r].unit

SettleRefused(r) ==
  \/ Actual(r) > job[r].hold
  \/ ~FrozenCovers(Owner[r], job[r].hold)

(* settle_job *)
SchedSettle(r) ==
  /\ sched.pc = "settle" /\ sched.at = {r}
  /\ IF job[r].status # "settling" THEN
        SchedNext /\ UNCHANGED <<users, job>>
     ELSE IF SettleRefused(r) THEN
        Goto("error") /\ UNCHANGED <<users, job>>
     ELSE
        /\ job' = [job EXCEPT ![r].status = "completed", ![r].cost = Actual(r)]
        /\ CaptureBalance(Owner[r], job[r].hold, Actual(r))
        /\ SchedNext
  /\ UNCHANGED <<providers, remote, handlers, crashes>>

(* record_process_error: count the error, and fail the job at the limit in *)
(* a transaction of its own.                                               *)
SchedError(r) ==
  LET counted == job[r].status \in Active \ {"created"}
      retry == job[r].retry + 1
  IN
  /\ sched.pc = "error" /\ sched.at = {r}
  /\ job' = IF counted THEN [job EXCEPT ![r].retry = retry] ELSE job
  /\ IF counted /\ retry >= MaxRetry THEN Goto("exhausted") ELSE SchedNext
  /\ UNCHANGED <<users, providers, remote, handlers, crashes>>

SchedExhausted(r) ==
  /\ sched.pc = "exhausted" /\ sched.at = {r}
  /\ FinishWithoutCharge(r, "failed")
  /\ SchedNext
  /\ UNCHANGED <<providers, remote, handlers, crashes>>

-----------------------------------------------------------------------------
(* delete_outputs_internal, called by the owner and by the scheduler *)

RemoveFiles(r) == job' = [job EXCEPT ![r].files = FALSE]

MarkDeleted(r) ==
  job' = IF job[r].status = "completed"
         THEN [job EXCEPT ![r].status = "output_deleted"] ELSE job

Expired == {r \in Requests : job[r].status = "completed" /\ job[r].expired}

(* cleanup_expired_output takes one expired job; the pass ends here when   *)
(* there is none.                                                          *)
SchedCleanup ==
  /\ sched.pc = "next" /\ sched.due = {}
  /\ \/ Expired = {} /\ sched' = SchedIdle
     \/ \E r \in Expired : sched' = [SchedIdle EXCEPT !.pc = "remove", !.at = {r}]
  /\ UNCHANGED <<users, providers, job, remote, handlers, crashes>>

SchedRemove(r) ==
  /\ sched.pc = "remove" /\ sched.at = {r}
  /\ \/ RemoveFiles(r) /\ Goto("mark")
     \/ sched' = SchedIdle /\ UNCHANGED job      \* the provider's delete failed
  /\ UNCHANGED <<users, providers, remote, handlers, crashes>>

SchedMark(r) ==
  /\ sched.pc = "mark" /\ sched.at = {r}
  /\ MarkDeleted(r)
  /\ sched' = SchedIdle
  /\ UNCHANGED <<users, providers, remote, handlers, crashes>>

Visible(r) == job[r].status # "none" /\ ~job[r].hidden

PurgeStart(r) ==
  /\ purge[r] = "idle" /\ Visible(r)
  /\ job[r].status = "completed"
  /\ purge' = [purge EXCEPT ![r] = "remove"]
  /\ UNCHANGED <<users, providers, job, remote, submit, cancel, sched, crashes>>

(* Variant: a failed removal is ignored.                                   *)
PurgeRemoveUnchecked(r) ==
  /\ purge[r] = "remove"
  /\ purge' = [purge EXCEPT ![r] = "mark"]
  /\ RemoveFiles(r) \/ UNCHANGED job
  /\ UNCHANGED <<users, providers, remote, submit, cancel, sched, crashes>>

PurgeRemove(r) ==
  /\ purge[r] = "remove"
  /\ \/ RemoveFiles(r) /\ purge' = [purge EXCEPT ![r] = "mark"]
     \/ purge' = [purge EXCEPT ![r] = "idle"] /\ UNCHANGED job
  /\ UNCHANGED <<users, providers, remote, submit, cancel, sched, crashes>>

PurgeMark(r) ==
  /\ purge[r] = "mark"
  /\ MarkDeleted(r)
  /\ purge' = [purge EXCEPT ![r] = "idle"]
  /\ UNCHANGED <<users, providers, remote, submit, cancel, sched, crashes>>

-----------------------------------------------------------------------------
(* cancel_job and delete_record *)

(* The row is read once; the provider is told only of a job whose name was *)
(* known at that moment.                                                   *)
CancelStart(r) ==
  /\ cancel[r] = "idle" /\ Visible(r)
  /\ job[r].status \in Active
  /\ cancel' = [cancel EXCEPT ![r] = IF job[r].named THEN "call" ELSE "finish"]
  /\ UNCHANGED <<users, providers, job, remote, submit, purge, sched, crashes>>

CancelCall(r) ==
  /\ cancel[r] = "call"
  /\ \/ /\ remote' = [remote EXCEPT ![r] = IF @ \in RemoteDone THEN @ ELSE "cancelled"]
        /\ cancel' = [cancel EXCEPT ![r] = "finish"]
     \/ cancel' = [cancel EXCEPT ![r] = "idle"] /\ UNCHANGED remote
  /\ UNCHANGED <<users, providers, job, submit, purge, sched, crashes>>

CancelFinish(r) ==
  /\ cancel[r] = "finish"
  /\ FinishWithoutCharge(r, "cancelled")
  /\ cancel' = [cancel EXCEPT ![r] = "idle"]
  /\ UNCHANGED <<providers, remote, submit, purge, sched, crashes>>

DeleteRecord(r) ==
  /\ Visible(r)
  /\ job[r].status \in Final
  /\ job' = [job EXCEPT ![r].hidden = TRUE]
  /\ UNCHANGED <<users, providers, remote, handlers, sched, crashes>>

-----------------------------------------------------------------------------
(* Administrators *)

AdjustBalance(u, delta) ==
  /\ balance[u] + delta \in 0 .. MaxBalance
  /\ balance' = [balance EXCEPT ![u] = @ + delta]
  /\ ledger' = [ledger EXCEPT ![u] = @ + delta]
  /\ granted' = [granted EXCEPT ![u] = @ + delta]
  /\ UNCHANGED <<frozen, enabled, providers, job, remote, handlers, sched, crashes>>

DisableUser(u) ==
  /\ enabled[u]
  /\ enabled' = [enabled EXCEPT ![u] = FALSE]
  /\ UNCHANGED <<balance, frozen, ledger, granted, providers, job, remote,
                 handlers, sched, crashes>>

UpdateProvider(p) ==
  /\ \E cents \in Prices : price' = [price EXCEPT ![p] = cents]
  /\ \E on \in BOOLEAN : open' = [open EXCEPT ![p] = on]
  /\ UNCHANGED <<users, job, remote, handlers, sched, crashes>>

-----------------------------------------------------------------------------
(* The provider, the clock, lost clients and restarts *)

RemoteStep(r) ==
  /\ \/ remote[r] = "pending" /\ remote' = [remote EXCEPT ![r] = "running"]
     \/ /\ remote[r] \in {"pending", "running"}
        /\ \E s \in RemoteDone : remote' = [remote EXCEPT ![r] = s]
  /\ UNCHANGED <<users, providers, job, handlers, sched, crashes>>

CreatedLongAgo(r) ==
  /\ job[r].status = "created" /\ ~job[r].overdue
  /\ job' = [job EXCEPT ![r].overdue = TRUE]
  /\ UNCHANGED <<users, providers, remote, handlers, sched, crashes>>

OutputExpires(r) ==
  /\ job[r].status = "completed" /\ ~job[r].expired
  /\ job' = [job EXCEPT ![r].expired = TRUE]
  /\ UNCHANGED <<users, providers, remote, handlers, sched, crashes>>

(* The client goes away: the server drops the handler at its current await.*)
ClientGone(r) ==
  /\ \/ /\ submit[r].pc \notin {"idle", "done"}
        /\ submit' = [submit EXCEPT ![r] = SubmitDone]
        /\ UNCHANGED <<cancel, purge>>
     \/ /\ cancel[r] # "idle"
        /\ cancel' = [cancel EXCEPT ![r] = "idle"]
        /\ UNCHANGED <<submit, purge>>
     \/ /\ purge[r] # "idle"
        /\ purge' = [purge EXCEPT ![r] = "idle"]
        /\ UNCHANGED <<submit, cancel>>
  /\ UNCHANGED <<users, providers, job, remote, sched, crashes>>

(* The process stops and main starts again on the same database.           *)
Crash ==
  /\ crashes < MaxCrashes
  /\ crashes' = crashes + 1
  /\ submit' = [r \in Requests |-> IF submit[r].pc = "idle" THEN submit[r] ELSE SubmitDone]
  /\ cancel' = [r \in Requests |-> "idle"]
  /\ purge' = [r \in Requests |-> "idle"]
  /\ sched' = SchedIdle
  /\ UNCHANGED <<users, providers, job, remote>>

-----------------------------------------------------------------------------
SubmitStep(r) ==
  \/ SubmitFind(r) \/ SubmitSelect(r) \/ SubmitReserve(r)
  \/ SubmitCall(r) \/ SubmitRecord(r) \/ SubmitFail(r)

SchedStep(r) ==
  \/ SchedTake(r) \/ SchedExpire(r) \/ SchedPoll(r) \/ SchedApply(r) \/ SchedReread(r)
  \/ SchedIndex(r) \/ SchedCommit(r) \/ SchedSettle(r)
  \/ SchedError(r) \/ SchedExhausted(r) \/ SchedRemove(r) \/ SchedMark(r)

OwnerStep(r) ==
  \/ CancelStart(r) \/ CancelCall(r) \/ CancelFinish(r)
  \/ PurgeStart(r) \/ PurgeRemove(r) \/ PurgeMark(r)
  \/ DeleteRecord(r)

WorldStep(r) ==
  RemoteStep(r) \/ CreatedLongAgo(r) \/ OutputExpires(r) \/ ClientGone(r)

AdminStep ==
  \/ \E u \in Users, delta \in Deltas : AdjustBalance(u, delta)
  \/ \E u \in Suspects : DisableUser(u)
  \/ \E p \in Edited : UpdateProvider(p)

Next ==
  \/ \E r \in Requests : SubmitStep(r)
  \/ SchedScan \/ SchedCleanup
  \/ \E r \in Requests : SchedStep(r)
  \/ \E r \in Requests : OwnerStep(r)
  \/ \E r \in Requests : WorldStep(r)
  \/ AdminStep
  \/ Crash

Spec == Init /\ [][Next]_vars

-----------------------------------------------------------------------------
(* Properties *)

(* Every column, handler and snapshot ranges over what the code stores.    *)
TypeOK ==
  /\ balance \in [Users -> Nat]
  /\ frozen \in [Users -> Nat]
  /\ enabled \in [Users -> BOOLEAN]
  /\ ledger \in [Users -> Int]
  /\ granted \in [Users -> Int]
  /\ price \in [Providers -> Prices]
  /\ open \in [Providers -> BOOLEAN]
  /\ job \in [Requests -> Job]
  /\ remote \in [Requests -> Remote]
  /\ submit \in [Requests -> Submitter]
  /\ cancel \in [Requests -> {"idle", "call", "finish"}]
  /\ purge \in [Requests -> {"idle", "remove", "mark"}]
  /\ sched \in SchedulerState
  /\ crashes \in Nat

HoldColumn == [r \in Requests |-> job[r].hold]
CostColumn == [r \in Requests |-> job[r].cost]
HeldBy(u) == {r \in Requests : Owner[r] = u /\ job[r].status \in Active}
ChargedTo(u) == {r \in Requests : Owner[r] = u /\ job[r].status \in Charged}

(* The frozen column of a user is, at every instant, the sum of the holds  *)
(* of the user's unfinished jobs: no interleaving of submitter, scheduler, *)
(* cancel, restart and dropped handler releases a hold twice or leaks it.  *)
FrozenMatchesHolds == \A u \in Users : frozen[u] = Total(HeldBy(u), HoldColumn)

(* No cent is lost or created: what a user was granted is on the balance,  *)
(* frozen for an unfinished job or captured by a completed one.            *)
MoneyConserved ==
  \A u \in Users :
    granted[u] = balance[u] + frozen[u] + Total(ChargedTo(u), CostColumn)

(* The audit trail explains the balance: user_balance_adjustments has a    *)
(* row for each change, so its deltas add up to balance_cents.             *)
LedgerExplainsBalance ==
  \A u \in Users : balance[u] = Opening[u] + ledger[u]

(* A settlement is never refused: the cost of the images found never       *)
(* exceeds the hold and the frozen column always covers it, so no job with *)
(* results is failed, uncharged, for BATCH_IMAGE_COST_EXCEEDS_HOLD.        *)
SettlementAffordable ==
  \A r \in Requests : job[r].status = "settling" => ~SettleRefused(r)

(* One job per key and Idempotency-Key, although the look-up and the       *)
(* insertion are separate steps of concurrent handlers.                    *)
OneJobPerKey ==
  \A q, r \in Requests :
    /\ IdemKey[q] = IdemKey[r] /\ IdemKey[q] # NoKey
    /\ job[q].status # "none" /\ job[r].status # "none"
    => q = r

(* What a completed job is charged for is what its item rows show.         *)
ChargedForItems ==
  \A r \in Requests :
    job[r].status \in Charged =>
      /\ job[r].generated = job[r].itemsOk
      /\ job[r].cost = job[r].itemsOk * job[r].unit

(* Once the outputs are reported deleted none are left, and nothing writes *)
(* the directory again.                                                    *)
DeletedOutputsAreGone ==
  \A r \in Requests : job[r].status = "output_deleted" => ~job[r].files

(* A final job never runs again: its charge and its counts are fixed, the  *)
(* only later change of status is completed -> output_deleted.             *)
FinalIsFinal ==
  [][\A r \in Requests :
       job[r].status \in Final =>
         /\ job'[r].cost = job[r].cost
         /\ job'[r].generated = job[r].generated
         /\ \/ job'[r].status = job[r].status
            \/ job[r].status = "completed" /\ job'[r].status = "output_deleted"]_vars

(* Progress along the pipeline: no step sends a job back past indexing,    *)
(* and it is charged only on the way out of settling.                      *)
Forward(from, to) ==
  \/ from = to
  \/ from = "none" /\ to = "created"
  \/ from = "created" /\ to \in {"queued"} \cup Uncharged
  \/ from \in {"queued", "running"}
       /\ to \in {"queued", "running", "indexing"} \cup Uncharged
  \/ from = "indexing" /\ to \in {"settling"} \cup Uncharged
  \/ from = "settling" /\ to \in {"completed"} \cup Uncharged
  \/ from = "completed" /\ to = "output_deleted"
StatusFlow == [][\A r \in Requests : Forward(job[r].status, job'[r].status)]_vars

(* The job implements the hold ledger: every step reserves, releases,      *)
(* captures or adjusts, or leaves the money alone.                         *)
Phase(status) ==
  CASE status \in Active    -> "held"
    [] status \in Charged   -> "captured"
    [] status \in Uncharged -> "released"
    [] OTHER                -> "none"
Hold == INSTANCE HoldLedger WITH
          available <- balance,
          phase <- [r \in Requests |-> Phase(job[r].status)],
          amount <- HoldColumn,
          cost <- CostColumn
ImplementsHoldLedger == Hold!LedgerSpec

(* A job is failed for an unfinished submission only when no handler is    *)
(* still carrying the submission out.                                      *)
RecoveryOnlyAfterRestart ==
  [][\A r \in Requests :
       sched.pc = "expire" /\ sched.at = {r} /\ job'[r].status # job[r].status
         => submit[r].pc \notin {"call", "record"} /\ ~job[r].named]_vars

(* Fairness: handlers and the scheduler task keep running, the provider    *)
(* finishes its batches and time passes.                                   *)
Fairness ==
  /\ \A r \in Requests : WF_vars(SubmitStep(r))
  /\ WF_vars(SchedScan \/ SchedCleanup \/ \E r \in Requests : SchedStep(r))
  /\ \A r \in Requests : WF_vars(RemoteStep(r)) /\ WF_vars(CreatedLongAgo(r))
FairSpec == Spec /\ Fairness

(* Every hold is resolved: an unfinished job is eventually final, through  *)
(* lost clients, restarts, provider errors and cancels.                    *)
HoldsResolve ==
  \A r \in Requests : job[r].status \in Active ~> job[r].status \in Final
=============================================================================
