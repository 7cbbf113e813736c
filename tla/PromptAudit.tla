------------------------------ MODULE PromptAudit ------------------------------
(***************************************************************************)
(* The prompt audit (prompt_audit.rs) with the worker slots it waits for   *)
(* (state.rs, DynamicSlots): a gateway request counts the queue, inserts   *)
(* its job and spawns a task, which takes a slot, claims the job, asks the *)
(* guard, records an event and finishes the job.  In blocking mode the     *)
(* request waits for the task's verdict.  Administrators replace the       *)
(* configuration and delete events; a restart fails the jobs it finds.     *)
(***************************************************************************)
EXTENDS Integers, Sequences, FiniteSets

CONSTANTS
  Inspected,    \* gateway requests that come to the audit
  AuditConfigs, \* configurations an administrator may save
  Auditors,     \* administrators
  AuditBudgets  \* bound: how many configurations are saved, deletions begun,
                \* restarts made and statements refused by SQLite in a behaviour

Verdicts == {"Allow", "Warn", "Block"}
AuditConfig == [blocking : BOOLEAN, store : BOOLEAN, capacity : Nat \ {0}, workers : Nat \ {0}]

ASSUME AuditConfigsAssumption == AuditConfigs # {} /\ AuditConfigs \subseteq AuditConfig
ASSUME AuditSetsAssumption == IsFiniteSet(Inspected)
ASSUME AuditBudgetsAssumption == AuditBudgets \subseteq [saves : Nat, deletes : Nat, restarts : Nat, faults : Nat]

VARIABLES
  config,       \* the stored configuration
  version,      \* its config_version
  auditJob,     \* prompt_audit_jobs.status, by request, "none" without a row
  task,         \* where each request or its spawned task is
  slots,        \* DynamicSlots: the active count
  parked,       \* Notify's waiters, first come first
  spare,        \* Notify's stored permit
  events,       \* prompt_audit_events: id, request, verdict
  eventId,      \* AUTOINCREMENT of the events
  recorded,     \* requests whose event has been inserted (history)
  saving,       \* what each administrator has read and not yet saved
  preview,      \* prompt_audit_delete_previews: filter, snapshot_max_id, and
                \* the requests whose events it counted (history)
  deleting,     \* the jobs delete_by_filter has found before its transaction
  budget        \* what is left of the budget

queue == <<auditJob, task, slots, parked, spare>>
trail == <<events, eventId, recorded>>
admin == <<config, version, saving>>
erase == <<preview, deleting>>
auditVars == <<queue, trail, admin, erase, budget>>

Waiting == {"staging", "queued", "processing", "retry"}
ActiveJobs == {r \in Inspected : auditJob[r] \in Waiting}

(* pc: "new", "loaded", "counted", "check" (about to look at the count),   *)
(* "park" (about to wait), "parked", "claim", "scan", "event", "mark",     *)
(* "fail", "end" and, after a restart, "gone".                             *)
Holding == {"claim", "scan", "event", "mark", "fail"}
TaskState == [pc : {"new", "loaded", "counted", "check", "park", "parked", "end", "gone"} \cup Holding,
              config : AuditConfigs, verdict : Verdicts \cup {"none"},
              answer : {"none", "passed", "blocked", "unavailable"}, raced : BOOLEAN]
Event == [request : Inspected, verdict : Verdicts]
PreviewState == [open : BOOLEAN, filter : SUBSET Verdicts, max : Nat, shown : SUBSET Inspected]
NoPreview == [open |-> FALSE, filter |-> {}, max |-> 0, shown |-> {}]
NoDeletion == [preview |-> NoPreview, jobs |-> {}]

AuditTypeOK ==
  /\ config \in AuditConfigs /\ version \in Nat
  /\ auditJob \in [Inspected -> Waiting \cup {"none", "done", "failed"}]
  /\ task \in [Inspected -> TaskState]
  /\ slots \in Nat /\ parked \in Seq(Inspected) /\ spare \in BOOLEAN
  /\ DOMAIN events \subseteq 1 .. eventId /\ \A i \in DOMAIN events : events[i] \in Event
  /\ eventId \in Nat /\ recorded \subseteq Inspected
  /\ saving \in [Auditors -> [open : BOOLEAN, base : Nat]]
  /\ preview \in PreviewState
  /\ deleting \in [preview : PreviewState, jobs : SUBSET Inspected]
  /\ budget \in [saves : Nat, deletes : Nat, restarts : Nat, faults : Nat]

AuditInit ==
  /\ config \in AuditConfigs /\ version = 0
  /\ auditJob = [r \in Inspected |-> "none"]
  /\ task = [r \in Inspected |-> [pc |-> "new", config |-> config, verdict |-> "none",
                                  answer |-> "none", raced |-> FALSE]]
  /\ slots = 0 /\ parked = <<>> /\ spare = FALSE
  /\ events = <<>> /\ eventId = 0 /\ recorded = {}
  /\ saving = [x \in Auditors |-> [open |-> FALSE, base |-> 0]]
  /\ preview = NoPreview /\ deleting = NoDeletion
  /\ budget \in AuditBudgets

TaskMoves(r, pc) == task' = [task EXCEPT ![r].pc = pc]
Answered(r, answer) == task' = [task EXCEPT ![r].pc = "end", ![r].answer = answer]
AuditSpend(what) == budget[what] > 0 /\ budget' = [budget EXCEPT ![what] = @ - 1]
StatementRefused == AuditSpend("faults")

-----------------------------------------------------------------------------
(*                                inspect                                  *)

LoadAuditConfig(r) ==
  /\ task[r].pc = "new"
  /\ task' = [task EXCEPT ![r].pc = "loaded", ![r].config = config]
  /\ UNCHANGED <<auditJob, slots, parked, spare, trail, admin, erase, budget>>

QueueFull(c) == Cardinality(ActiveJobs) >= c.capacity

(* A full queue refuses a blocking request and skips the audit of another. *)
CountQueue(r) ==
  /\ task[r].pc = "loaded"
  /\ IF QueueFull(task[r].config)
     THEN Answered(r, IF task[r].config.blocking THEN "unavailable" ELSE "passed")
     ELSE task' = [task EXCEPT ![r].pc = "counted", ![r].raced = FALSE]
  /\ UNCHANGED <<auditJob, slots, parked, spare, trail, admin, erase, budget>>

(* The row and the spawned task; only a blocking request waits for it.  An *)
(* insertion that fails is the request's error.  "raced" notes, for the    *)
(* others that have counted, that the queue has grown since (history).     *)
InsertJob(r) ==
  /\ task[r].pc = "counted"
  /\ auditJob' = [auditJob EXCEPT ![r] = "queued"]
  /\ task' = [q \in Inspected |->
       IF q = r THEN [task[r] EXCEPT !.pc = "check",
                        !.answer = IF task[r].config.blocking THEN "none" ELSE "passed"]
       ELSE IF task[q].pc = "counted" THEN [task[q] EXCEPT !.raced = TRUE] ELSE task[q]]
  /\ UNCHANGED <<slots, parked, spare, trail, admin, erase, budget>>

-----------------------------------------------------------------------------
(*                             DynamicSlots                                *)

(* acquire: compare_exchange takes a slot while there is one for the limit *)
(* of the configuration the task was started with.                         *)
SlotFree(r) == slots < task[r].config.workers

TakeSlot(r) ==
  /\ task[r].pc = "check"
  /\ IF SlotFree(r)
     THEN slots' = slots + 1 /\ TaskMoves(r, "claim")
     ELSE UNCHANGED slots /\ TaskMoves(r, "park")
  /\ UNCHANGED <<auditJob, parked, spare, trail, admin, erase, budget>>

(* notified().await: a permit stored in the meantime is used at once.      *)
ParkTask(r) ==
  /\ task[r].pc = "park"
  /\ IF spare
     THEN spare' = FALSE /\ TaskMoves(r, "check") /\ UNCHANGED parked
     ELSE parked' = Append(parked, r) /\ TaskMoves(r, "parked") /\ UNCHANGED spare
  /\ UNCHANGED <<auditJob, slots, trail, admin, erase, budget>>

(* Variant: notify_waiters, which stores no permit.                        *)
NotifiesWaiters(ended) ==
  /\ task' = [q \in Inspected |-> IF task[q].pc = "parked" THEN [ended[q] EXCEPT !.pc = "check"]
                                                           ELSE ended[q]]
  /\ parked' = <<>> /\ UNCHANGED spare

(* DynamicSlotPermit::drop and notify_one, when the task ends.             *)
Notifies(ended) ==
  IF parked # <<>>
  THEN /\ task' = [ended EXCEPT ![Head(parked)].pc = "check"]
       /\ parked' = Tail(parked) /\ UNCHANGED spare
  ELSE task' = ended /\ spare' = TRUE /\ UNCHANGED parked

Finish(r, answer) ==
  /\ slots' = slots - 1
  /\ Notifies([task EXCEPT ![r].pc = "end", ![r].answer = IF @ = "none" THEN answer ELSE @])

-----------------------------------------------------------------------------
(*                         execute_job, process_job                        *)

(* A claim that SQLite refuses leaves the job queued.                      *)
ClaimJob(r) ==
  /\ task[r].pc = "claim"
  /\ \/ /\ auditJob[r] = "queued"
        /\ auditJob' = [auditJob EXCEPT ![r] = "processing"]
        /\ TaskMoves(r, "scan") /\ UNCHANGED <<slots, parked, spare, budget>>
     \/ /\ auditJob[r] # "queued" /\ Finish(r, "unavailable") /\ UNCHANGED <<auditJob, budget>>
     \/ StatementRefused /\ Finish(r, "unavailable") /\ UNCHANGED auditJob
  /\ UNCHANGED <<trail, admin, erase>>

(* scan_prompt: a verdict, or no endpoint has one.                         *)
ScanPrompt(r) ==
  /\ task[r].pc = "scan"
  /\ \/ \E v \in Verdicts :
          task' = [task EXCEPT ![r].verdict = v,
                     ![r].pc = IF v # "Allow" \/ task[r].config.store THEN "event" ELSE "mark"]
     \/ TaskMoves(r, "fail")
  /\ UNCHANGED <<auditJob, slots, parked, spare, trail, admin, erase, budget>>

(* Variant: the table has no AUTOINCREMENT, and the largest id plus one is *)
(* taken.                                                                  *)
ReusedEventId == IF DOMAIN events = {} THEN 1
                 ELSE 1 + CHOOSE i \in DOMAIN events : \A j \in DOMAIN events : i >= j

NextEventId == eventId + 1

(* An error of the insertion fails the job, also one that was to be        *)
(* blocked.                                                                *)
RecordEvent(r) ==
  /\ task[r].pc = "event"
  /\ \/ /\ events' = [i \in DOMAIN events \cup {NextEventId} |->
                        IF i = NextEventId THEN [request |-> r, verdict |-> task[r].verdict] ELSE events[i]]
        /\ eventId' = IF NextEventId > eventId THEN NextEventId ELSE eventId
        /\ recorded' = recorded \cup {r}
        /\ TaskMoves(r, "mark") /\ UNCHANGED budget
     \/ StatementRefused /\ TaskMoves(r, "fail") /\ UNCHANGED trail
  /\ UNCHANGED <<auditJob, slots, parked, spare, admin, erase>>

(* The row may have been deleted with its event.                           *)
SetStatus(r, status) == auditJob' = IF auditJob[r] = "none" THEN auditJob
                                    ELSE [auditJob EXCEPT ![r] = status]

MarkDone(r) ==
  /\ task[r].pc = "mark"
  /\ \/ /\ SetStatus(r, "done") /\ UNCHANGED budget
        /\ Finish(r, IF task[r].verdict = "Block" THEN "blocked" ELSE "passed")
     \/ StatementRefused /\ TaskMoves(r, "fail") /\ UNCHANGED <<auditJob, slots, parked, spare>>
  /\ UNCHANGED <<trail, admin, erase>>

(* mark_job_failed ignores its own error.                                  *)
MarkFailed(r) ==
  /\ task[r].pc = "fail"
  /\ \/ SetStatus(r, "failed") /\ UNCHANGED budget
     \/ StatementRefused /\ UNCHANGED auditJob
  /\ Finish(r, "unavailable")
  /\ UNCHANGED <<trail, admin, erase>>

(* The process stops; initialize fails the jobs it had.                    *)
RestartAudit ==
  /\ AuditSpend("restarts")
  /\ auditJob' = [r \in Inspected |-> IF r \in ActiveJobs THEN "failed" ELSE auditJob[r]]
  /\ task' = [r \in Inspected |-> IF task[r].pc \in {"new", "end"} THEN task[r]
                                  ELSE [task[r] EXCEPT !.pc = "gone"]]
  /\ slots' = 0 /\ parked' = <<>> /\ spare' = FALSE
  /\ saving' = [x \in Auditors |-> [open |-> FALSE, base |-> 0]]
  /\ deleting' = NoDeletion
  /\ UNCHANGED <<trail, config, version, preview>>

-----------------------------------------------------------------------------
(*                            Administrators                               *)

(* update_config: the expected version is compared with the one read, and  *)
(* the write does not look again.                                          *)
ReadConfig(x) ==
  /\ ~saving[x].open /\ budget.saves > 0
  /\ saving' = [saving EXCEPT ![x] = [open |-> TRUE, base |-> version]]
  /\ UNCHANGED <<queue, trail, config, version, erase, budget>>

SaveConfig(x, c) ==
  /\ saving[x].open
  /\ config' = c /\ version' = saving[x].base + 1
  /\ saving' = [saving EXCEPT ![x].open = FALSE]
  /\ AuditSpend("saves")
  /\ UNCHANGED <<queue, trail, erase>>

Matching(filter, max) == {i \in DOMAIN events : events[i].verdict \in filter /\ i <= max}
JobsOf(ids) == {events[i].request : i \in ids}

(* delete_orphan_jobs: of those named, the jobs without an event.          *)
EraseEvents(ids, jobs) ==
  LET left == DOMAIN events \ ids IN
  /\ events' = [i \in left |-> events[i]]
  /\ auditJob' = [r \in Inspected |->
       IF r \in jobs /\ \A i \in left : events[i].request # r THEN "none" ELSE auditJob[r]]
  /\ UNCHANGED <<eventId, recorded>>

(* delete_event_ids *)
DeleteEvents(ids) ==
  /\ AuditSpend("deletes")
  /\ EraseEvents(ids, JobsOf(ids))
  /\ UNCHANGED <<task, slots, parked, spare, admin, erase>>

(* EventFilter.decision, or none.                                         *)
DeleteFilters == {{v} : v \in Verdicts} \cup {Verdicts}

DeletePreview(filter) ==
  LET max == IF Matching(filter, eventId) = {} THEN 0
             ELSE CHOOSE i \in Matching(filter, eventId) :
                    \A j \in Matching(filter, eventId) : i >= j
  IN
  /\ AuditSpend("deletes")
  /\ ~preview.open
  /\ preview' = [open |-> TRUE, filter |-> filter, max |-> max,
                 shown |-> JobsOf(Matching(filter, eventId))]
  /\ UNCHANGED <<queue, trail, admin, deleting>>

PreviewExpires ==
  /\ preview.open /\ preview' = NoPreview
  /\ UNCHANGED <<queue, trail, admin, deleting, budget>>

(* delete_by_filter looks the preview up and finds the jobs before its     *)
(* transaction.                                                            *)
FindJobs ==
  /\ preview.open /\ ~deleting.preview.open
  /\ deleting' = [preview |-> preview, jobs |-> JobsOf(Matching(preview.filter, preview.max))]
  /\ UNCHANGED <<queue, trail, admin, preview, budget>>

DeleteByFilter ==
  LET found == deleting.preview IN
  /\ found.open
  /\ EraseEvents(Matching(found.filter, found.max), deleting.jobs)
  /\ preview' = (IF preview = found THEN NoPreview ELSE preview) /\ deleting' = NoDeletion
  /\ UNCHANGED <<task, slots, parked, spare, admin, budget>>

-----------------------------------------------------------------------------
TaskStep(r) ==
  \/ LoadAuditConfig(r) \/ CountQueue(r) \/ InsertJob(r) \/ TakeSlot(r) \/ ParkTask(r)
  \/ ClaimJob(r) \/ ScanPrompt(r) \/ RecordEvent(r) \/ MarkDone(r) \/ MarkFailed(r)

AuditNext ==
  \/ \E r \in Inspected : TaskStep(r)
  \/ RestartAudit
  \/ \E x \in Auditors : ReadConfig(x) \/ \E c \in AuditConfigs : SaveConfig(x, c)
  \/ \E i \in DOMAIN events : DeleteEvents({i})
  \/ \E filter \in DeleteFilters : DeletePreview(filter)
  \/ PreviewExpires \/ FindJobs \/ DeleteByFilter

AuditSpec == AuditInit /\ [][AuditNext]_auditVars

-----------------------------------------------------------------------------
(*                              Properties                                 *)

(* In blocking mode the audit fails closed: a request passes only with a   *)
(* verdict that allows it, and one is refused as blocked only when its     *)
(* event has been recorded.                                                *)
FailsClosed ==
  \A r \in Inspected : task[r].config.blocking =>
    /\ task[r].answer = "passed" => task[r].verdict \in {"Allow", "Warn"}
    /\ task[r].answer = "blocked" => task[r].verdict = "Block" /\ r \in recorded

(* A slot is held by a task between taking and dropping it and by nobody   *)
(* else, and there are never more than the largest limit configured, also  *)
(* while limits change under waiting tasks.                                *)
SlotsAccounted ==
  /\ slots = Cardinality({r \in Inspected : task[r].pc \in Holding})
  /\ \E c \in AuditConfigs : slots <= c.workers

(* The queue outgrows the capacity only by requests that counted it at the *)
(* same time: one that nobody has overtaken since it counted leaves the    *)
(* queue within its capacity.                                              *)
OvershootOnlyInRaces ==
  [][\A r \in Inspected : InsertJob(r) /\ ~task[r].raced =>
       Cardinality(ActiveJobs') <= task[r].config.capacity]_auditVars

(* A confirmed deletion removes nothing but events its preview counted.    *)
DeletesOnlyPreviewed ==
  [][deleting.preview.open /\ deleting' = NoDeletion /\ budget' = budget =>
       JobsOf(DOMAIN events \ DOMAIN events') \subseteq deleting.preview.shown]_auditVars

(* No wake-up is lost: while a task waits for a slot, another holds one    *)
(* and will notify it, or one that was woken or has a permit waiting looks *)
(* again; so a queue never stands still, whatever limits were configured.  *)
NoLostWakeup ==
  parked # <<>> =>
    \E r \in Inspected : task[r].pc \in Holding \cup {"check"} \/ (task[r].pc = "park" /\ spare)

(* What a request in blocking mode and its worker slot rely on (inspect,   *)
(* process_job, DynamicSlots).                                             *)
AuditSafe == AuditTypeOK /\ FailsClosed /\ SlotsAccounted /\ NoLostWakeup
=============================================================================
