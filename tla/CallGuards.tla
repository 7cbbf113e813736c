----------------------------- MODULE CallGuards ------------------------------
(***************************************************************************)
(* What guards a gateway call before an account is selected for it: the    *)
(* policy of its key, moderation and the audit of its prompt.  The three   *)
(* share no variable and each has a specification of its own; here is what *)
(* they promise together.                                                  *)
(***************************************************************************)
EXTENDS Admission, RiskControl, PromptAudit

(* What single steps may never do: a confirmed deletion, of usage rows or  *)
(* of audit events, removes what its preview did not show, or a queue      *)
(* outgrows its capacity though nobody overtook the request                *)
(* (cleanup_confirm, delete_by_filter, enqueue).                           *)
OnlyWhatWasShown == CleanupDeletesShown /\ DeletesOnlyPreviewed /\ OvershootOnlyInRaces

(* What risk control and the audit of prompts promise for every prompt     *)
(* (process, inspect, process_job).                                        *)
PromptsSafe == ModerationSafe /\ AuditSafe
===============================================================================
