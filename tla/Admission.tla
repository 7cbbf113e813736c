------------------------------- MODULE Admission -------------------------------
(***************************************************************************)
(* What a gateway call passes before an account is selected, and the usage *)
(* row it leaves behind: the key's policy (key_policy.rs), its owner and   *)
(* group (groups.rs), the subscription's quota and the model lists         *)
(* (gateway.rs, api_key_guard and proxy_json).  Every check is a statement *)
(* of its own, and the sums they compare with a quota are over usage rows  *)
(* that are written when a call has ended.  Owners and administrators edit *)
(* the rows in between, and administrators delete usage rows (usage.rs).   *)
(***************************************************************************)
EXTENDS Integers, FiniteSets, Totals

CONSTANTS
  ApiKeys, KeyOwner, Owners, Administrators,
  KeyGroups, NoGroup, NoKey,
  Models, MapsTo,   \* and the model a channel maps each to
  Calls, CallKey,   \* gateway calls, each with its key
  Quotas,           \* quotas a key or subscription may have; 0 is none
  Amounts,          \* what a call may use
  AdmissionStarts   \* the rows a behaviour begins with, and its bounds

Scopes == KeyGroups \cup {NoGroup}

(* quotaFrom, rateFrom and a subscription's from are quota_reset_at,       *)
(* rate_usage_reset_at and starts_at, as the id of the last usage row      *)
(* before them.  "offered" is what the group's channel allows: every model *)
(* when it restricts none.                                                 *)
KeyRow == [alive : BOOLEAN, enabled : BOOLEAN, group : Scopes, models : SUBSET Models,
           quota : Quotas, rate : Quotas, quotaFrom : Nat, rateFrom : Nat]
OwnerRow == [enabled : BOOLEAN, allowAll : BOOLEAN, allowed : SUBSET KeyGroups]
GroupRow == [enabled : BOOLEAN, exclusive : BOOLEAN, subscribers : BOOLEAN,
             models : SUBSET Models, offered : SUBSET Models]
Subscription == [state : {"none", "active", "ended"}, limit : Quotas, from : Nat]

ASSUME AdmissionSets ==
  /\ IsFiniteSet(Calls) /\ CallKey \in [Calls -> ApiKeys]
  /\ KeyOwner \in [ApiKeys -> Owners] /\ Administrators \subseteq Owners
  /\ ApiKeys \cap Owners = {} /\ NoGroup \notin KeyGroups /\ NoKey \notin ApiKeys
  /\ MapsTo \in [Models -> Models]
ASSUME AdmissionNumbers ==
  /\ Quotas \subseteq Nat /\ 0 \in Quotas
  /\ Amounts \subseteq Nat /\ 0 \in Amounts /\ IsFiniteSet(Amounts)

(* "calls" and "edits" are bounds: the calls that come, and how many edits *)
(* owners and administrators make.                                         *)
ASSUME AdmissionRows ==
  \A s \in AdmissionStarts :
    /\ s.keys \in [ApiKeys -> KeyRow] /\ \A k \in ApiKeys : s.keys[k].quotaFrom = 0 /\ s.keys[k].rateFrom = 0
    /\ s.owners \in [Owners -> OwnerRow] /\ s.groups \in [KeyGroups -> GroupRow]
    /\ s.subscriptions \in [Owners \X Scopes -> Subscription]
    /\ \A x \in Owners \X Scopes : s.subscriptions[x].from = 0
    /\ s.calls \subseteq Calls /\ s.edits \in Nat

VARIABLES
  keyRow, ownerRow, groupRow, \* api_keys, users, groups
  subscription, \* the active subscription of an owner and scope
  windowStart,  \* the last usage row older than the rate window
  usage, lastUsage, \* usage_logs and its AUTOINCREMENT
  cleanup,      \* usage_delete_previews, and the rows it counted (history)
  call,         \* what each call is doing, has read, and wants
  held,         \* conditions that held at a moment of the call (history)
  peak,         \* most calls of a key or an owner in progress at once (history)
  loosened,     \* keys whose quota or group has been edited (history)
  edits         \* edits still to come

rows == <<keyRow, ownerRow, groupRow, subscription, loosened>>
logged == <<usage, lastUsage, cleanup>>
admissionVars == <<rows, windowStart, logged, call, held, peak, edits>>

NoRow == [enabled |-> FALSE, exclusive |-> FALSE, subscribers |-> FALSE, models |-> {}, offered |-> {}]
NoPlan == [state |-> "none", limit |-> 0, from |-> 0]
NoCleanup == [open |-> FALSE, key |-> NoKey, max |-> 0, shown |-> {}]
CallState == [pc : {"new", "policy", "owner", "access", "member", "quota", "sum", "group",
                    "model", "serving", "end"},
              row : KeyRow, group : GroupRow, scope : Scopes, plan : Subscription, model : Models]
Conditions == {"key", "owner", "group", "access", "changed"}

AdmissionTypeOK ==
  /\ keyRow \in [ApiKeys -> KeyRow] /\ ownerRow \in [Owners -> OwnerRow]
  /\ groupRow \in [KeyGroups -> GroupRow] /\ subscription \in [Owners \X Scopes -> Subscription]
  /\ windowStart \in 0 .. lastUsage /\ lastUsage \in Nat
  /\ \A k \in ApiKeys : keyRow[k].quotaFrom <= lastUsage /\ keyRow[k].rateFrom <= lastUsage
  /\ \A x \in Owners \X Scopes : subscription[x].from <= lastUsage
  /\ DOMAIN usage \subseteq 1 .. lastUsage
  /\ \A i \in DOMAIN usage : usage[i] \in [key : ApiKeys \cup {NoKey}, owner : Owners, amount : Amounts]
  /\ cleanup \in [open : BOOLEAN, key : ApiKeys \cup {NoKey}, max : Nat, shown : SUBSET (1 .. lastUsage)]
  /\ call \in [Calls -> CallState] /\ held \in [Calls -> SUBSET Conditions]
  /\ peak \in [ApiKeys \cup Owners -> Nat] /\ loosened \subseteq ApiKeys
  /\ edits \in Nat

InProgress(k) == {c \in Calls : CallKey[c] = k /\ call[c].pc \notin {"new", "end"}}
OfOwner(o) == {c \in Calls : KeyOwner[CallKey[c]] = o /\ call[c].pc \notin {"new", "end"}}

AdmissionInit ==
  /\ \E s \in AdmissionStarts, model \in [Calls -> Models] :
       /\ keyRow = s.keys /\ ownerRow = s.owners /\ groupRow = s.groups /\ subscription = s.subscriptions
       /\ edits = s.edits
       /\ call = [c \in Calls |->
                   [pc |-> IF c \in s.calls THEN "new" ELSE "end", row |-> s.keys[CallKey[c]],
                    group |-> NoRow, scope |-> NoGroup, plan |-> NoPlan, model |-> model[c]]]
  /\ windowStart = 0 /\ usage = <<>> /\ lastUsage = 0 /\ cleanup = NoCleanup
  /\ held = [c \in Calls |-> {}] /\ peak = [x \in ApiKeys \cup Owners |-> 0] /\ loosened = {}

Others == UNCHANGED <<rows, windowStart, logged, edits>>
Goto(c, pc) == call' = [call EXCEPT ![c].pc = pc]
Refuse(c) == Goto(c, "end")

-----------------------------------------------------------------------------
(* The guard, one statement after the other.                               *)

(* SELECT ... FROM api_keys WHERE token_hash = ? AND enabled = 1: the row  *)
(* every later check of this call uses.                                    *)
ReadKey(c) ==
  LET k == CallKey[c]
  IN  /\ call[c].pc = "new" /\ keyRow[k].alive /\ keyRow[k].enabled
      /\ call' = [call EXCEPT ![c].pc = "policy", ![c].row = keyRow[k]]
      /\ peak' = [x \in DOMAIN peak |->
                    LET now == IF x = k THEN 1 + Cardinality(InProgress(k))
                               ELSE IF x = KeyOwner[k] THEN 1 + Cardinality(OfOwner(x)) ELSE 0
                    IN  IF now > peak[x] THEN now ELSE peak[x]]
      /\ Others

RowsOfKey(k, from) == {i \in DOMAIN usage : usage[i].key = k /\ i > from}
Used(S) == Total(S, [i \in S |-> usage[i].amount])

(* Variant: a quota that is just used up lets one more call pass.          *)
WithinPolicyInclusive(k, row) ==
  /\ row.quota > 0 => Used(RowsOfKey(k, row.quotaFrom)) <= row.quota
  /\ row.rate > 0 => Used(RowsOfKey(k, row.rateFrom) \cap {i \in DOMAIN usage : i > windowStart}) <= row.rate
(* The quota since its reset, and the rate limit since its reset and       *)
(* within its window.                                                      *)
WithinPolicy(k, row) ==
  /\ row.quota > 0 => Used(RowsOfKey(k, row.quotaFrom)) < row.quota
  /\ row.rate > 0 => Used(RowsOfKey(k, row.rateFrom) \cap {i \in DOMAIN usage : i > windowStart}) < row.rate

EnforcePolicy(c) ==
  /\ call[c].pc = "policy"
  /\ IF WithinPolicy(CallKey[c], call[c].row) THEN Goto(c, "owner") ELSE Refuse(c)
  /\ UNCHANGED peak /\ Others

(* SELECT enabled FROM users; with a group, its access is checked next.    *)
CheckOwner(c) ==
  /\ call[c].pc = "owner"
  /\ IF ~ownerRow[KeyOwner[CallKey[c]]].enabled THEN Refuse(c)
     ELSE Goto(c, IF call[c].row.group = NoGroup THEN "quota" ELSE "access")
  /\ UNCHANGED peak /\ Others

(* ensure_user_group_access: the row of the user and the group ...         *)
AccessRow(c) ==
  LET o == KeyOwner[CallKey[c]]  g == call[c].row.group
  IN  /\ call[c].pc = "access"
      /\ IF ~ownerRow[o].enabled \/ ~groupRow[g].enabled THEN Refuse(c)
         ELSE LET open == \/ o \in Administrators
                          \/ (~groupRow[g].subscribers /\ ownerRow[o].allowAll /\ ~groupRow[g].exclusive)
              IN  call' = [call EXCEPT ![c].pc = IF open THEN "quota" ELSE "member", ![c].group = groupRow[g]]
      /\ UNCHANGED peak /\ Others

(* ... and then an active subscription, or the list of allowed groups.     *)
(* Variant: a subscription that has ended still counts.                    *)
MemberEver(c) ==
  LET o == KeyOwner[CallKey[c]]  g == call[c].row.group
  IN  IF call[c].group.subscribers THEN subscription[<<o, g>>].state # "none" ELSE g \in ownerRow[o].allowed
Member(c) ==
  LET o == KeyOwner[CallKey[c]]  g == call[c].row.group
  IN  IF call[c].group.subscribers THEN subscription[<<o, g>>].state = "active" ELSE g \in ownerRow[o].allowed

AccessMember(c) ==
  /\ call[c].pc = "member"
  /\ IF Member(c) THEN Goto(c, "quota") ELSE Refuse(c)
  /\ UNCHANGED peak /\ Others

(* enforce_subscription_quota: the group's own active subscription before  *)
(* a general one ...                                                       *)
ChoosePlan(c) ==
  LET o == KeyOwner[CallKey[c]]
      Active == {s \in {call[c].row.group, NoGroup} : subscription[<<o, s>>].state = "active"}
      own == IF call[c].row.group \in Active THEN call[c].row.group ELSE NoGroup
  IN  /\ call[c].pc = "quota"
      /\ IF Active = {} \/ subscription[<<o, own>>].limit = 0
         THEN Goto(c, IF call[c].row.group = NoGroup THEN "model" ELSE "group")
         ELSE call' = [call EXCEPT ![c].pc = "sum", ![c].scope = own, ![c].plan = subscription[<<o, own>>]]
      /\ UNCHANGED peak /\ Others

(* ... and then the sum of the owner's rows since it started, for a        *)
(* group's subscription those of the keys that are in the group now.       *)
RowsOfPlan(o, scope, from) ==
  {i \in DOMAIN usage : /\ usage[i].owner = o /\ i > from
                        /\ scope # NoGroup => usage[i].key # NoKey /\ keyRow[usage[i].key].group = scope}
CountedRows(c) == RowsOfPlan(KeyOwner[CallKey[c]], call[c].scope, call[c].plan.from)

SumPlan(c) ==
  /\ call[c].pc = "sum"
  /\ IF Used(CountedRows(c)) >= call[c].plan.limit THEN Refuse(c)
     ELSE Goto(c, IF call[c].row.group = NoGroup THEN "model" ELSE "group")
  /\ UNCHANGED peak /\ Others

(* SELECT enabled, allowed_models FROM groups                              *)
ReadGroup(c) ==
  LET g == call[c].row.group
  IN  /\ call[c].pc = "group"
      /\ IF groupRow[g].enabled
         THEN call' = [call EXCEPT ![c].pc = "model", ![c].group = groupRow[g]]
         ELSE Refuse(c)
      /\ UNCHANGED peak /\ Others

(* The list proxy_json compares with: an empty one allows every model, in  *)
(* either row and in the merged list.                                      *)
AllowedModels(c) ==
  LET mine == call[c].row.models
      groups == IF call[c].row.group = NoGroup THEN {} ELSE call[c].group.models
  IN  IF groups = {} THEN mine ELSE IF mine = {} THEN groups ELSE mine \cap groups

ModelPasses(c) ==
  LET m == call[c].model  list == AllowedModels(c)  g == call[c].row.group
  IN  /\ list = {} \/ m \in list
      /\ g = NoGroup \/ {m, MapsTo[m]} \cap groupRow[g].offered # {}

CheckModel(c) ==
  /\ call[c].pc = "model"
  /\ IF ModelPasses(c) THEN Goto(c, "serving") ELSE Refuse(c)
  /\ UNCHANGED peak /\ Others

(* log_usage: the row is refused when the key is gone (foreign key), which *)
(* only logs a warning.                                                    *)
LogUsage(c) ==
  LET k == CallKey[c]
  IN  /\ call[c].pc = "serving" /\ Goto(c, "end")
      /\ IF keyRow[k].alive
         THEN \E a \in Amounts :
                /\ lastUsage' = lastUsage + 1
                /\ usage' = [i \in DOMAIN usage \cup {lastUsage + 1} |->
                               IF i \in DOMAIN usage THEN usage[i]
                               ELSE [key |-> k, owner |-> KeyOwner[k], amount |-> a]]
         ELSE UNCHANGED <<usage, lastUsage>>
      /\ UNCHANGED <<rows, windowStart, cleanup, peak, edits>>

(* The client goes away and the handler is dropped.                        *)
CallDropped(c) ==
  /\ call[c].pc \notin {"new", "end"} /\ Refuse(c)
  /\ UNCHANGED peak /\ Others

-----------------------------------------------------------------------------
(* Edits by owners and administrators, each one statement.                 *)
Edited == edits > 0 /\ edits' = edits - 1 /\ UNCHANGED <<call, peak>>

CanUse(o, g) ==
  \/ o \in Administrators
  \/ IF groupRow[g].subscribers THEN subscription[<<o, g>>].state = "active"
     ELSE g \in ownerRow[o].allowed \/ (ownerRow[o].allowAll /\ ~groupRow[g].exclusive)

(* update_key, by the owner or an administrator, writes each column that   *)
(* was sent in a statement of its own: the model list ...                  *)
EditKeyModels(k) ==
  /\ keyRow[k].alive /\ Edited
  /\ \E ms \in SUBSET Models : keyRow' = [keyRow EXCEPT ![k].models = ms]
  /\ UNCHANGED <<loosened, ownerRow, groupRow, subscription, windowStart, logged>>

(* ... a limit ...                                                         *)
EditKeyLimit(k) ==
  /\ keyRow[k].alive /\ Edited /\ loosened' = loosened \cup {k}
  /\ \E q \in Quotas : \/ keyRow' = [keyRow EXCEPT ![k].quota = q]
                       \/ keyRow' = [keyRow EXCEPT ![k].rate = q]
  /\ UNCHANGED <<ownerRow, groupRow, subscription, windowStart, logged>>

(* ... or the group, which must be enabled and open to the key's owner.    *)
MoveKey(k) ==
  /\ keyRow[k].alive /\ Edited /\ loosened' = loosened \cup {k}
  /\ \E g \in KeyGroups :
       /\ groupRow[g].enabled /\ ownerRow[KeyOwner[k]].enabled /\ CanUse(KeyOwner[k], g)
       /\ keyRow' = [keyRow EXCEPT ![k].group = g]
  /\ UNCHANGED <<ownerRow, groupRow, subscription, windowStart, logged>>

(* enable and disable, alone or in a batch action                          *)
SwitchKey(k) ==
  /\ keyRow[k].alive /\ Edited
  /\ keyRow' = [keyRow EXCEPT ![k].enabled = ~@]
  /\ UNCHANGED <<loosened, ownerRow, groupRow, subscription, windowStart, logged>>

(* reset_quota and reset_rate_limit_usage, alone or in a batch action      *)
ResetFrom == lastUsage
ResetUsage(k) ==
  /\ keyRow[k].alive /\ Edited
  /\ \/ keyRow' = [keyRow EXCEPT ![k].quotaFrom = ResetFrom]
     \/ keyRow' = [keyRow EXCEPT ![k].rateFrom = ResetFrom]
  /\ UNCHANGED <<ownerRow, groupRow, subscription, loosened, windowStart, logged>>

(* DELETE FROM api_keys: the usage rows stay, without their key.           *)
DeleteKey(k) ==
  /\ keyRow[k].alive /\ Edited
  /\ keyRow' = [keyRow EXCEPT ![k].alive = FALSE]
  /\ usage' = [i \in DOMAIN usage |-> IF usage[i].key = k THEN [usage[i] EXCEPT !.key = NoKey] ELSE usage[i]]
  /\ UNCHANGED <<ownerRow, groupRow, subscription, loosened, windowStart, lastUsage, cleanup>>

SwitchOwner(o) ==
  /\ Edited /\ ownerRow' = [ownerRow EXCEPT ![o].enabled = ~@]
  /\ UNCHANGED <<keyRow, groupRow, subscription, loosened, windowStart, logged>>

(* update_user_groups                                                      *)
EditOwnerGroups(o) ==
  /\ Edited
  /\ \E gs \in SUBSET KeyGroups, all \in BOOLEAN :
       ownerRow' = [ownerRow EXCEPT ![o].allowed = gs, ![o].allowAll = all]
  /\ UNCHANGED <<keyRow, groupRow, subscription, loosened, windowStart, logged>>

(* A group with subscriptions stays a subscription group.                  *)
EditGroup(g) ==
  /\ Edited
  /\ \E r \in GroupRow :
       /\ r.offered = groupRow[g].offered
       /\ r.subscribers \/ \A o \in Owners : subscription[<<o, g>>].state = "none"
       /\ groupRow' = [groupRow EXCEPT ![g] = r]
  /\ UNCHANGED <<keyRow, ownerRow, subscription, loosened, windowStart, logged>>

EditChannel(g) ==
  /\ Edited
  /\ \E ms \in SUBSET Models : groupRow' = [groupRow EXCEPT ![g].offered = ms]
  /\ UNCHANGED <<keyRow, ownerRow, subscription, loosened, windowStart, logged>>

(* Assigned, bought or renewed: a new period with a limit of its own.      *)
SubscriptionStarts(o, s) ==
  /\ Edited
  /\ s \in KeyGroups => groupRow[s].subscribers
  /\ \E limit \in Quotas :
       subscription' = [subscription EXCEPT ![<<o, s>>] = [state |-> "active", limit |-> limit, from |-> lastUsage]]
  /\ UNCHANGED <<keyRow, ownerRow, groupRow, loosened, windowStart, logged>>

SubscriptionEnds(o, s) ==
  /\ subscription[<<o, s>>].state = "active" /\ Edited
  /\ subscription' = [subscription EXCEPT ![<<o, s>>].state = "ended"]
  /\ UNCHANGED <<keyRow, ownerRow, groupRow, loosened, windowStart, logged>>

WindowMoves ==
  /\ windowStart < lastUsage /\ windowStart' = windowStart + 1
  /\ UNCHANGED <<rows, logged, call, peak, edits>>

-----------------------------------------------------------------------------
(* Usage clean-up: a preview counts and notes the last id, a confirmation  *)
(* repeats the filter with it.                                             *)
CleanupRows(k, max) == {i \in DOMAIN usage : (k # NoKey => usage[i].key = k) /\ i <= max}

CleanupPreview ==
  /\ ~cleanup.open /\ Edited
  /\ \E k \in ApiKeys \cup {NoKey} :
       LET matched == {i \in DOMAIN usage : k # NoKey => usage[i].key = k}
           last == IF matched = {} THEN 0 ELSE CHOOSE i \in matched : \A j \in matched : j <= i
       IN  cleanup' = [open |-> TRUE, key |-> k, max |-> last, shown |-> matched]
  /\ UNCHANGED <<rows, windowStart, usage, lastUsage>>

CleanupConfirm ==
  /\ cleanup.open /\ cleanup' = NoCleanup
  /\ usage' = [i \in DOMAIN usage \ CleanupRows(cleanup.key, cleanup.max) |-> usage[i]]
  /\ UNCHANGED <<rows, windowStart, lastUsage, call, peak, edits>>

-----------------------------------------------------------------------------
(* What is true of a call's key, owner and group now (history).            *)
True(c) ==
  LET k == CallKey[c]  o == KeyOwner[k]  g == call[c].row.group
  IN  {x \in Conditions \ {"changed"} :
         CASE x = "key" -> keyRow[k].alive /\ keyRow[k].enabled
           [] x = "owner" -> ownerRow[o].enabled
           [] x = "group" -> g = NoGroup \/ groupRow[g].enabled
           [] x = "access" -> g = NoGroup \/ CanUse(o, g)}
KindChanges(c) ==
  call[c].row.group # NoGroup /\ groupRow'[call[c].row.group].subscribers # groupRow[call[c].row.group].subscribers

CallStep ==
  \E c \in Calls :
    \/ ReadKey(c) \/ EnforcePolicy(c) \/ CheckOwner(c) \/ AccessRow(c) \/ AccessMember(c)
    \/ ChoosePlan(c) \/ SumPlan(c) \/ ReadGroup(c) \/ CheckModel(c) \/ LogUsage(c) \/ CallDropped(c)
EditStep ==
  \/ \E k \in ApiKeys : EditKeyModels(k) \/ EditKeyLimit(k) \/ MoveKey(k) \/ SwitchKey(k) \/ ResetUsage(k) \/ DeleteKey(k)
  \/ \E o \in Owners : SwitchOwner(o) \/ EditOwnerGroups(o)
  \/ \E o \in Owners, s \in Scopes : SubscriptionStarts(o, s) \/ SubscriptionEnds(o, s)
  \/ \E g \in KeyGroups : EditGroup(g) \/ EditChannel(g)
  \/ WindowMoves \/ CleanupPreview \/ CleanupConfirm

Remembers ==
  held' = [c \in Calls |->
             IF call'[c].pc = "end" THEN {}
             ELSE IF call[c].pc = "new" THEN IF call'[c].pc = "new" THEN {} ELSE {"key"}
             ELSE held[c] \cup True(c) \cup (IF KindChanges(c) THEN {"changed"} ELSE {})]

AdmissionNext == (CallStep \/ EditStep) /\ Remembers
AdmissionSpec == AdmissionInit /\ [][AdmissionNext]_admissionVars

-----------------------------------------------------------------------------
MaxAmount == CHOOSE a \in Amounts : \A b \in Amounts : b <= a

(* Calls are checked before their usage is known, so a quota may be        *)
(* exceeded, but never by more than what the calls in progress at one      *)
(* moment may use: while a key's limits are not edited, its usage since    *)
(* the reset is below quota + MaxAmount times the most calls it ever had   *)
(* in progress (key_policy::enforce).                                      *)
QuotaOvershoot ==
  \A k \in ApiKeys \ loosened :
    /\ keyRow[k].quota > 0 =>
         Used(RowsOfKey(k, keyRow[k].quotaFrom)) < keyRow[k].quota + MaxAmount * peak[k]
    /\ keyRow[k].rate > 0 =>
         Used(RowsOfKey(k, keyRow[k].rateFrom) \cap {i \in DOMAIN usage : i > windowStart})
           < keyRow[k].rate + MaxAmount * peak[k]

(* The same for a group's subscription and all the calls of its owner      *)
(* (enforce_subscription_quota), as long as no key of the owner is moved.  *)
SubscriptionOvershoot ==
  \A o \in Owners, g \in KeyGroups :
    LET s == subscription[<<o, g>>]
    IN  /\ s.state = "active" /\ s.limit > 0
        /\ \A k \in loosened : KeyOwner[k] # o
        => Used(RowsOfPlan(o, g, s.from)) < s.limit + MaxAmount * peak[o]

(* A call is served only if its key was enabled, its owner was not banned, *)
(* its group was enabled and the owner had access to the group, each at    *)
(* some moment of the call's own checks (api_key_guard); an access check   *)
(* that spans a change of the group's kind is left out.                    *)
CheckedDuringCall ==
  \A c \in Calls :
    call[c].pc = "serving" => {"key", "owner", "group", "access"} \subseteq held[c] \/ "changed" \in held[c]

(* What api_key_guard, enforce and enforce_subscription_quota promise.      *)
PolicySafe == AdmissionTypeOK /\ QuotaOvershoot /\ SubscriptionOvershoot /\ CheckedDuringCall

(* A confirmed clean-up deletes only rows its preview counted              *)
(* (cleanup_confirm).                                                      *)
CleanupDeletesShown ==
  [][\A i \in DOMAIN usage : i \notin DOMAIN usage' => i \in cleanup.shown]_admissionVars

(* A served call's model is in the key's list and in the group's list,     *)
(* each when it is not empty (MIGRATION_STATUS.md).                    *)
ModelAllowed ==
  \A c \in Calls : call[c].pc = "serving" =>
    /\ call[c].row.models # {} => call[c].model \in call[c].row.models
    /\ (call[c].row.group # NoGroup /\ call[c].group.models # {}) => call[c].model \in call[c].group.models
===============================================================================
