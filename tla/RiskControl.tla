------------------------------ MODULE RiskControl ------------------------------
(***************************************************************************)
(* Risk control (risk_control.rs): a gateway call is compared with known   *)
(* hashes and keywords and sent to a moderation service with one of        *)
(* several API keys, whose load ("active") and freezing are rows every     *)
(* call updates; a hit is counted, may ban the call's user, and is logged  *)
(* with its hash.  In pre_block mode the call waits for all of this, in    *)
(* observe mode a spawned task does it.                                    *)
(***************************************************************************)
EXTENDS Integers, FiniteSets

CONSTANTS
  Checked, UserOf, InputOf, \* gateway calls, their users and texts
  ModerationKeys,
  Keyworded,    \* texts that contain a blocked keyword
  Exempt,       \* users who are administrators
  BanThreshold, Retries,
  RiskBudgets   \* bound: the calls that come, edits by administrators, restarts,
                \* dropped calls and failing statements in a behaviour

Users == {UserOf[c] : c \in Checked}
Inputs == {InputOf[c] : c \in Checked}

ASSUME RiskSets == IsFiniteSet(Checked) /\ BanThreshold \in Nat \ {0} /\ Retries \in Nat
ASSUME RiskBudgetsAssumption == 
  RiskBudgets \subseteq [checks : SUBSET Checked, edits : Nat, restarts : Nat, drops : Nat, faults : Nat]

VARIABLES
  mode, modKeys, \* the stored configuration: its mode and API keys
  active, frozen, \* risk_control_api_key_runtime, by key: load, and whether frozen
  release,      \* spawned tasks of dropped guards that are still to run, by key
  check,        \* what each check is doing and has read
  answer,       \* what each gateway call has been told
  enabled,      \* users.enabled
  hits,         \* flagged rows of risk_control_logs, by user
  hashes,       \* risk_control_hashes
  drifted,      \* keys removed, or whose load statement ran for a dropped call,
                \* while the check was under way (history)
  pardoned,     \* users an administrator has unbanned (history)
  known,        \* checks whose text has been a known hash from begin to end (history)
  together,     \* most hits of a user being recorded at once (history)
  riskBudget

load == <<active, frozen, release, drifted>>
record == <<enabled, hits, hashes, pardoned>>
riskVars == <<mode, modKeys, load, check, answer, record, known, together, riskBudget>>

Recording == {"count", "ban", "log", "hash"}
CheckState == [pc : {"new", "known", "choose", "track", "calling", "outcome", "end"} \cup Recording,
               mode : {"off", "observe", "pre_block"}, keys : SUBSET ModerationKeys,
               left : SUBSET (ModerationKeys \X Nat), attempts : Nat, key : ModerationKeys \cup {"none"},
               result : {"none", "flagged", "passed", "freezes", "fails"}]
Fresh == [pc |-> "new", mode |-> "off", keys |-> {}, left |-> {}, attempts |-> 0, key |-> "none",
          result |-> "none"]

RiskTypeOK ==
  /\ mode \in {"off", "observe", "pre_block"} /\ modKeys \subseteq ModerationKeys
  /\ active \in [ModerationKeys -> Nat] /\ frozen \in [ModerationKeys -> BOOLEAN]
  /\ release \in [ModerationKeys -> Nat] /\ drifted \subseteq ModerationKeys
  /\ check \in [Checked -> CheckState] /\ answer \in [Checked -> {"waiting", "served", "blocked", "gone"}]
  /\ enabled \in [Users -> BOOLEAN] /\ hits \in [Users -> 0 .. Cardinality(Checked)]
  /\ hashes \subseteq Inputs /\ pardoned \subseteq Users /\ known \subseteq Checked
  /\ together \in [Users -> 0 .. Cardinality(Checked)]
  /\ riskBudget \in [edits : Nat, restarts : Nat, drops : Nat, faults : Nat]

RiskInit ==
  /\ mode \in {"observe", "pre_block"} /\ modKeys = ModerationKeys
  /\ active = [k \in ModerationKeys |-> 0] /\ frozen = [k \in ModerationKeys |-> FALSE]
  /\ release = [k \in ModerationKeys |-> 0] /\ drifted = {}
  /\ answer = [c \in Checked |-> "waiting"]
  /\ enabled = [u \in Users |-> TRUE] /\ hits = [u \in Users |-> 0]
  /\ hashes = {} /\ pardoned = {} /\ known = {} /\ together = [u \in Users |-> 0]
  /\ \E b \in RiskBudgets :
       /\ riskBudget = [what \in {"edits", "restarts", "drops", "faults"} |-> b[what]]
       /\ check = [c \in Checked |-> [Fresh EXCEPT !.pc = IF c \in b.checks THEN "new" ELSE "end"]]

RiskSpend(what) == riskBudget[what] > 0 /\ riskBudget' = [riskBudget EXCEPT ![what] = @ - 1]
At(c, pc) == check[c].pc = pc
Go(c, pc) == check' = [check EXCEPT ![c].pc = pc]
EndCheck(c, pc) ==
  check' = [check EXCEPT ![c] = [Fresh EXCEPT !.pc = pc, !.mode = check[c].mode]]
Decremented(n) == IF n > 0 THEN n - 1 ELSE 0   \* MAX(active - 1, 0)

(* The call's answer when its check has ended: only pre_block waits for it.*)
Answer(c, what) == answer' = [answer EXCEPT ![c] = IF @ = "waiting" THEN what ELSE @]

(* run_check returns without a hit: also when moderation failed.           *)
Passes(c) == EndCheck(c, "end") /\ Answer(c, "served")

-----------------------------------------------------------------------------
(* inspect: the configuration is read, once for the check; in observe mode *)
(* the call goes on.                                                       *)
Inspect(c) ==
  /\ At(c, "new")
  /\ check' = [check EXCEPT ![c].pc = IF mode = "off" THEN "end" ELSE "known",
                            ![c].mode = mode, ![c].keys = modKeys]
  /\ answer' = [answer EXCEPT ![c] = IF mode = "pre_block" THEN "waiting" ELSE "served"]
  /\ known' = IF InputOf[c] \in hashes THEN known \cup {c} ELSE known
  /\ UNCHANGED <<mode, modKeys, load, record, riskBudget>>

(* run_check: a known hash or a keyword is a hit, otherwise the moderation *)
(* service is asked, if it has keys.                                       *)
NeedsNoModeration(c) == InputOf[c] \in hashes \cup Keyworded

LookUp(c) ==
  /\ At(c, "known")
  /\ IF NeedsNoModeration(c)
     THEN EndCheck(c, "count") /\ UNCHANGED answer
     ELSE IF check[c].keys = {} THEN Passes(c) ELSE Go(c, "choose") /\ UNCHANGED answer
  /\ UNCHANGED <<mode, modKeys, load, record, known, riskBudget>>

(* runtime_rows: the keys that are not frozen, with their loads now.       *)
ChooseKeys(c) ==
  LET left == {<<k, active[k]>> : k \in {k \in check[c].keys : ~frozen[k]}}
  IN  /\ At(c, "choose")
      /\ IF left = {} THEN Passes(c)
         ELSE /\ check' = [check EXCEPT ![c].pc = "track", ![c].left = left, ![c].attempts = Retries + 1]
              /\ UNCHANGED answer
      /\ UNCHANGED <<mode, modKeys, load, record, known, riskBudget>>

(* call_moderation_tracked, with a least loaded of the candidates left     *)
(* (which of several depends on the request's id).                         *)
BeginLoad(c) ==
  \E x \in check[c].left :
    /\ At(c, "track") /\ \A y \in check[c].left : x[2] <= y[2]
    /\ active' = [active EXCEPT ![x[1]] = @ + 1]
    /\ check' = [check EXCEPT ![c].pc = "calling", ![c].key = x[1], ![c].left = @ \ {x},
                              ![c].attempts = @ - 1]
    /\ UNCHANGED <<mode, modKeys, frozen, release, drifted, answer, record, known, riskBudget>>

(* The moderation service answers, with a status that freezes the key, or  *)
(* not at all.                                                             *)
Answers(c) ==
  /\ At(c, "calling")
  /\ \E r \in {"flagged", "passed", "freezes", "fails"} :
       check' = [check EXCEPT ![c].pc = "outcome", ![c].result = r]
  /\ UNCHANGED <<mode, modKeys, load, answer, record, known, riskBudget>>

(* After the outcome: a hit is recorded, a failure tries the next key, and *)
(* a failure of every key lets the call pass.                              *)
AfterOutcome(c) ==
  CASE check[c].result = "flagged" -> EndCheck(c, "count") /\ UNCHANGED answer
    [] check[c].result = "passed" -> Passes(c)
    [] OTHER -> IF check[c].left # {} /\ check[c].attempts > 0
                THEN Go(c, "track") /\ UNCHANGED answer ELSE Passes(c)

(* The outcome's UPDATE: the load goes down, and the key is frozen or not, *)
(* whatever another call has found in the meantime.                        *)
Outcome(c) ==
  /\ At(c, "outcome") /\ AfterOutcome(c)
  /\ active' = [active EXCEPT ![check[c].key] = Decremented(@)]
  /\ frozen' = [frozen EXCEPT ![check[c].key] = check[c].result = "freezes"]
  /\ UNCHANGED <<mode, modKeys, release, drifted, record, known, riskBudget>>

(* The UPDATE fails: the guard stays armed, and its drop spawns a task.    *)
GuardDrops(k) == release' = [release EXCEPT ![k] = @ + 1]

OutcomeFails(c) ==
  /\ At(c, "outcome") /\ AfterOutcome(c) /\ RiskSpend("faults")
  /\ GuardDrops(check[c].key)
  /\ UNCHANGED <<mode, modKeys, active, frozen, drifted, record, known>>

ReleaseLoad(k) ==
  /\ release[k] > 0 /\ release' = [release EXCEPT ![k] = @ - 1]
  /\ active' = [active EXCEPT ![k] = Decremented(@)]
  /\ UNCHANGED <<mode, modKeys, frozen, drifted, check, answer, record, known, riskBudget>>

-----------------------------------------------------------------------------
(* Variant: the hit being recorded is not counted.                         *)
ViolationsBefore(c) == hits[UserOf[c]]
(* record_result: the hits so far are counted, this one included ...       *)
Violations(c) == hits[UserOf[c]] + 1

CountHits(c) ==
  /\ At(c, "count")
  /\ Go(c, IF Violations(c) >= BanThreshold /\ UserOf[c] \notin Exempt THEN "ban" ELSE "log")
  /\ UNCHANGED <<mode, modKeys, load, answer, record, known, riskBudget>>

(* ... the user is banned ...                                              *)
Ban(c) ==
  /\ At(c, "ban") /\ Go(c, "log") /\ enabled' = [enabled EXCEPT ![UserOf[c]] = FALSE]
  /\ UNCHANGED <<mode, modKeys, load, answer, hits, hashes, pardoned, known, riskBudget>>

(* ... the hit is logged, or the INSERT fails and so does the call ...     *)
LogHit(c) ==
  /\ At(c, "log")
  /\ \/ /\ Go(c, "hash") /\ hits' = [hits EXCEPT ![UserOf[c]] = @ + 1]
        /\ UNCHANGED <<answer, riskBudget>>
     \/ EndCheck(c, "end") /\ Answer(c, "blocked") /\ RiskSpend("faults") /\ UNCHANGED hits
  /\ UNCHANGED <<mode, modKeys, load, enabled, hashes, pardoned, known>>

(* ... and its hash is known from now on; the call is refused.             *)
KeepHash(c) ==
  /\ At(c, "hash") /\ EndCheck(c, "end") /\ hashes' = hashes \cup {InputOf[c]} /\ Answer(c, "blocked")
  /\ UNCHANGED <<mode, modKeys, load, enabled, hits, pardoned, known, riskBudget>>

(* The client of a waiting call goes away.  A statement that was on its    *)
(* way to SQLite may have been executed: then the load is never taken back *)
(* ("track"), or is taken back twice ("outcome").                          *)
CheckDropped(c) ==
  /\ check[c].mode = "pre_block" /\ check[c].pc \notin {"new", "end"} /\ RiskSpend("drops")
  /\ EndCheck(c, "end") /\ answer' = [answer EXCEPT ![c] = "gone"]
  /\ \/ IF check[c].pc \in {"calling", "outcome"} THEN GuardDrops(check[c].key) /\ UNCHANGED <<active, frozen, drifted>>
        ELSE UNCHANGED load
     \/ \E x \in check[c].left : /\ At(c, "track") /\ \A y \in check[c].left : x[2] <= y[2]
                                /\ active' = [active EXCEPT ![x[1]] = @ + 1] /\ drifted' = drifted \cup {x[1]}
                                /\ UNCHANGED <<frozen, release>>
     \/ /\ At(c, "outcome") /\ GuardDrops(check[c].key)
        /\ active' = [active EXCEPT ![check[c].key] = Decremented(@)] /\ drifted' = drifted \cup {check[c].key}
        /\ frozen' = [frozen EXCEPT ![check[c].key] = check[c].result = "freezes"]
  /\ UNCHANGED <<mode, modKeys, record, known>>

-----------------------------------------------------------------------------
(* A freeze runs out.                                                      *)
Thaw(k) ==
  /\ frozen[k] /\ frozen' = [frozen EXCEPT ![k] = FALSE]
  /\ UNCHANGED <<mode, modKeys, active, release, drifted, check, answer, record, known, riskBudget>>

(* update_config: the rows of keys that are no longer configured go.       *)
SaveRiskConfig ==
  /\ RiskSpend("edits")
  /\ \E m \in {"off", "observe", "pre_block"}, ks \in SUBSET ModerationKeys :
       /\ m = mode \/ ks = modKeys   \* bound: one of the two in a save
       /\ mode' = m /\ modKeys' = ks
       /\ active' = [k \in ModerationKeys |-> IF k \in modKeys \ ks THEN 0 ELSE active[k]]
       /\ frozen' = [k \in ModerationKeys |-> k \notin modKeys \ ks /\ frozen[k]]
       /\ drifted' = drifted \cup (modKeys \ ks)
  /\ UNCHANGED <<release, check, answer, record, known>>

Unban(u) ==
  /\ RiskSpend("edits") /\ enabled' = [enabled EXCEPT ![u] = TRUE] /\ pardoned' = pardoned \cup {u}
  /\ UNCHANGED <<mode, modKeys, load, check, answer, hits, hashes, known>>

DeleteHash(i) ==
  /\ i \in hashes /\ RiskSpend("edits") /\ hashes' = hashes \ {i}
  /\ known' = {c \in known : InputOf[c] # i}
  /\ UNCHANGED <<mode, modKeys, load, check, answer, enabled, hits, pardoned>>

(* Variant: the loads of the previous process are kept.                    *)
LoadKept == active
(* initialize after a restart: no check survives, and no load is left.     *)
LoadAfterRestart == [k \in ModerationKeys |-> 0]

RiskRestart ==
  /\ RiskSpend("restarts")
  /\ check' = [c \in Checked |-> 
              IF check[c].pc = "new" THEN check[c] ELSE [Fresh EXCEPT !.pc = "end", !.mode = check[c].mode]]
  /\ answer' = [c \in Checked |-> IF check[c].pc \notin {"new", "end"} /\ answer[c] = "waiting" THEN "gone" ELSE answer[c]]
  /\ active' = LoadAfterRestart /\ release' = [k \in ModerationKeys |-> 0] /\ drifted' = {}
  /\ UNCHANGED <<mode, modKeys, frozen, record, known>>

-----------------------------------------------------------------------------
CheckStep(c) ==
  \/ LookUp(c) \/ ChooseKeys(c) \/ BeginLoad(c) \/ Answers(c) \/ Outcome(c) \/ OutcomeFails(c)
  \/ CountHits(c) \/ Ban(c) \/ LogHit(c) \/ KeepHash(c)

RiskNext ==
  /\ \/ \E c \in Checked : CheckStep(c) \/ CheckDropped(c)
     \/ \E k \in ModerationKeys : ReleaseLoad(k) \/ Thaw(k)
     \/ \E u \in Users : Unban(u)
     \/ \E i \in Inputs : DeleteHash(i)
     \/ SaveRiskConfig \/ RiskRestart
     \/ \E c \in Checked : Inspect(c)
  /\ together' = [u \in Users |->
                   LET now == Cardinality({c \in Checked : UserOf[c] = u /\ check'[c].pc \in Recording})
                   IN  IF now > together[u] THEN now ELSE together[u]]

RiskSpec == RiskInit /\ [][RiskNext]_riskVars

-----------------------------------------------------------------------------
InFlight(k) == {c \in Checked : check[c].key = k /\ check[c].pc \in {"calling", "outcome"}}

(* A key's load, by which calls are spread, is the number of its calls in  *)
(* flight and of those whose guard's task is still to run, unless the key  *)
(* was removed or a call was dropped while its statement ran               *)
(* (call_moderation_tracked, KeyLoadGuard, initialize).                    *)
LoadAccounted ==
  \A k \in ModerationKeys \ drifted : active[k] = Cardinality(InFlight(k)) + release[k]

(* Hits are counted before they are logged, so hits recorded at the same   *)
(* moment may not see each other; still a user whose logged hits reach the *)
(* threshold by as many as were ever recorded at once, less one, has been  *)
(* banned (record_result), unless an administrator took that back.         *)
BannedByThreshold ==
  \A u \in Users \ (Exempt \cup pardoned) :
    hits[u] + 1 >= BanThreshold + together[u] /\ hits[u] > 0 => ~enabled[u]

(* In pre_block mode a call is refused when its text has been a known hash *)
(* from the beginning to the end of its check, whatever the moderation     *)
(* service says now (run_check).                                           *)
KnownHashBlocks ==
  \A c \in known : check[c].mode = "pre_block" => answer[c] # "served"

(* Loads, bans and known hashes agree with the calls made (risk_control).  *)
ModerationSafe == RiskTypeOK /\ LoadAccounted /\ BannedByThreshold /\ KnownHashBlocks
===============================================================================
