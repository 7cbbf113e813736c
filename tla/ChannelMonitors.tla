---------------------------- MODULE ChannelMonitors ----------------------------
(***************************************************************************)
(* Channel monitors (channel_monitor.rs): the scheduler, which checks the  *)
(* monitors that are due one after another, run_now beside it, and         *)
(* administrators who edit monitors and templates and apply a template to  *)
(* the monitors that follow it.                                            *)
(*                                                                         *)
(* A request configuration is its API key and its body; the key is the     *)
(* monitor's own and the body may be a template's.                         *)
(***************************************************************************)
EXTENDS Integers, FiniteSets

CONSTANTS
  Monitors,       \* ids of channel_monitors
  Templates,      \* ids of channel_monitor_templates
  Providers,
  Modes,          \* api_mode
  NoTemplate,     \* template_id IS NULL
  Editors,        \* administrators' requests
  Checkers,       \* requests to run a monitor now
  Scanner,        \* the scheduler
  CheckBatch,     \* LIMIT 20
  MonitorBudgets  \* the number of monitors at first, whether enabled; bounds of edits and runs by hand

ASSUME MonitorAssumption ==
  /\ Monitors \subseteq Nat \ {0} /\ Monitors # {} /\ NoTemplate \notin Templates
  /\ \A b \in MonitorBudgets : b.number \in Nat /\ b.on \in BOOLEAN
  /\ Scanner \notin Checkers /\ CheckBatch \in Nat \ {0}

VARIABLES
  monitors,     \* there, on, due, provider, mode, template, key, body (a template's, or 0 its own)
  templates,    \* there, provider, mode, body (a version number)
  listed,       \* ids run_due has listed and not yet checked
  checking,     \* who checks which monitor
  editor,       \* what each administrator's request is doing
  entered,      \* the API key last entered for a monitor (history; 0: never created)
  raced,        \* monitors two requests wrote from the same row (history)
  edited,       \* templates whose api_mode was edited (history)
  monitorBudget

monitorVars == <<monitors, templates, listed, checking, editor, entered, raced, edited, monitorBudget>>

Monitor == [there : BOOLEAN, on : BOOLEAN, due : BOOLEAN, provider : Providers, mode : Modes,
            template : Templates \cup {NoTemplate}, key : Nat, body : Nat]
Template == [there : BOOLEAN, provider : Providers, mode : Modes, body : Nat]
Runs == Checkers \cup {Scanner}
NoMonitor == 0

FirstRow(x, p, m) ==
  [there |-> x <= monitorBudget.number, on |-> monitorBudget.on, due |-> TRUE, provider |-> p, mode |-> m,
   template |-> NoTemplate, key |-> 1, body |-> 0]

MonitorInit ==
  /\ monitorBudget \in MonitorBudgets
  /\ \E p \in Providers, m \in Modes : monitors = [x \in Monitors |-> FirstRow(x, p, m)]
  /\ templates \in [Templates -> {[there |-> TRUE, provider |-> p, mode |-> m, body |-> 1] :
                                    p \in Providers, m \in Modes}]
  /\ listed = {} /\ checking = [r \in Runs |-> NoMonitor]
  /\ editor = [e \in Editors |-> [pc |-> "idle", id |-> NoMonitor, row |-> monitors[CHOOSE x \in Monitors : TRUE]]]
  /\ entered = [x \in Monitors |-> IF monitors[x].there THEN 1 ELSE 0] /\ raced = {} /\ edited = {}

Pays(what) == monitorBudget[what] > 0 /\ monitorBudget' = [monitorBudget EXCEPT ![what] = @ - 1]

-----------------------------------------------------------------------------
(*                               Checking                                  *)

DueMonitors == {x \in Monitors : monitors[x].there /\ monitors[x].on /\ monitors[x].due}

EarlierId(x, y) == x < y

(* run_due, every 15 seconds once the last one has ended, while the        *)
(* channel_monitor_enabled setting is on: ORDER BY id.                     *)
ListDue ==
  /\ listed = {} /\ checking[Scanner] = NoMonitor /\ DueMonitors # {}
  /\ listed' = {x \in DueMonitors : Cardinality({y \in DueMonitors : EarlierId(y, x)}) < CheckBatch}
  /\ UNCHANGED <<monitors, templates, checking, editor, entered, raced, edited, monitorBudget>>

(* run_monitor: the monitor and its configuration are read, and used for   *)
(* the ping (5 seconds at most) and each model (30 seconds at most).       *)
BeginCheck(r, x) ==
  /\ checking[r] = NoMonitor
  /\ checking' = IF monitors[x].there THEN [checking EXCEPT ![r] = x] ELSE checking
  /\ UNCHANGED <<monitors, templates, editor, entered, raced, edited>>

ScannerBegins ==
  \E x \in listed :
    /\ \A y \in listed : x <= y
    /\ listed' = listed \ {x} /\ BeginCheck(Scanner, x) /\ UNCHANGED monitorBudget

CheckerBegins(r, x) == r # Scanner /\ BeginCheck(r, x) /\ Pays("byHand") /\ UNCHANGED listed

(* One transaction: the history rows and last_checked_at, or nothing when  *)
(* the monitor was deleted meanwhile.                                      *)
StoreCheck(r) ==
  LET x == checking[r] IN
  /\ x # NoMonitor
  /\ monitors' = [monitors EXCEPT ![x].due = @ /\ ~monitors[x].there]
  /\ checking' = [checking EXCEPT ![r] = NoMonitor]
  /\ UNCHANGED <<templates, listed, editor, entered, raced, edited, monitorBudget>>

(* Its interval and jitter have passed.                                    *)
ComesDue(x) ==
  /\ monitors[x].there /\ ~monitors[x].due
  /\ monitors' = [monitors EXCEPT ![x].due = TRUE]
  /\ UNCHANGED <<templates, listed, checking, editor, entered, raced, edited, monitorBudget>>

-----------------------------------------------------------------------------
(*                                Editing                                  *)

Working(e, pc, x, row) == editor' = [editor EXCEPT ![e] = [pc |-> pc, id |-> x, row |-> row]]

Done(e) == editor' = [editor EXCEPT ![e].pc = "idle", ![e].id = NoMonitor]

(* Another request that has read the row will write over this one's UPDATE.*)
ReadBy(others, x) == \E f \in others : editor[f].pc # "idle" /\ editor[f].id = x
Races(e, x) == raced' = IF ReadBy(Editors \ {e}, x) THEN raced \cup {x} ELSE raced

(* ensure_template_compatible                                              *)
Compatible(t, provider, mode) ==
  t # NoTemplate => templates[t].there /\ templates[t].provider = provider /\ templates[t].mode = mode

FollowsTemplate(new, old) == Compatible(new.template, new.provider, new.mode)

BodyOf(t) == IF t = NoTemplate THEN 0 ELSE templates[t].body

(* update: the row is read, what was not given keeps what it had, and the  *)
(* template is compared, and taken over when it was given.                 *)
ReadForUpdate(e, x, provider, mode, template, key) ==
  LET old == monitors[x]
      new == [old EXCEPT !.provider = provider, !.mode = mode, !.template = template, !.key = key,
                         !.body = IF template = old.template THEN @ ELSE BodyOf(template)] IN
  /\ editor[e].pc = "idle" /\ Pays("edits") /\ old.there
  /\ IF FollowsTemplate(new, old) THEN Working(e, "update", x, new) ELSE UNCHANGED editor
  /\ UNCHANGED <<monitors, templates, listed, checking, entered, raced, edited>>

(* Every column is written; the statement fails when the template is gone. *)
WriteUpdate(e) ==
  LET x == editor[e].id
      new == editor[e].row
      written == monitors[x].there /\ (new.template = NoTemplate \/ templates[new.template].there) IN
  /\ editor[e].pc = "update"
  /\ IF written
     THEN /\ monitors' = [monitors EXCEPT ![x] = [new EXCEPT !.due = monitors[x].due]]
          /\ entered' = [entered EXCEPT ![x] = new.key] /\ Races(e, x)
     ELSE UNCHANGED <<monitors, entered, raced>>
  /\ Done(e)
  /\ UNCHANGED <<templates, listed, checking, edited, monitorBudget>>

(* create, with a template or without                                      *)
CreateMonitor(x, on, template) ==
  LET new == [monitors[x] EXCEPT !.there = TRUE, !.on = on, !.template = template, !.body = BodyOf(template)] IN
  /\ Pays("rows") /\ entered[x] = 0 /\ Compatible(template, new.provider, new.mode)
  /\ monitors' = [monitors EXCEPT ![x] = new] /\ entered' = [entered EXCEPT ![x] = new.key]
  /\ UNCHANGED <<templates, listed, checking, editor, raced, edited>>

(* duplicate: the row is copied, template and all, and switched off.       *)
DuplicateMonitor(x, y) ==
  /\ Pays("rows") /\ entered[x] = 0 /\ monitors[y].there
  /\ monitors' = [monitors EXCEPT ![x] = [monitors[y] EXCEPT !.on = FALSE, !.due = TRUE]]
  /\ entered' = [entered EXCEPT ![x] = monitors[y].key]
  /\ UNCHANGED <<templates, listed, checking, editor, raced, edited>>

(* update with nothing but enabled: a template edited since refuses it.    *)
SwitchMonitor(x) ==
  /\ Pays("rows") /\ monitors[x].there /\ ~ReadBy(Editors, x)
  /\ FollowsTemplate(monitors[x], monitors[x])
  /\ monitors' = [monitors EXCEPT ![x].on = ~@]
  /\ UNCHANGED <<templates, listed, checking, editor, entered, raced, edited>>

(* Variant: the whole configuration is the template's.                     *)
TemplateOnly(row, t) == [row EXCEPT !.key = 0, !.body = templates[t].body]

(* apply_template_config: headers and body, not the key.                   *)
WithTemplate(row, t) == [row EXCEPT !.body = templates[t].body]

(* apply_template: the monitors are read and their new configurations      *)
(* encrypted, those that do not follow the template passed over.           *)
ReadForApply(e, x, t) ==
  LET row == monitors[x] IN
  /\ editor[e].pc = "idle" /\ Pays("applies") /\ templates[t].there /\ row.there
  /\ IF row.template = t /\ Compatible(t, row.provider, row.mode)
     THEN Working(e, "apply", x, WithTemplate(row, t)) ELSE UNCHANGED editor
  /\ UNCHANGED <<monitors, templates, listed, checking, entered, raced, edited>>

(* WHERE template_id = ? AND provider = ? AND api_mode = ?: not the        *)
(* configuration, which may have been edited since it was read.            *)
WriteApply(e) ==
  LET x == editor[e].id
      new == editor[e].row IN
  /\ editor[e].pc = "apply"
  /\ IF /\ monitors[x].there /\ monitors[x].template = new.template
        /\ monitors[x].provider = new.provider /\ monitors[x].mode = new.mode
     THEN monitors' = [monitors EXCEPT ![x].key = new.key, ![x].body = new.body] /\ Races(e, x)
     ELSE UNCHANGED <<monitors, raced>>
  /\ Done(e)
  /\ UNCHANGED <<templates, listed, checking, entered, edited, monitorBudget>>

(* update_template: its provider cannot be edited, its api_mode can.       *)
UpdateTemplate(t, mode) ==
  /\ Pays("templates") /\ templates[t].there
  /\ templates' = [templates EXCEPT ![t].mode = mode, ![t].body = @ + 1]
  /\ edited' = edited \cup {t}
  /\ UNCHANGED <<monitors, listed, checking, editor, entered, raced>>

(* Its monitors go on without one (ON DELETE SET NULL).                    *)
DeleteTemplate(t) ==
  /\ Pays("templates") /\ templates[t].there
  /\ templates' = [templates EXCEPT ![t].there = FALSE]
  /\ monitors' = [x \in Monitors |-> IF monitors[x].template = t
                                     THEN [monitors[x] EXCEPT !.template = NoTemplate] ELSE monitors[x]]
  /\ UNCHANGED <<listed, checking, editor, entered, raced, edited>>

DeleteMonitor(x) ==
  /\ Pays("rows") /\ monitors[x].there
  /\ monitors' = [monitors EXCEPT ![x].there = FALSE]
  /\ UNCHANGED <<templates, listed, checking, editor, entered, raced, edited>>

ScannerStep == ListDue \/ ScannerBegins \/ StoreCheck(Scanner)

MonitorNext ==
  \/ ScannerStep
  \/ \E r \in Checkers : StoreCheck(r) \/ \E x \in Monitors : CheckerBegins(r, x)
  \/ \E x \in Monitors : ComesDue(x) \/ DeleteMonitor(x) \/ SwitchMonitor(x)
  \/ \E x, y \in Monitors : DuplicateMonitor(x, y)
  \/ \E x \in Monitors, on \in BOOLEAN, t \in Templates \cup {NoTemplate} : CreateMonitor(x, on, t)
  \/ \E e \in Editors :
       \/ WriteUpdate(e) \/ WriteApply(e)
       \/ \E x \in Monitors, t \in Templates : ReadForApply(e, x, t)
       \/ \E x \in Monitors, p \in Providers, m \in Modes, t \in Templates \cup {NoTemplate}, k \in {1, 2} :
            ReadForUpdate(e, x, p, m, t, k)
  \/ \E t \in Templates : DeleteTemplate(t) \/ \E m \in Modes : UpdateTemplate(t, m)

MonitorSpec == MonitorInit /\ [][MonitorNext]_monitorVars

-----------------------------------------------------------------------------
(*                              Properties                                 *)

(* Types; and no monitor is checked that nobody listed or asked for.       *)
MonitorsTypeOK ==
  /\ monitors \in [Monitors -> Monitor] /\ templates \in [Templates -> Template]
  /\ listed \subseteq Monitors /\ checking \in [Runs -> Monitors \cup {NoMonitor}]
  /\ \A e \in Editors : /\ editor[e].pc \in {"idle", "update", "apply"} /\ editor[e].row \in Monitor
                        /\ editor[e].id \in Monitors \cup {NoMonitor}
                        /\ editor[e].pc = "idle" <=> editor[e].id = NoMonitor
  /\ entered \in [Monitors -> Nat] /\ raced \subseteq Monitors /\ edited \subseteq Templates

(* A monitor that follows a template is of its provider, and of its api    *)
(* mode until the template's is edited: for every order of edits of the    *)
(* monitor, of the template and deletions.                                 *)
TemplateFits ==
  \A x \in Monitors : (monitors[x].there /\ monitors[x].template # NoTemplate) =>
    LET t == templates[monitors[x].template] IN
    /\ t.there /\ t.provider = monitors[x].provider
    /\ t.mode = monitors[x].mode \/ monitors[x].template \in edited

(* The API key an administrator entered stays the monitor's, whatever      *)
(* templates are applied to it, unless another request had read the row    *)
(* before and wrote over it (apply_template's guard does not see it).      *)
EnteredKeyKept == \A x \in Monitors : monitors[x].there /\ x \notin raced => monitors[x].key = entered[x]

(* Monitors and templates agree after every order of edits.                *)
MonitorsSafe == MonitorsTypeOK /\ TemplateFits /\ EnteredKeyKept

(* The first LIMIT monitors, by id, are checked again and again, however   *)
(* slow the checks are (each has a timeout): with more monitors than that, *)
(* the later ones may starve.                                              *)
FirstAreChecked ==
  \A x \in Monitors \cap (1 .. CheckBatch) : x \in DueMonitors ~> x \notin DueMonitors
=============================================================================
