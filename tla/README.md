# Verification of sub2api_mini

TLA+ models of the stateful parts of sub2api_mini, a single-process multi-user
AI gateway (Rust, Axum, tokio with two worker threads, SQLite), checked with
TLC on small instances and proved with TLAPS for every value of the constants
where the prover can follow.

* [How the system runs](#how-the-system-runs)
* [Inventory](#inventory)
* [Conventions of the models](#conventions-of-the-models)
* The modules: [batch images](#batch-images), [gateway](#gateway),
  [billing](#billing), [what a call passes](#what-a-call-passes),
  [the console](#the-console), [background loops](#background-loops)
* [The runs](#the-runs)
* [Disagreements found](#disagreements-found)
* [What is proved](#what-is-proved) and [what is only model-checked](#what-is-only-model-checked)
* [Not modelled](#not-modelled) and [plan](#plan)

## How the system runs

One process serves everything. Concurrency comes from

* HTTP handlers, one tokio task each; a handler whose client disconnects is
  dropped at the `await` it has reached;
* background tasks: the batch-image scheduler (every 10 s), the renewal
  scheduler (60 s), scheduled account tests, channel monitors, operations
  alerts, rollups and reports, and one task per prompt-audit job;
* the SQLite database behind a pool. A statement is atomic, a `BEGIN`
  transaction is serialised with the others, and one that fails or is dropped
  is rolled back. What a handler has read *before* its transaction may be out
  of date inside it: most of the hazards of this code are of that shape;
* state in memory: scheduler snapshots, semaphores, refresh locks, the model
  cache, clients and tokens kept for reuse, login flows, a copy of the
  settings. A restart loses it, and the database survives.

## Inventory

| Component | State | Operations | Hard behaviour | What makes it correct | Modelled in |
|---|---|---|---|---|---|
| Batch images (`batch_images.rs`) | jobs, items, `frozen_balance_cents`, balance adjustments, files, the provider's batch, provider rows, their access tokens | submit, poll, index, settle, cancel, download, delete outputs, delete record, clean up, recover; edit a provider | scheduler, canceller and submitter work on the same job; dropped clients; restarts; two archives built at once | a hold is taken once and resolved once; the charge equals the images delivered; statuses follow the pipeline; a file is its item's | `BatchImages`, `HoldLedger`, `BatchFiles`, `ImageProviders` |
| Account scheduler and gateway loop (`state.rs`, `gateway.rs`) | account rows and their 250 ms cache, rotation cursors, semaphores, cooldowns | select, acquire, call, retry, cool down, clear, stream, edit an account | semaphores replaced while in use, stale rows, dropped streams | limits hold, permits come back, retries differ, groups are kept apart | `Gateway` |
| Answers (`gateway.rs`, `error_passthrough.rs`) | the open response, its rest of a line, the usage read so far | read a stream in pieces, convert, rewrite an error, log | pieces cut anywhere, clients that leave, broken streams | what is told and charged does not depend on the cuts; failures are free | `Responses` |
| Pricing (`channels.rs`, `gateway.rs`, `groups.rs`) | channels, prices, intervals, multipliers | cost of a call; edits | prices that overlap, rows read in two statements | one price fits, the amount is the one of an edition | `Pricing` |
| Model lists (`gateway.rs`) | cache of lists, settings in memory | list, catalogue, forget | a list fetched with former credentials, partial failure | a list is whole, of today's accounts | `ModelLists` |
| Orders and balance (`orders.rs`, `admin_users.rs`) | balances, orders, adjustments | purchase, refund, adjust, switch, delete user | two transactions decided on the same balance | no overdraft, no cent lost | `Billing` |
| Redeem codes (`redeem.rs`) | codes, redemptions | redeem, update | races for the last use | uses = redemptions, within the limit | `Billing` |
| Subscriptions (`subscriptions.rs`) | subscriptions, renewal attempts | assign, cancel, auto-renew, retry, scheduled renewal | owner and scheduler renew the same period; refunds and cancellations in between | a period is paid once; one active subscription in a scope | `Billing` |
| Key policy, groups, quotas (`key_policy.rs`, `groups.rs`, `gateway.rs`) | keys, groups, usage rows | every check before a call; the usage row after it; edits | check and act far apart | a quota is overshot by calls in flight only; each check held at some moment of the call | `Admission` |
| Risk control (`risk_control.rs`) | moderation keys in use, hits, hashes, bans | inspect, moderate, record, ban, unban | keys shared by concurrent calls; failing statements | load given back, nothing blocked passes, ban at the threshold | `RiskControl` |
| Prompt audit (`prompt_audit.rs`, `state.rs`) | configuration and its version, jobs, events, worker slots | inspect, execute, fail, delete, initialise | capacity counted before insertion; slots that change size; restart | no lost slot, no lost verdict, no unseen deletion | `PromptAudit` |
| OAuth refresh (`oauth.rs`, `claude_oauth.rs`) | stored credentials, per-account locks, the provider's valid token | refresh, forced refresh, re-authorise | rotation at the provider and the write of the new token are two steps | the lock is given back, the valid token is not lost but by a lost handler | `OAuthRefresh` |
| Addresses and mailed codes (`auth.rs`, `user.rs`, `mail.rs`) | users, challenges, pending changes | register, reset, change, remove | mail that arrives late or is reported lost; overlapping requests | an address verified was reached; a code is used once | `EmailAddresses`, `MailDialog` |
| Sessions, second factor (`auth.rs`, `totp.rs`) | sessions, challenges, secrets, recovery codes | sign in, answer, set up, disable, change password | requests that hold what they read | no session without the proof asked for | `Sessions` |
| Proxies, TLS profiles, accounts (`proxies.rs`, `tls_fingerprint.rs`, `admin.rs`, `account_data.rs`, `crs_sync.rs`) | rows, fallbacks, the clients kept | create, edit, delete, import, synchronise; find a client | check and write in two statements; a client built from a former row | a route ends, a client is of today's row, a shadow follows its parent | `Proxies`, `Accounts` |
| Scheduled tests (`scheduled_tests.rs`) | plans, results, cooldowns | claim, probe, record; edit | overlapping claims, a plan deleted while it runs | one run per due time | `AccountTests` |
| Channel monitors (`channel_monitor.rs`) | monitors, templates, checks | claim, check, record; apply a template | rows written back whole | a monitor keeps the key entered last | `ChannelMonitors` |
| Alerts (`ops.rs`) | rules, events, cooldowns | evaluate, acknowledge, resolve | evaluate_now beside the scheduler | one open event per rule, a cooldown apart | `OpsAlerts` |
| Rollups, reports (`ops.rs`) | rollups, sent reports, retention | roll up, report, clean up, overview | windows that cut a minute, rounds that are late | the trend is exact, a report is mailed once | `OpsReports` |
| Usage clean-up (`usage.rs`) | usage rows, previews | preview, confirm | the filter may match other rows at confirmation | what is deleted is what was shown | `Admission` |
| Content, announcements, configuration, encryption, web console | rows, files | create, update, list | none beyond the database's constraints | | not modelled |

How they interact: a gateway call passes the key policy, risk control and the
prompt audit, selects an account (which may refresh its OAuth token through its
proxy), reads the answer and writes a usage row, with its price, that quotas,
dashboards and alerts sum up. Billing creates the subscriptions whose quotas the
gateway enforces. Batch images draw on the same balance as billing. The two
never write each other's columns but for `balance_cents`, which both change by
relative, guarded statements (`balance_cents = balance_cents - ?`
`WHERE balance_cents >= ?`), so each sees the other as an adjustment: the
batch-image model shares the balance with an administrator who adjusts it.

## Conventions of the models

* An action is what the code does between two points where another task can
  run: two awaits, or two statements outside a transaction. A transaction is
  one action.
* A handler that can be lost has an action for it (`ClientGone`, `CallDropped`,
  `RefresherDropped`, ...), and a restart (`Crash`, `RestartAudit`, ...) loses
  what is in memory and keeps the rows.
* Time is nondeterminism: "the period has ended", "300 seconds have passed",
  "the snapshot has expired" are steps that may happen at any moment. Where a
  property is about how long something takes (`OpsAlerts`, `OpsReports`,
  `ModelLists`, `ImageProviders`) time is a counter of small units.
* Operators marked *Variant* are plausible wrong versions of a definition
  (a dropped guard, a stale read). They are not used by any specification:
  substituting one shows that the property it names can fail.
* Every bound is a CONSTANT with *bound* in its comment. Some modules have one
  constant for all of theirs, a set of records (`AuditBudgets`,
  `TestBudgets`, ...): a behaviour starts with one of them and spends it, so
  that one run looks at many edits without a restart, at a restart without
  many edits, and so on. Theorems hold for all values of the bounds.
* Components that share no variable are composed in one MC module with a
  variable `focus`, chosen initially, that says whose steps occur; the others
  stay in an initial state. The properties are invariants or action properties
  of one part each, so the behaviours in which the other parts stand still show
  every one of its steps: `focus` avoids a product of state spaces in which
  nothing new can happen. `AdmissionMC`, `ConsoleMC` and `UpkeepMC` are such
  sums. In the same modules a few initial states are left out for the parts
  that are not in focus.
* A module's safety is one conjunction of named parts (`PolicySafe`,
  `FilesSafe`, ...); each part has a comment of its own, and a run's mutant
  breaks one of them.

## Batch images

`BatchImages.tla` has the life of a job: the submit handler
(`SubmitFind` .. `SubmitRecord`, one action for each statement or provider
call), the scheduler task with a program counter through
`process_pending_jobs` and `process_job` (`SchedScan` .. `SchedMark`), the owner's
cancel and delete handlers (`CancelStart` .. `CancelFinish`, `PurgeStart` ..
`PurgeMark`, `DeleteRecord`), the administrator (`AdjustBalance`,
`DisableUser`, `UpdateProvider`), and the world (`RemoteStep`: the provider's
batch advances; `ClientGone`; `Crash`). Money is kept in cents with the code's
rounding (`RoundedBps`). `HoldLedger.tla` is the abstract promise: money is
available, held, captured or released, a hold is resolved once; `BatchImages`
implements it by a refinement mapping. `Totals.tla` is the sum of a column over
a finite set, defined by a cardinality so that it can be proved about.

Fairness (`FairSpec`): a submit handler that can step does, the scheduler task
does (the loop is never cancelled), the provider finishes a batch, and 300
seconds pass. Owners, administrators, disconnects and restarts are not fair;
restarts are bounded by `MaxCrashes`. The provider's calls return: a call that
never does (the HTTP client has no total timeout) stops the whole scheduler task.

One job with every actor is enough for the statuses, because a job's status
depends on no other job's. Jobs meet in the columns of their user and in the
provider's count, and there the instance is not what the claim rests on: the
money theorems hold for any number of jobs. Two jobs are run where they meet
otherwise, in two submissions with one Idempotency-Key (`Keyed` in `ConsoleMC`).

`BatchFiles.tla` is the same job's images: how a request is expanded into custom
ids (`SubmitBatch`), the answer fetched part by part and indexed line by line
(`FetchPart` .. `IndexCommit`), downloads and archives
(`DownloadStart` .. `ArchiveRename` .. `DownloadLeave`) beside removal
(`RemovalStart` .. `MarkRemoved`), and restarts. It says that rows match the
provider's answer, a file is its own item's, what was served is whole, and a
download fails only in the cases the code allows. The model shows where those
cases are: a custom id with `..` is accepted and charged, and
`validate_stored_filename` then refuses its file and with it the job's archive;
two builds of one archive share `download.zip.part`; a job cancelled while it
is indexed gets its items all the same. `ServedUnlessRaced` names each.
The count of errors and the failure of an index are one step here (two in
`BatchImages`); a hash in a file's name is taken as injective.

`ImageProviders.tla` is a provider's row, the routing a job copies from it, and
the access tokens of Vertex: editors who read and write back (`UpdateRead`,
`UpdateWrite`), requests that look for a token, exchange and store it
(`UseCredential`, `TokenIssued`, `TokenStored`). A write-back may lose a
credential entered meanwhile; `CredentialsKept` says that nothing else does.
One provider suffices, as rows and tokens are kept by provider.
`TokenFloor` and `TokenMargin` (360 s and 300 s, `batch_images.rs:922`) are
scaled: only their order and difference matter.

## Gateway

`Gateway.tla` follows one request through the loop of `proxy_json`: reading the
rows (cached for 250 ms per group, `RowsCached`, `RowsLoad`, `RowsStore`), the priority levels and the
rotating cursor (`NextLevel`, `AtPlace`), the account's semaphore (`LookUp`,
`Acquire`), the token refresh, the upstream call, cooldown and invalidation,
the streamed body which holds the permit (`BodyEnds`, `ClientGone`). The
administrator edits an account (`EditAccount`) and invalidates the snapshots
later (`EditInvalidates`) or is dropped before that (`EditDropped`).
Semaphores are objects with names from `SemIds`: an edit of the limit makes
`LookUp` replace the entry's object while requests still hold the old one. A
name that nothing refers to may be reused, which is why the assumption
`Cardinality(SemIds) > Cardinality(Accounts) + Cardinality(Requests)` loses no
behaviour. The runtime has two threads, so looking a semaphore up and acquiring
from it are separate steps.

Fairness is on the steps a handler takes by itself (`Selecting`, `Attempting`);
the steps of `Upstream`, which wait for others, have none. The client of an
account without proxy and TLS profile has a connect timeout only
(`state.rs:44-48`), so a silent upstream keeps its request in `call` or
`respond`, and a silent token endpoint in `refresh` (`oauth.rs:448`, `463`), as
it does every request that waits behind it for the account's refresh lock
(`oauth.rs:365`). `RequestEnds` excepts the requests that stay in one of these
for ever and no others. Deadlock is not checked because finished requests stop.

A key without a group is a group of all accounts. Left out: the priority edits
and proxies (an account whose proxy cannot be used is not `usable`). The
refresh is `OAuthRefresh`'s, the answer `Responses`', the models handler, which
runs the same loop, `ModelLists`'.

## Billing

`Billing.tla`: each handler is a step that reads rows and a step that is its
transaction, with the snapshot in `job` (`PurchaseRead`/`PurchaseCommit`,
`AssignRead`/..., `RedeemRead`/..., `AutoRead`/..., `RenewRead`/`RenewCommit`).
`RenewCommit` has the four ends of `renew_subscription`: the period is already
paid for, the attempt is refused and expires the subscription, it is paid, or
the transaction is rolled back because the period has changed or another
subscription is active in the scope. The scheduler (`ProcessDueRenewals`,
`ScheduledRenewal`, `ScheduledSkip`) takes what is due and goes through it one
by one. Administrators refund, cancel, adjust, switch and delete users, edit
plans, groups and codes; `MaxEdits` bounds them.

`ended` merges the two clocks of the code (`datetime('now')` in SQL, which has
seconds, and `Utc::now()`): the difference of less than a second only moves a
step that may happen at any time. `LIMIT 100` of the scheduler's query is never
reached. Only successful renewal attempts are kept, as nothing reads the others
but the console.

Fairness is on the scheduler's steps only: its task runs every 60 seconds
until the process ends. Deadlock is not checked, because users need do nothing.

## What a call passes

`Admission.tla` is `api_key_guard` and the checks of `proxy_json`, a statement
each: the key's row (`ReadKey`), its quota and rate limit over usage rows
(`EnforcePolicy`), the owner, the group and the membership (`CheckOwner`,
`AccessRow`, `AccessMember`), the subscription (`ChoosePlan`, `SumPlan`), the
model lists (`ReadGroup`, `CheckModel`), and the usage row after the call
(`LogUsage`). Edits of every row in between are single statements, as
`update_key` writes each column with one. Usage rows are numbered by their
AUTOINCREMENT, and "since" an instant is "after" the last row before it.
A clean-up of usage rows is a preview and a confirmation. `held`, `peak` and
`loosened` are history: which conditions held at a moment of the call, and how
many calls a key or an owner ever had in progress at once. `QuotaOvershoot`
says that usage stays below quota + `MaxAmount` times that number.
Not modelled: a key's expiry and IP lists. Deleting a key during a call loses
the call's usage row (the foreign key refuses it and only a warning is logged),
and moving a key charges its older usage to the new group's subscription: the
model does both, and the property says which calls it is about.

`RiskControl.tla`: hashes, keywords, the choice of a moderation key by load
(`ChooseKeys`), the load and the freeze written by separate statements, the hit,
the ban at the threshold, the log. A handler dropped while its load statement
runs makes the load drift until a restart; a failed moderation lets the prompt
pass and a failed database does not. Sampling, model and group scopes, records
of passes and the window of hits are left out.

`PromptAudit.tla` with the worker slots of `state.rs` (`DynamicSlots`):
capacity count, insertion, the task (slot, claim, guard, event, finish), the
request that waits for it in blocking mode, saves of the configuration with
their version, deletion by id and by preview, restart. A claim that SQLite
refuses leaves its job queued until a restart; that is in the model. The
guards' protocol and retention are not.

`OAuthRefresh.tla`: `refresh_if_needed` and the forced refresh, under the
account's lock, with the re-read, the provider's rotation and the UPDATE as
steps; console refresh, re-authorisation and its callback, pasted credentials,
edits (which write back the credentials they decrypted), deletion, shadows that
use their parent's credentials, dropped handlers. The provider may rotate or
not. `GrantKept` names every way in which the valid token can be lost: the
request that carries it is dropped, or somebody wrote credentials meanwhile.

`Responses.tla` with `Pricing.tla`: an answer's pieces, the parser that splits
them into events, the translation, the usage merged from events, the error that
a rule rewrites, and the price of what was read: the channel (`ChannelOf`, by
the order of the code), the mapping, the price and its interval, the
multipliers, while channels, groups and rates are edited. An event is a data
line and the empty line after it, cut anywhere. A failed call whose status a
rule turns below 400 is charged (request mode), and so is a redirection: the
upstream's clients do not follow it (`redirect::Policy::none`) and any status
below 400 is logged as a success, though the account gave no answer (its status
is none of 200 to 299). `FailuresAreFree` says so and that nothing else is.
`AdmissionMC` has a 302 among its bodies. Channel saves renumber prices, so a price row and its
interval can be of different editions: the model reads them in two steps.
Prices and rates are small numbers with `Scale` for 1,000,000.

`CallGuards` states what the first three promise together, `AdmissionMC` sums
the five parts. Refreshers are symmetric (`SYMMETRY`): no other set's elements
are told apart from them, and the run's action property does not mention them.

## The console

`ConsoleMC` sums what users and administrators do there: redeem codes
(`Billing`), the eight modules below, and two submissions with one key.
`Console.tla` states what six of the eight promise together (`ConsoleSafe`,
`ConsoleKeeps`); proxies and accounts have `RoutesSafe`.

`Proxies.tla` and `Accounts.tla`: proxies, fallbacks, TLS profiles and the
clients kept for a route; creation, edits, bulk edits, copies, Spark shadows,
import and synchronisation of accounts. Each request is its statements, so
`NothingSnatched` and `NoFallbackCycle` have to say what two of them at once
can do: two fallbacks updated at once close a circle (the check,
"cycle-safe" in `MIGRATION_STATUS.md:116`, reads before either writes), and an
account given a proxy between the count of its references and its deletion
goes direct. `ShadowFollowsParent` excepts a request that failed or was dropped
between its statements. Names of rows and keys of packages are left out: a URL
stands for itself.

`EmailAddresses.tla`: asking for a code (the cooldown looked up, the code
replaced, the message mailed, or withdrawn if delivery fails), registering,
resetting a password, changing and removing an address, and the administrator's
edits. Delivery is reported and done independently (`Deliver`). Overlapping
requests pass the cooldown together, and a code withdrawn may have arrived;
`VerifiedWasReached`, `OneCodeCounts` and `OneMessageAMinute` hold in spite of it.

`MailDialog.tla`: the dialogue with the SMTP server command by command, with
STARTTLS, a timeout anywhere, and saves of the settings. A message is reported
as sent only if it was accepted, the password is only sent over TLS.

`Sessions.tla`: sign in, challenge, code, recovery code, setup, enabling,
disabling, change and reset of a password, logout, start-up (`db::connect`).
`SessionsFollowPassword` excepts sign-ins under way when the password changes
(`late`) and the named cut-off requests; `SecondFactorProved` that no session
is given without the second factor its user had.

`ModelLists.tla`: the models handler and the catalogue over cached lists, four
ways to change credentials that clear different caches, and the settings in the
database and in memory. `raced` marks the one gap found: `replace_oauth_credentials`
empties the cache before it invalidates the scheduler, so a fetch with the old
credentials may fit in between.

`BatchFiles` and `ImageProviders` are described [above](#batch-images).

## Background loops

`UpkeepMC` sums the four modules, with their fairness.

`AccountTests.tla`: the scan of due plans, two lanes that claim and run them,
runs by hand, edits, deletion, and the account's cooldown that a success
clears. `DueRunOnce` and `ResultsBounded` hold for every order of claims;
`GoneChangesNothing` says that a run outliving its plan changes nothing.
Fairness: the scan and a lane that can step do; a probe need not end, so
`DueWaitsForProbe` speaks of plans while no probe is out.

`ChannelMonitors.tla`: the scheduler's checks one after the other, checks by
hand, edits by read and write-back, templates and their application.
`EnteredKeyKept`: a monitor uses the API key entered last unless two requests
wrote it from one row. Monitors beyond the first twenty by id may wait for ever
while checks are slow, so `FirstAreChecked` is about the first. The public
status pages and the history's retention are left out.

`OpsAlerts.tla`: an evaluation goes rule by rule, reads the firing event, the
last one and the cooldown and inserts or resolves; administrators evaluate at
once, close events and edit rules. `CooldownKept` is about alarms of evaluations
that met no other of the rule (`alone`); `FiringBounded` bounds the others.

`OpsReports.tla`: the minute loop's rollup, reports (claim, delivery,
completion) and retention, the overview, the usage clean-up and restarts, with
time in half minutes. `NoReportMissed` excepts late, failed and cut-off rounds,
which the code does miss. The loop's rollup replaces the row at the edge of its
window by a part of it; the overview repairs it, which is what `TrendExact` says.
Alerts' fairness is the scheduler's; the reports' loop needs none for its safety.

## The runs

| Run | Instance | Question |
|---|---|---|
| `batch_one` | one job of two images, every actor, one restart | does every interleaving keep the status machine, the charge, the frozen column and the ledger, and implement `HoldLedger`, and is every hold resolved under fairness? |
| `gateway_retry` | two requests, two attempts, three accounts in two priorities | limits, retries, the look through the accounts; does every request end under fairness? |
| `gateway_groups` | two groups sharing an account, one edit | permits while objects are replaced; cached rows and groups |
| `billing_money` | two requests and the scheduler, one code, three periods of one subscription, one edit | overdraft, conservation; is a period paid once, after the one before it, and served? |
| `billing_scopes` | two subscriptions, two scopes, plans that move, scheduler fair, users not | one active per scope; is every due renewal decided? |
| `admission` | three calls of two keys; three moderated texts; one account and its shadow with two refreshing requests; two audited prompts; one priced call | quotas, access, moderation, audit, grants, charges |
| `console` | two requests of each kind, three users of a code with two uses, two submissions with one key | codes, routes, addresses, sessions, mail, lists, files, providers, one job per key |
| `upkeep` | two plans and lanes, three monitors, one alert rule with two evaluators, two reports | nothing due runs twice, no alarm too early, the trend, the reports; is what is due done? |
| `batch_recovery`, `billing_cancelled`, `admission_models`, `redirected` | | see [Disagreements found](#disagreements-found) |

Why these bounds: the hazards are races of two requests, or of one and a loop,
over one row, so two of each kind and one row are what they need; a third
account, call, user or proxy is there where an order or a limit needs it (a
priority level, the quota's last use, a circle through another). One edit or
two suffice for a value to change and to change back. `MaxTokens = 2` gives a
rotation, `MaxPeriods = 3` a period between two others.
Numbers are chosen so that quotas, prices and holds are reached exactly
(a price of three at half price, so that rounding happens). What grows with the
number of elements rather than with their order (sums, permits, rows) is
covered by the theorems.

## Disagreements found

Each is a run that TLC finds violated, listed under `findings` in
`PROJECT.json` with the text it contradicts.

* `batch_recovery`: a submission slower than 300 seconds is failed as lost
  in a restart while it is still running.
* `billing_cancelled`: a renewal read before a cancellation charges the user
  and reactivates the subscription.
* `admission_models`: a key's model list that has nothing in common with its
  group's merges to an empty list, which admits every model.
* `redirected`: a Vertex provider without a base URL leaves an empty snapshot,
  which is filled from the provider's row, so a later edit redirects an active batch.

More was seen while modelling and has no run of its own; the properties name
these cases as exceptions, or the models simply do them.

* Gateway: replacing the semaphore admits more requests at once than any limit
  the account ever had; `clear_account_error` clears a newer 429 cooldown; a
  dropped stream loses its usage row.
* Money: two submissions can both select the last slot of a batch-image provider
  (`select_provider` counts before the job exists); a balance at the maximum
  exceeds it when a hold returns (`release_balance` has no limit); a refund of
  an expired, renewing subscription leaves it renewing.
* Sessions: two `enable`s at once set the secret to NULL; two recovery codes
  spent at once restore one; a setup between `enable`'s read and write promotes
  a secret nobody confirmed; the limit of attempts is overshot by concurrent or
  dropped requests; a pending challenge survives a password reset.
* Risk control: success, or a failure with another status, clears a freeze
  another call has just set; an unban keeps the log, so the next hit bans again.
* Alerts, tests, monitors: a stale evaluation overwrites `manual_resolved`; a
  probe's success clears a cooldown set meanwhile; editing a template's
  `api_mode` makes later updates of its monitors refused.
* Answers: the parser ends an event only at `\n\n`, so a stream with CRLF, or a
  last event without an empty line, is lost; a client of a broken stream is
  told "stop".
* Accounts: importing a package twice duplicates its accounts; import and
  synchronisation do not invalidate the scheduler's snapshots; `update_account`
  without a proxy writes back the proxy it read.

## What is proved

Theorems hold for every value of the constants that the named assumptions of
the modules allow: any finite sets of users, jobs, keys, accounts, requests and
handlers, any prices and quotas, any bounds. They speak of the specifications
without fairness, whose behaviours include the fair ones. Each starts from a
type invariant and strengthens it until every step keeps it; what it promises is
what a run checks on an instance.

`TotalsProofs` has what the others share: how the sum of a column over a finite
set changes when an entry changes or an element joins or leaves, that a part of
the rows sums to no more than all, and that sets of numbers have a least and
finite ones a greatest element.

**Batch images.** `BatchImagesProofs`: `TypeCorrect`, then the money:
`FrozenCorrect`, `MoneyCorrect`, `LedgerCorrect` and `RefinesHoldLedger`. A
handler past its reservation has a row (`RowsExist`), and every action is one of
a few kinds of money step (`Quiet`, `Reserves`, `Releases`, `Captures`,
`Adjusts`), so each invariant is proved once for each kind. A release never
takes more than is frozen only because frozen is the sum of the open holds,
which is why the three are one invariant, `BooksInv`.
Then the single jobs: `FinalCorrect`, `FlowCorrect` and `OneJobCorrect` from the
kinds of row step; `ItemsCorrect` and `AffordableCorrect` from `RowInv` (the job
that is being indexed is not charged yet, a settling job is counted, a hold
covers its price); `DeletedCorrect` from `Cleared`: whoever removes the outputs
has seen the job completed, which it stays, and reports them deleted only when
the directory is gone. Nobody writes the directory of a charged job again.

**Gateway.** `RouteProofs`, which has the way of a call from its account to its
proxy: rows in the cache or in a request are of the
group's accounts and a semaphore somebody refers to is not fresh, hence
`GroupsCorrect`, `SlotsCorrect` and, without edits, `LimitCorrect`;
`AttemptsCorrect` from the set of tried accounts. `SelectionCorrect` is about
the rotation: a selection that has looked at *n* places of a level has seen the
accounts whose place is one of the first *n* after its start (`Turn`). Places
are distinct and fewer than accounts (`Places`), and all residues occur, so a
level that is given up has been looked at whole, and those before it too.

**Billing.** `BillingProofs`: `TypeCorrect`, `MoneyCorrect`, `CodesCorrect`,
`ActiveCorrect`, `RenewalsCorrect`, `ServiceCorrect` and `PeriodsCorrect`. Types
need the money (a refund must not take what was granted below zero) and the
money needs the rows to be known, so `BooksInv` has all of them. `PeriodsInv`
adds that each period behind a subscription has a succeeded attempt and that a
renewal decided on the current period has seen it ended. `PaidInv` adds that
orders of renewals and succeeded attempts name each other, one to one, so that
the orders of a subscription are as many as the periods after its first; the
count is a bijection between the two sets.

`ChargesCorrect`, also in `BillingProofs`, is of `Pricing` and `Responses`:
`ChargesSafe`, whatever is saved, answered and cut. The inductive invariant
`ChargeInv` has three parts. `PriceInv`: channels hold what could be saved, and
a charge knows its price, from before its interval is read to its cost
(`ChargeOK`); that channels are valid makes the price one
(`PatternsMeet`, `OnePrice`) and its interval (`IntervalChosen`), and the
amounts follow from sums of products within the lowest and the highest price
(`NumeratorWithin`, `CostWithin`). `RepliesOK`: what is told and counted is of
the events read so far (`EventsOK`), and the rest of the buffer and the pieces
to come are the script from its next event on (`Placed`). Letters of a stream
are counted by their place (`LetterAt`), so that a push is arithmetic on three
letters an event (`PushCuts`). That the events of a piece are taken one by one
is a statement about a recursive function of its places, proved without an
induction theorem: of the places at which it fails there would be a least, and
the step before it held (`TakenExists`, `TakenKeeps`, with `LeastOf`).
`FailuresKnown`: a failed call is free, or has its rule or redirection.
Assumed (`TablesAssumption`, `AnswersAssumption`): prices and rates are not
negative, the tables at the start hold what can be saved, and an event that
completes a stream is its last.

**What a call passes.** `CallProofs`: `PolicyCorrect`. Usage alone is not
inductive, as the calls that passed a check have yet to write their rows. The
invariant counts ahead (`Room`): what is used, plus the greatest amount for each
call past the check, is below the limit plus the greatest amount for each of the
most calls ever in progress at once. A call that passes starts with room,
because it found the limit unused and the peak covers all calls in progress; a
row that is written uses up the room of its own call; edits, resets, clean-ups
and the moving window only take rows away. For a subscription the calls that
count are those past its sum, or about to sum another period (`Unmeasured`).
Two more parts tie the check to the row of today: the row a call carries is its
key's but for resets, as long as the key is not edited (`Snapshots`), and a row
is of its key's owner (`RowsOwned`). `CheckedDuringCall` follows from what the
call remembers at each place (`HeldOK`). Assumed beyond the sets: keys and
owners are different things, so that one `peak` can have both.

`CallProofs` also has `CleanupCorrect`: an open clean-up would delete only
rows it counted (`CleanupCovers`), since the greatest id it noted has been given
out and later rows come after it.

`PromptsCorrect` is of moderation and of the audit of prompts.
`RiskInv` counts ahead, too: a user who is not banned has, with the hits logged
and those counted and about to be logged, at least two fewer than the threshold
and the most hits ever recorded at once, or none (`HitsAhead`); each check logs
one hit at most (`HitsFit`). The load of a key is the calls in flight on it and
the releases that dropped guards have queued, unless it drifted; a check in
flight has its key (`ChecksTry`). A known text's check is past the provider and
its call not served (`KnownStay`). `AuditInv` ties a request's answer to its
place and its recorded event (`AnswersFollow`), the waiters' list to the tasks
that wait, each once (`WaitersWait`), and says that while a task waits, another
holds a slot, has been woken, or a permit lies ready for one about to wait
(`SomeoneWakes`); from these `NoLostWakeup` follows, whatever limits are
configured meanwhile.

The same module has `ShownCorrect`, of single steps: with `CleanupCorrect`, an
audit preview covers what it would delete, as later events have greater ids
(`PreviewsShow`), and a request that counted the queue and was not overtaken
still finds it below its capacity (`RoomIfFirst`).

`GrantsCorrect` is of refresh tokens. `GrantInv` says that no two accounts ever have a
token in common, in a row or in a request (`TokensApart`), that what a request
is about to write is accepted by the provider, and that a flow's state is taken
by one callback. The lock makes the token presented the one in the row; all
other ways to lose it are the ones `lost` names.

**Proxies and accounts.** `RouteProofs`: `RoutesCorrect`, by `RoutesInv` of five
parts, each of which says what a request still knows of the rows it has read
when it comes to write. Rows refer only to rows that are there, and a proxy that
is gone has no backup (`RowsInv`); numbers are never used again. Unless two
edits crossed, no proxy is in the chain that starts at its own fallback
(`Acyclic`; a chain is the least set that fallbacks do not lead out of,
`ChainIn`), and a request about to
write a fallback has seen that its proxy is not in the chain it starts, and
marks the edits that cross it (`FallbackKnown`). A deletion about to happen has
counted all references but those it has been told of as late
(`DeletionKnows`). Shadows have their parent's proxy but for the marked
requests, and two imports of one identity mark each other (`ShadowKnows`).
A client kept is of the profile's edition of now, and one being built is, or the
profile was edited meanwhile (`ClientsInv`). Assumed is what tables may hold at
the start (`StartAssumption`): references to rows that are there, shadows of
accounts that are no shadows, no circle.

**Sessions and the second factor.** `ConsoleProofs`: `SessionsCorrect` and
`FactorsStay`. `SessionInv` adds to the promised parts: a session with another
password than its user's of now is late, or will be ended by a request or a
start-up that is not cut off (`PasswordFollows`); a request past the check of a
code carries a right one, of the secret it read (`ProofsHold`); a secret is one
member's, and one that waits has not been used (`SecretsApart`); no two sessions
or requests past the check carry the same recovery code, and none carries one
that is still in the row, unless secrets were exchanged meanwhile (`CodesOnce`,
which counts a request from the moment it has written the codes that are left:
`SpendsRead`). For `AttemptsBounded`, the wrong codes of a challenge are the
attempts in its row and the requests about to count theirs, and with the
requests that still look they are less than the limit and the requests there are
(`CountsHold`). Each step is one of three kinds for each table (`RequestMoved`,
`SessionMoved`, `SecretMoved`), so every part is proved once for each kind.
Assumed of the start: `SessionAssumption`, members without open sessions, each
with a secret of his own. Writing the proof showed that the model had let two
members wait for start-up at once; `db::connect` names one administrator, so
`booting` is one at most.

**Addresses and mailed codes.** `ConsoleProofs`: `AddressesCorrect` and
`CodesStay`. What a code is for, its row, the message that carries it or the
request that mails it may say (`IsFor`): they agree, and numbers are not used
again (`CodesForOne`), so that a row found by its number is the one that was
mailed. None of the young codes a request has seen is for what it asks for, and
the same is noted with the message it sends (`CooldownSeen`): two messages of
one minute therefore had senders that both looked before either wrote.
`CodesStay` is read off the ways a row can leave (`CodeLeaves`). Assumed:
`EmailAssumption`, users whose verified addresses an administrator set.

**The mail dialogue.** `MailCorrect`, by `MailInv`: a dialogue under way goes by
settings that were valid, and the place it is at implies what has been
negotiated or answered (`Spoken`); a save that waits to write has valid input
for the password it saw. Assumed: `MailAssumption`, valid settings.

**The lists of models and the settings.** `ListsCorrect`, by `ListInv`: a request
knows what it has gathered from the rows it has read (`ListersKnow`); a list kept
is what the provider lists for the credential it was fetched with (`CacheKnows`).
Once an account is settled - its credential was replaced, the list forgotten, and
nobody had an older row in hand - its list, the rows kept and the rows in requests
have the credential of now (`SettledKnow`), and a keeper about to forget a list
whose fetch did not race the replacement finds the new one (`KeepersForgot`). Of
saves that did not overlap at most one has yet to bring its settings to memory
(`SettingsHold`). Assumed: `ListAssumption`, accounts by number. Writing the proof
showed that two alternatives of `FetchFails` overlapped; they are now apart.

**The providers of images.** `FilesProofs`: `ProvidersCorrect`, by `ProviderInv`: a job that has
copied a base URL is sent and called there, and so is each row a request for it
carries (`JobsRouted`). A provider that jobs refer to is there; unless edits
overlapped, one editor at most is about to write, and what it will write is its
input over the row of now, so that the credentials given last are kept, and a
credential of each job's kind (`ProviderKept`). A token in a request's hands is of
the row it carries and was in time when it was picked (`TokensHeld`). Assumed:
`ProviderAssumption`, a row that has its credential at the start.

**The files of a batch.** `FilesProofs` again: `FilesCorrect`, by `FileInv`, which has
two halves. `ContentInv` follows an answer into rows and files. Whatever the
provider tells, in objects, in a file or again after an interruption, are lines of
what it decided for the job (`ToldOwn`, `ObjectsTold`); an indexer has found, of
the lines before its place, one match for each that an item expects
(`IndexedSoFar`), and the images on disk are their items' own (`ImagesOwn`, with
names that safe ids keep apart). Hence the rows of a charged job say what was
answered and name files that are there (`RowsFiled`), until a removal has got so
far (`RemovalsKnow`). `DownloadInv` follows the files into answers. Whoever reads
an item or puts files into an archive has the rows of the charged job
(`DownloadsKnow`). The two names of the archive never refer to the same file, nor
does one that is sent get written again (`Names`); a build that no other has
crossed has written the pieces up to its place, and a reader that was not crossed
reads a whole archive (`ArchivesWhole`). An archive is the concatenation of its
rows' files, so the proof starts with concatenations (`ChainThere` and after),
by least counterexamples in place of induction. Assumed: `FileAssumption`, ids
whose first word survives in a file name, and items no more than there are
automatic names for. The proof made the model say that: it had an id of the
provider's own invention among those that become file names.

`ConsoleKeepsCorrect` joins `CodesStay` and `FactorsStay`; `ConsoleCorrect` joins the
six parts of `ConsoleSafe`: `AddressesCorrect`, `SessionsCorrect`, `MailCorrect`,
`ListsCorrect`, `FilesCorrect` and `ProvidersCorrect`. Its hypothesis is the
conjunction of six specifications that share no variable, which every behaviour
of the run's interleaving satisfies.

**Background loops.** `UpkeepProofs`: `TestsCorrect` and `GoneCorrect` (what
became due is answered or waits, never both; the plan a lane has taken up is off
the list); `MonitorsCorrect` (rows that requests have read fit their templates,
and carry the key entered last or the monitor is marked as raced);
`AlertsCorrect` (an evaluation that met no other is the only one, knows when its
rules last fired, and marks an alarm that none of its kind follows: `OnlyAlone`,
`SeenFresh`, `MarkedKnown`, `NothingLater`, `BeingMarked`); `ReportsCorrect` (the
bucket of a minute in the window has its rows; every instant a report was due is
mailed, pending, excused, or yet to be looked at). The last assumes what its
module does: a cron expression names whole minutes.

## What is only model-checked

* Liveness: `HoldsResolve`, `RequestEnds`, `DueRenewalDecided` and the four
  parts of `Progress`. Fairness and ENABLED are beyond this prover.
* `OneJobPerKey` as `ConsoleMC` checks it is an instance, of two submissions, of
  what `OneJobCorrect` proves of `BatchImages`.
* The runs that expect a violation, by their nature.

## Not modelled

Content pages and announcements, the audit log, configuration, encryption at
rest, the schema and the web console: row editing and plumbing in which no rule
relates two steps beyond the database's own constraints. The schema's unique
indices and foreign keys are guards in the modules that rely on them. Of the
parts that are modelled the following is left out; `PROJECT.json` has it by
component.

* Batch images: reference images, the limits of prices and names, the order in
  which the clean-up picks expired jobs.
* Gateway and answers: headers, the wording of the conversion between the
  providers' formats, an account's statistics.
* Policy, risk and audit: a key's expiry and IP lists, sampling and scopes of
  moderation, the guards' protocol and fail-over, retention by age.
* Users: cookies and CSRF, the login's rate limit, the clock window of a code.
* Administration: names, notes and statistics of accounts, tests of proxies,
  listings and exports.
* Operations: the metrics themselves, the status pages, manual reports.

## Plan

1. Done: the modules of the inventory, their runs, and the theorems above.
2. The wording of the conversion between the providers' formats, and the
   statistics of accounts, where a property would depend on them.
