------------------------------- MODULE Gateway -------------------------------
(***************************************************************************)
(* The account scheduler (state.rs, Scheduler) and the retry loop that     *)
(* drives it (gateway.rs, proxy_json), with the administrator's edits of   *)
(* an account (admin.rs, update_account).                                  *)
(*                                                                         *)
(* A step is what one handler does between two awaits.  The runtime has    *)
(* two worker threads, so two handlers may also run between the moment a   *)
(* lock is released and the next statement: looking a semaphore up and     *)
(* acquiring from it are therefore two steps.                              *)
(*                                                                         *)
(* Semaphores are shared objects: the scheduler's entry for an account may *)
(* be replaced while requests still hold permits of the old one.  Their    *)
(* names are taken from SemIds; a name nobody refers to any more may be    *)
(* given to a new object.                                                  *)
(***************************************************************************)
EXTENDS Integers, FiniteSets

CONSTANTS
  Requests,     \* the requests of a behaviour
  Accounts,     \* upstream accounts, by id
  Groups,       \* API key groups
  Member,       \* the accounts of a group
  GroupOf,      \* the group of the key a request came with
  Priority,     \* an account's priority; smaller goes first
  Limits,       \* the values an account's concurrency can be given
  Limit0,       \* an account's concurrency at the start
  MaxAttempts,  \* runtime_settings.retry_attempts
  SemIds,       \* names of semaphore objects
  NoRows,       \* stands for "no snapshot"
  MaxEdits      \* bound: administrator's edits in a behaviour

ASSUME RequestsAssumption == IsFiniteSet(Requests)
ASSUME AccountsAssumption == Accounts \subseteq Nat \ {0} /\ IsFiniteSet(Accounts)
ASSUME MemberAssumption   == Member \in [Groups -> SUBSET Accounts]
ASSUME GroupOfAssumption  == GroupOf \in [Requests -> Groups]
ASSUME PriorityAssumption == Priority \in [Accounts -> Nat]
ASSUME LimitsAssumption   == Limits \subseteq Nat \ {0}
ASSUME Limit0Assumption   == Limit0 \in [Accounts -> Limits]
ASSUME AttemptsAssumption == MaxAttempts \in Nat \ {0}
ASSUME SemIdsAssumption   == /\ SemIds \subseteq Nat \ {0} /\ IsFiniteSet(SemIds)
                             /\ Cardinality(SemIds) > Cardinality(Accounts) + Cardinality(Requests)
ASSUME BoundsAssumption   == MaxEdits \in Nat

NoSem     == 0
NoAccount == 0

\* Rows of the accounts table, as a selection keeps them: the limit of each
\* account in them.
Rows == UNION {[S -> Limits] : S \in SUBSET Accounts}
None == [a \in {} |-> 0]

ASSUME NoRowsAssumption == NoRows \notin Rows

VARIABLES
  db,       \* accounts table: [usable, cooling, limit] of an account
  snap,     \* the cached rows of a group, or NoRows
  cursor,   \* the rotation cursor of a priority
  entry,    \* the semaphore an account's entry refers to
  sem,      \* the semaphore objects: [limit, free]
  req,      \* the requests
  admin,    \* what update_account has left to do: "idle" or "invalidate"
  edits     \* number of edits made so far

vars == <<db, snap, cursor, entry, sem, req, admin, edits>>

\* A request holds the permit of req.sem in these steps; in "acquire" it only
\* refers to the semaphore.
HoldingSteps == {"resolve", "refresh", "call", "cool", "invalidate", "clear", "respond"}
Steps == {"new", "rows", "store", "level", "try", "acquire", "done"} \cup HoldingSteps

Request == [pc : Steps, attempt : Nat, tried : SUBSET Accounts, rows : Rows,
            ahead : SUBSET Accounts,   \* rows of the priorities not reached yet
            level : SUBSET Accounts,   \* candidates of the current priority
            start : Nat, offset : Nat, \* where the rotation starts, where it is
            seen : SUBSET Accounts,    \* accounts looked at in this selection
            account : Accounts \cup {NoAccount},
            sem : SemIds \cup {NoSem},
            last : BOOLEAN]            \* respond after the cooldown is written

NewRequest == [pc |-> "new", attempt |-> 0, tried |-> {}, rows |-> None, ahead |-> {},
               level |-> {}, start |-> 0, offset |-> 0, seen |-> {},
               account |-> NoAccount, sem |-> NoSem, last |-> FALSE]

Holding(r) == req[r].pc \in HoldingSteps
Holders(s) == {r \in Requests : Holding(r) /\ req[r].sem = s}
InFlight(a) == {r \in Requests : Holding(r) /\ req[r].account = a}

Init ==
  /\ db = [a \in Accounts |-> [usable |-> TRUE, cooling |-> FALSE, limit |-> Limit0[a]]]
  /\ snap = [g \in Groups |-> NoRows]
  /\ cursor = [p \in {Priority[a] : a \in Accounts} |-> 0]
  /\ entry = [a \in Accounts |-> NoSem]
  /\ sem = [s \in SemIds |-> [limit |-> 0, free |-> 0]]
  /\ req = [r \in Requests |-> NewRequest]
  /\ admin = "idle" /\ edits = 0

-----------------------------------------------------------------------------
(* The rows a selection works on *)

\* The query of account_rows.  "usable" stands for enabled and for a proxy
\* that is active or has a working fallback.
Selectable(g) ==
  {a \in Member[g] : db[a].usable /\ ~db[a].cooling}

LoadedRows(g) == [a \in Selectable(g) |-> db[a].limit]

\* What select does with its rows before the loop over the priorities.
WithRows(q, rows) ==
  [q EXCEPT !.pc = "level", !.rows = rows, !.ahead = DOMAIN rows \ q.tried, !.seen = {}]

\* The checks before the retry loop may refuse the request.
Begin(r) ==
  /\ req[r].pc = "new"
  /\ \E next \in {"rows", "done"} : req' = [req EXCEPT ![r].pc = next]
  /\ UNCHANGED <<db, snap, cursor, entry, sem, admin, edits>>

RowsCached(r) ==
  /\ req[r].pc = "rows"
  /\ snap[GroupOf[r]] # NoRows
  /\ req' = [req EXCEPT ![r] = WithRows(@, snap[GroupOf[r]])]
  /\ UNCHANGED <<db, snap, cursor, entry, sem, admin, edits>>

RowsLoad(r) ==
  /\ req[r].pc = "rows"
  /\ snap[GroupOf[r]] = NoRows
  /\ req' = [req EXCEPT ![r].pc = "store", ![r].rows = LoadedRows(GroupOf[r])]
  /\ UNCHANGED <<db, snap, cursor, entry, sem, admin, edits>>

\* Variant: the cache is not keyed by the group.
RowsStoreShared(r) ==
  /\ req[r].pc = "store"
  /\ snap' = [g \in Groups |-> req[r].rows]
  /\ req' = [req EXCEPT ![r] = WithRows(@, req[r].rows)]
  /\ UNCHANGED <<db, cursor, entry, sem, admin, edits>>

RowsStore(r) ==
  /\ req[r].pc = "store"
  /\ snap' = [snap EXCEPT ![GroupOf[r]] = req[r].rows]
  /\ req' = [req EXCEPT ![r] = WithRows(@, req[r].rows)]
  /\ UNCHANGED <<db, cursor, entry, sem, admin, edits>>

\* 250 ms have passed, or 64 other groups have pushed the snapshot out.
SnapshotExpires(g) ==
  /\ snap[g] # NoRows
  /\ snap' = [snap EXCEPT ![g] = NoRows]
  /\ UNCHANGED <<db, cursor, entry, sem, req, admin, edits>>

-----------------------------------------------------------------------------
(* Choosing an account *)

\* Variant: priorities in descending order.
LastLevel(S) == {a \in S : \A b \in S : Priority[a] >= Priority[b]}

\* The rows of the first priority that still has candidates.
FirstLevel(S) == {a \in S : \A b \in S : Priority[a] <= Priority[b]}

\* select takes the next priority and advances its cursor.
NextLevel(r) ==
  LET level == FirstLevel(req[r].ahead)
      size  == Cardinality(level)
  IN  /\ req[r].pc = "level"
      /\ level # {}
      /\ \E p \in {Priority[a] : a \in level} :
           /\ req' = [req EXCEPT ![r].pc = "try", ![r].level = level, ![r].offset = 0,
                                 ![r].ahead = @ \ level, ![r].start = cursor[p] % size]
           /\ cursor' = [cursor EXCEPT ![p] = (@ + 1) % size]
      /\ UNCHANGED <<db, snap, entry, sem, admin, edits>>

\* No candidate is left: 503, and the handler returns.
NoneAvailable(r) ==
  /\ req[r].pc = "level"
  /\ req[r].ahead = {}
  /\ req' = [req EXCEPT ![r].pc = "done"]
  /\ UNCHANGED <<db, snap, cursor, entry, sem, admin, edits>>

\* The account at the rotation's current place (rows are sorted by id).
Position(a, S) == Cardinality({b \in S : b < a})

AtPlace(q) == {a \in q.level : Position(a, q.level) = (q.start + q.offset) % Cardinality(q.level)}

\* Names no entry and no request refers to.
Unreferenced ==
  {s \in SemIds : (\A a \in Accounts : entry[a] # s) /\ (\A r \in Requests : req[r].sem # s)}

Fresh == {s \in Unreferenced : \A t \in Unreferenced : s <= t}

\* Under the lock: create the entry, or replace it when its limit is not the
\* row's, and take a reference.
LookUp(r) ==
  /\ req[r].pc = "try"
  /\ \E a \in AtPlace(req[r]) :
       LET keep == entry[a] # NoSem /\ sem[entry[a]].limit = req[r].rows[a]
       IN  \E s \in IF keep THEN {entry[a]} ELSE Fresh :
             /\ entry' = [entry EXCEPT ![a] = s]
             /\ sem' = IF keep THEN sem
                       ELSE [sem EXCEPT ![s] = [limit |-> req[r].rows[a], free |-> req[r].rows[a]]]
             /\ req' = [req EXCEPT ![r].pc = "acquire", ![r].account = a, ![r].sem = s,
                                   ![r].seen = @ \cup {a}]
  /\ UNCHANGED <<db, snap, cursor, admin, edits>>

\* try_acquire_owned succeeds.
Acquire(r) ==
  /\ req[r].pc = "acquire"
  /\ sem[req[r].sem].free > 0
  /\ sem' = [sem EXCEPT ![req[r].sem].free = @ - 1]
  /\ req' = [req EXCEPT ![r].pc = "resolve"]
  /\ UNCHANGED <<db, snap, cursor, entry, admin, edits>>

\* Variant: the place never moves.
OnwardsNowhere(q) == [q EXCEPT !.pc = "try", !.account = NoAccount, !.sem = NoSem]

\* The place after the current one, or the next priority.
Onwards(q) ==
  [q EXCEPT !.pc = IF q.offset + 1 < Cardinality(q.level) THEN "try" ELSE "level",
            !.offset = @ + 1, !.account = NoAccount, !.sem = NoSem]

Busy(r) ==
  /\ req[r].pc = "acquire"
  /\ sem[req[r].sem].free = 0
  /\ req' = [req EXCEPT ![r] = Onwards(@)]
  /\ UNCHANGED <<db, snap, cursor, entry, sem, admin, edits>>

-----------------------------------------------------------------------------
(* One attempt *)

\* Dropping the permit returns it to the object it came from.
Released(r) == [sem EXCEPT ![req[r].sem].free = @ + 1]

Finished(q) == [NewRequest EXCEPT !.pc = "done", !.attempt = q.attempt, !.tried = q.tried]

\* The next iteration of the loop, or the error after the last one.
NextAttempt(q) ==
  IF q.attempt < MaxAttempts
  THEN [NewRequest EXCEPT !.pc = "rows", !.attempt = q.attempt, !.tried = q.tried]
  ELSE Finished(q)

\* Variant: the account is not excluded from the next attempts.
ResolveAgain(r) ==
  /\ req[r].pc = "resolve"
  /\ req' = [req EXCEPT ![r].pc = "refresh", ![r].attempt = @ + 1]
  /\ UNCHANGED <<db, snap, cursor, entry, sem, admin, edits>>

\* resolve_account reads a shadow account's parent and decrypts; the loop then
\* excludes the account.
Resolve(r) ==
  /\ req[r].pc = "resolve"
  /\ req' = [req EXCEPT ![r].pc = "refresh", ![r].attempt = @ + 1,
                        ![r].tried = @ \cup {req[r].account}]
  /\ UNCHANGED <<db, snap, cursor, entry, sem, admin, edits>>

\* Variant: an error after the permit was taken leaves it taken.
ResolveLeaks(r) ==
  /\ req[r].pc = "resolve"
  /\ req' = [req EXCEPT ![r] = Finished(@)]
  /\ UNCHANGED <<db, snap, cursor, entry, sem, admin, edits>>

ResolveFails(r) ==
  /\ req[r].pc = "resolve"
  /\ sem' = Released(r)
  /\ req' = [req EXCEPT ![r] = Finished(@)]
  /\ UNCHANGED <<db, snap, cursor, entry, admin, edits>>

RefreshToken(r) ==
  /\ req[r].pc = "refresh"
  /\ req' = [req EXCEPT ![r].pc = "call"]
  /\ UNCHANGED <<db, snap, cursor, entry, sem, admin, edits>>

RefreshFails(r) ==
  /\ req[r].pc = "refresh"
  /\ sem' = Released(r)
  /\ req' = [req EXCEPT ![r] = NextAttempt(@)]
  /\ UNCHANGED <<db, snap, cursor, entry, admin, edits>>

\* The last answer of the attempt; a 401 that made the gateway refresh the
\* token and ask again is part of the call.
Succeeds(r) ==
  /\ req[r].pc = "call"
  /\ req' = [req EXCEPT ![r].pc = "clear"]
  /\ UNCHANGED <<db, snap, cursor, entry, sem, admin, edits>>

AnswersRetryable(r) ==
  /\ req[r].pc = "call"
  /\ req' = [req EXCEPT ![r].pc = "cool", ![r].last = req[r].attempt = MaxAttempts]
  /\ UNCHANGED <<db, snap, cursor, entry, sem, admin, edits>>

\* Variant: the permit stays with the handler and not with the body.
AnswersWithoutPermit(r) ==
  /\ req[r].pc = "call"
  /\ sem' = Released(r)
  /\ req' = [req EXCEPT ![r].pc = "respond", ![r].sem = NoSem]
  /\ UNCHANGED <<db, snap, cursor, entry, admin, edits>>

AnswersOther(r) ==
  /\ req[r].pc = "call"
  /\ req' = [req EXCEPT ![r].pc = "respond"]
  /\ UNCHANGED <<db, snap, cursor, entry, sem, admin, edits>>

TransportFails(r) ==
  /\ req[r].pc = "call"
  /\ req' = [req EXCEPT ![r].pc = "cool", ![r].last = FALSE]
  /\ UNCHANGED <<db, snap, cursor, entry, sem, admin, edits>>

\* cool_down_account and mark_transport_error: the row, ...
Cool(r) ==
  /\ req[r].pc = "cool"
  /\ db' = [db EXCEPT ![req[r].account].cooling = TRUE]
  /\ req' = [req EXCEPT ![r].pc = "invalidate"]
  /\ UNCHANGED <<snap, cursor, entry, sem, admin, edits>>

\* ... then the snapshots, and on to the next attempt or to the response.
AfterCooling(r) ==
  IF req[r].last
  THEN /\ req' = [req EXCEPT ![r].pc = "respond"]
       /\ UNCHANGED sem
  ELSE /\ req' = [req EXCEPT ![r] = NextAttempt(@)]
       /\ sem' = Released(r)

CoolFails(r) ==                    \* the UPDATE failed: no invalidation
  /\ req[r].pc = "cool"
  /\ AfterCooling(r)
  /\ UNCHANGED <<db, snap, cursor, entry, admin, edits>>

Invalidate(r) ==
  /\ req[r].pc = "invalidate"
  /\ snap' = [g \in Groups |-> NoRows]
  /\ AfterCooling(r)
  /\ UNCHANGED <<db, cursor, entry, admin, edits>>

ClearError(r) ==
  /\ req[r].pc = "clear"
  /\ db' = [db EXCEPT ![req[r].account].cooling = FALSE]
  /\ req' = [req EXCEPT ![r].pc = "respond"]
  /\ UNCHANGED <<snap, cursor, entry, sem, admin, edits>>

\* The stream owns the permit until the upstream body ends.
BodyEnds(r) ==
  /\ req[r].pc = "respond"
  /\ sem' = Released(r)
  /\ req' = [req EXCEPT ![r] = Finished(@)]
  /\ UNCHANGED <<db, snap, cursor, entry, admin, edits>>

\* The client disconnects: the handler, or the response body, is dropped.  An
\* error that the handler returns on the way (a request that cannot be converted
\* or serialised, a failing pass-through rule) has the same effect.
ClientGone(r) ==
  /\ req[r].pc \notin {"new", "done"}
  /\ sem' = IF Holding(r) THEN Released(r) ELSE sem
  /\ req' = [req EXCEPT ![r] = Finished(@)]
  /\ UNCHANGED <<db, snap, cursor, entry, admin, edits>>

-----------------------------------------------------------------------------
(* The rest of the program *)

CooldownPasses(a) ==
  /\ db[a].cooling
  /\ db' = [db EXCEPT ![a].cooling = FALSE]
  /\ UNCHANGED <<snap, cursor, entry, sem, req, admin, edits>>

\* update_account writes the row; enabling clears the cooldown.
EditAccount(a) ==
  /\ admin = "idle" /\ edits < MaxEdits
  /\ \E usable \in BOOLEAN, limit \in Limits :
       db' = [db EXCEPT ![a] = [usable |-> usable, limit |-> limit,
                                cooling |-> ~usable /\ db[a].cooling]]
  /\ admin' = "invalidate" /\ edits' = edits + 1
  /\ UNCHANGED <<snap, cursor, entry, sem, req>>

EditInvalidates ==
  /\ admin = "invalidate"
  /\ snap' = [g \in Groups |-> NoRows]
  /\ admin' = "idle"
  /\ UNCHANGED <<db, cursor, entry, sem, req, edits>>

\* The administrator disconnects between the two.
EditDropped ==
  /\ admin = "invalidate"
  /\ admin' = "idle"
  /\ UNCHANGED <<db, snap, cursor, entry, sem, req, edits>>

Selecting(r) ==
  \/ RowsCached(r) \/ RowsLoad(r) \/ RowsStore(r)
  \/ NextLevel(r) \/ NoneAvailable(r) \/ LookUp(r) \/ Acquire(r) \/ Busy(r)

Attempting(r) ==
  \/ Resolve(r) \/ ResolveFails(r) \/ Cool(r) \/ CoolFails(r) \/ Invalidate(r) \/ ClearError(r)

\* The steps that wait for others: for the account's refresh lock and the token
\* endpoint, for the upstream's answer, for the end of its body.
Upstream(r) ==
  \/ RefreshToken(r) \/ RefreshFails(r)
  \/ Succeeds(r) \/ AnswersRetryable(r) \/ AnswersOther(r) \/ TransportFails(r) \/ BodyEnds(r)

Next ==
  \/ \E r \in Requests :
       Begin(r) \/ Selecting(r) \/ Attempting(r) \/ Upstream(r) \/ ClientGone(r)
  \/ \E g \in Groups : SnapshotExpires(g)
  \/ \E a \in Accounts : CooldownPasses(a) \/ EditAccount(a)
  \/ EditInvalidates \/ EditDropped

Spec == Init /\ [][Next]_vars

\* The runtime runs every handler that is ready.  The steps of Upstream are not
\* fair: nothing bounds how long the token endpoint, another holder of the
\* account's refresh lock or the upstream may take, as the client for accounts
\* without proxy and TLS profile has a connect timeout only.
FairSpec == Spec /\ \A r \in Requests : WF_vars(Selecting(r)) /\ WF_vars(Attempting(r))

-----------------------------------------------------------------------------
(* Properties *)

TypeOK ==
  /\ db \in [Accounts -> [usable : BOOLEAN, cooling : BOOLEAN, limit : Limits]]
  /\ snap \in [Groups -> Rows \cup {NoRows}]
  /\ cursor \in [{Priority[a] : a \in Accounts} -> Nat]
  /\ entry \in [Accounts -> SemIds \cup {NoSem}]
  /\ sem \in [SemIds -> [limit : Nat, free : Nat]]
  /\ req \in [Requests -> Request]
  /\ admin \in {"idle", "invalidate"}
  /\ edits \in 0..MaxEdits

\* Every semaphore's permits are either free or held by a request that is
\* still using them: no way out of the handler (an error, a retry, the end of
\* the body, a dropped connection) loses a permit or returns one twice.
SlotAccounting ==
  \A s \in SemIds : sem[s].limit = sem[s].free + Cardinality(Holders(s))

\* While no administrator has edited an account, it never serves more requests
\* at once than its concurrency, streams included.
WithinLimit ==
  edits = 0 => \A a \in Accounts : Cardinality(InFlight(a)) <= db[a].limit

\* Every attempt of the retry loop asks an account the request has not asked
\* before.
EachAttemptNewAccount ==
  \A r \in Requests : Cardinality(req[r].tried) = req[r].attempt

\* A selection moves to the next priority, or gives up, only after looking at
\* every account of the priorities before it that it may still use.
LooksAtEveryAccount ==
  \A r \in Requests : req[r].pc = "level" =>
    req[r].seen = (DOMAIN req[r].rows \ req[r].tried) \ req[r].ahead

\* A smaller priority goes first: an account is looked at only when every
\* usable account of a smaller priority has been.
PriorityOrder ==
  \A r \in Requests : req[r].pc = "acquire" =>
    \A a \in DOMAIN req[r].rows \ req[r].tried :
      Priority[a] < Priority[req[r].account] => a \in req[r].seen

\* A selection goes through its levels completely and in their order (select).
SelectionOrder == LooksAtEveryAccount /\ PriorityOrder

\* A request is only ever served by an account of its key's group, whatever
\* the snapshots hold.
GroupIsolation ==
  \A r \in Requests : Holding(r) => req[r].account \in Member[GroupOf[r]]

\* A request that was accepted ends, unless it stays for ever in one token
\* refresh, which waits for the account's lock and the token endpoint, or in one
\* call, whose upstream never answers or never ends its body.
RequestEnds ==
  \A r \in Requests :
    req[r].pc = "rows" ~>
      \/ req[r].pc = "done"
      \/ [](req[r].pc = "refresh")
      \/ [](req[r].pc \in {"call", "respond"})

=============================================================================
