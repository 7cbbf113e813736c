------------------------------ MODULE ModelLists ------------------------------
(***************************************************************************)
(* The lists of models: gateway.rs models, which asks one account after    *)
(* another, and available_model_catalog, which asks them all, share a      *)
(* cache of the accounts' lists; credentials are changed under it in four  *)
(* ways that clear different caches.  Also the runtime settings, which are *)
(* in the database and in memory.                                          *)
(*                                                                         *)
(* An account's credentials are a number, and decide what its upstream     *)
(* lists.  Permits, rotation and groups are Gateway's; rows here are of    *)
(* one group.  Time is counted in ticks; of the settings there are the     *)
(* number of attempts and how many ticks a cached list is good for.        *)
(***************************************************************************)
EXTENDS Integers, FiniteSets

CONSTANTS
  Sources,     \* accounts
  Credentials, \* what credentials an account may have, from 1
  UpstreamSays,\* what an upstream answers for them: [shape, entries]
  Listers,     \* requests for a list of models
  Keepers,     \* requests that change credentials or settings
  ListStarts   \* credentials, settings, keys' model lists and bounds

VARIABLES
  credential,  \* accounts.encrypted_credentials
  resting,     \* accounts whose cooldown_until lies ahead
  rowsKept,    \* the scheduler's snapshot: {} or {[account -> credentials]}
  listCache,   \* model_cache: accounts -> [list, of, age]
  lister,      \* requests
  keeper,      \* requests: [pc, op, account, with]; raced: an older list or other credentials
               \* came in meanwhile (history)
  kept,        \* app_settings: [attempts, ticks]
  running,     \* runtime_settings
  settled,     \* accounts of which no older list may be about (history)
  overlaid,     \* the latest save overlapped with another, or broke off (history)
  listBudget

listVars == <<credential, resting, rowsKept, listCache, lister, keeper, kept, running, settled, overlaid, listBudget>>

NoLister == [pc |-> "idle", catalog |-> FALSE, allowed |-> {}, with |-> [attempts |-> 0, ticks |-> 0], attempt |-> 0,
             tried |-> {}, rows |-> [a \in {} |-> 0], account |-> 0, list |-> {}, models |-> {},
             used |-> {}, told |-> "nothing", logged |-> 0]
NoKeeper == [pc |-> "idle", op |-> "replace", account |-> 0, with |-> [attempts |-> 0, ticks |-> 0], raced |-> FALSE]

ListInit ==
  /\ \E start \in ListStarts :
       /\ credential = start.credentials /\ kept = start.settings /\ running = start.settings
       /\ listBudget = start.budget
  /\ resting = {} /\ rowsKept = {} /\ listCache = [a \in {} |-> 0]
  /\ lister = [l \in Listers |-> NoLister] /\ keeper = [k \in Keepers |-> NoKeeper]
  /\ settled = Sources /\ overlaid = FALSE

SpendList(what) == listBudget[what] > 0 /\ listBudget' = [listBudget EXCEPT ![what] = @ - 1]
At(l, pc) == lister[l].pc = pc
Goes(l, row) == lister' = [lister EXCEPT ![l] = row]
Least(S) == CHOOSE a \in S : \A b \in S : a <= b
ListerOnly == UNCHANGED <<credential, resting, rowsKept, listCache, keeper, kept, running, settled, overlaid, listBudget>>

-----------------------------------------------------------------------------
(*                     Lists and who may see them                          *)

(* normalize_models: "data" stays as it is; entries of another shape get   *)
(* their name, whatever it is called, as "id", or are dropped.             *)
Normalized(says) ==
  IF says.shape = "data" THEN says.entries
  ELSE IF says.shape \in {"models", "array"} THEN {[key |-> "id", model |-> e.model] : e \in {x \in says.entries : x.key # "none"}}
  ELSE {}

ListedModels(list) == {e.model : e \in {x \in list : x.key = "id"}}

(* filter_models                                                           *)
Shown(list, allowed) ==
  IF allowed = {} THEN list ELSE {e \in list : e.key = "id" /\ e.model \in allowed}

(* Variant: the cache gets what the key may see.                           *)
ShownToKey(l) == Shown(lister[l].list, lister[l].allowed)
ToCache(l) == lister[l].list

InListCache(l, a) == a \in DOMAIN listCache /\ listCache[a].age < lister[l].with.ticks

-----------------------------------------------------------------------------
(*                     models: one account after another                   *)

Begins1(l, allowed) ==
  /\ At(l, "idle") /\ SpendList("lists")
  /\ Goes(l, [NoLister EXCEPT !.pc = "select", !.allowed = allowed, !.with = running])
  /\ UNCHANGED <<credential, resting, rowsKept, listCache, keeper, kept, running, settled, overlaid>>

Ends(l, how, row) == Goes(l, [row EXCEPT !.pc = "told", !.told = how])

(* The loop's head, and account_rows: the snapshot, or rows that are read  *)
(* and then kept.                                                          *)
SelectRows(l) ==
  LET q == lister[l] IN
  /\ At(l, "select")
  /\ IF q.attempt = q.with.attempts THEN Ends(l, "failed", q)
     ELSE \/ \E rows \in rowsKept : Goes(l, [q EXCEPT !.pc = "pick", !.rows = rows])
          \/ /\ rowsKept = {}
             /\ Goes(l, [q EXCEPT !.pc = "keep", !.rows = [a \in Sources \ resting |-> credential[a]]])
  /\ ListerOnly

KeepRows(l) ==
  /\ At(l, "keep") /\ rowsKept' = {lister[l].rows}
  /\ Goes(l, [lister[l] EXCEPT !.pc = "pick"])
  /\ UNCHANGED <<credential, resting, listCache, keeper, kept, running, settled, overlaid, listBudget>>

PickSource(l) ==
  LET q == lister[l]
      left == DOMAIN q.rows \ q.tried IN
  /\ At(l, "pick")
  /\ IF left = {} THEN Ends(l, "failed", q)
     ELSE \E a \in left :
            Goes(l, [q EXCEPT !.pc = "look", !.account = a, !.tried = @ \cup {a}, !.attempt = @ + 1])
  /\ ListerOnly

(* A cached list is answered as it is, filtered for the key.               *)
LookIntoCache(l) ==
  LET q == lister[l]
      a == q.account IN
  /\ At(l, "look")
  /\ IF InListCache(l, a)
     THEN IF q.catalog
          THEN Goes(l, [q EXCEPT !.pc = "collect", !.list = listCache[a].list, !.used = @ \cup {listCache[a].of}])
          ELSE Ends(l, "listed", [q EXCEPT !.list = Shown(listCache[a].list, q.allowed), !.used = {listCache[a].of},
                                           !.logged = 1])
     ELSE Goes(l, [q EXCEPT !.pc = IF q.catalog THEN "resolve" ELSE "fetch"])
  /\ ListerOnly

(* send_upstream: the list, a body that cannot be read, a status that may  *)
(* be retried or not, or no answer (or no token).                          *)
FetchList(l) ==
  LET q == lister[l]
      got == Normalized(UpstreamSays[q.rows[q.account]]) IN
  /\ At(l, "fetch")
  /\ Goes(l, [q EXCEPT !.pc = "insert", !.list = got, !.used = @ \cup {q.rows[q.account]}])
  /\ ListerOnly

FetchFails(l, how) ==
  LET q == lister[l] IN
  /\ At(l, "fetch") /\ SpendList("failures")
  /\ CASE how = "body" -> Ends(l, "failed", q)
       [] how # "body" /\ q.catalog -> Goes(l, [q EXCEPT !.pc = "next"])
       [] how = "token" /\ ~q.catalog -> Goes(l, [q EXCEPT !.pc = "select"])
       [] how = "status" /\ ~q.catalog -> Ends(l, "failed", [q EXCEPT !.logged = 1])
       [] OTHER -> Goes(l, [q EXCEPT !.pc = IF how = "retry" THEN "cool" ELSE "rest"])
  /\ UNCHANGED <<credential, resting, rowsKept, listCache, keeper, kept, running, settled, overlaid>>

(* cool_down_account and mark_transport_error, with their invalidation;    *)
(* the last retryable answer is given to the client.                       *)
RestSource(l) ==
  LET q == lister[l] IN
  /\ At(l, "cool") \/ At(l, "rest")
  /\ resting' = resting \cup {q.account} /\ rowsKept' = {}
  /\ IF At(l, "cool") /\ q.attempt = q.with.attempts
     THEN Ends(l, "failed", [q EXCEPT !.logged = 1]) ELSE Goes(l, [q EXCEPT !.pc = "select"])
  /\ UNCHANGED <<credential, listCache, keeper, kept, running, settled, overlaid, listBudget>>

InsertList(l) ==
  LET q == lister[l]
      a == q.account IN
  /\ At(l, "insert")
  /\ listCache' = [b \in DOMAIN listCache \cup {a} |->
       IF b = a THEN [list |-> ToCache(l), of |-> q.rows[a], age |-> 0] ELSE listCache[b]]
  /\ keeper' = [k \in Keepers |-> [keeper[k] EXCEPT !.raced = @ \/ (keeper[k].account = a /\ q.rows[a] # credential[a])]]
  /\ Goes(l, [q EXCEPT !.pc = IF q.catalog THEN "collect" ELSE "clear"])
  /\ UNCHANGED <<credential, resting, rowsKept, kept, running, settled, overlaid, listBudget>>

(* clear_account_error, and the answer.                                    *)
ClearRest(l) ==
  LET q == lister[l] IN
  /\ At(l, "clear") /\ resting' = resting \ {q.account}
  /\ Ends(l, "listed", [q EXCEPT !.list = Shown(q.list, q.allowed), !.logged = 1])
  /\ UNCHANGED <<credential, rowsKept, listCache, keeper, kept, running, settled, overlaid, listBudget>>

-----------------------------------------------------------------------------
(*              available_model_catalog: every account in turn             *)

CatalogRows(l) ==
  /\ At(l, "idle") /\ SpendList("catalogs")
  /\ Goes(l, [NoLister EXCEPT !.pc = "next", !.catalog = TRUE, !.with = running, !.rows = credential])
  /\ UNCHANGED <<credential, resting, rowsKept, listCache, keeper, kept, running, settled, overlaid>>

NextSource(l) ==
  LET q == lister[l]
      left == Sources \ q.tried IN
  /\ At(l, "next")
  /\ IF left = {} THEN Ends(l, "listed", q)
     ELSE Goes(l, [q EXCEPT !.pc = "look", !.account = Least(left), !.tried = @ \cup {Least(left)}])
  /\ ListerOnly

(* A row that cannot be resolved ends the whole catalogue.                 *)
ResolveSource(l, fails) ==
  LET q == lister[l] IN
  /\ At(l, "resolve")
  /\ IF fails THEN SpendList("failures") /\ Ends(l, "failed", q)
     ELSE UNCHANGED listBudget /\ Goes(l, [q EXCEPT !.pc = "fetch"])
  /\ UNCHANGED <<credential, resting, rowsKept, listCache, keeper, kept, running, settled, overlaid>>

CollectModels(l) ==
  LET q == lister[l] IN
  /\ At(l, "collect")
  /\ Goes(l, [q EXCEPT !.pc = "next", !.models = @ \cup ListedModels(q.list)])
  /\ ListerOnly

(* The client has gone.                                                    *)
ListerGone(l) ==
  /\ lister[l].pc \notin {"idle", "told"} /\ SpendList("drops")
  /\ Goes(l, NoLister)
  /\ UNCHANGED <<credential, resting, rowsKept, listCache, keeper, kept, running, settled, overlaid>>

-----------------------------------------------------------------------------
(*                      Credentials and settings                           *)

Keeps(k, row) == keeper' = [keeper EXCEPT ![k] = row]

(* "replace": replace_oauth_credentials; "reauth": account_tools reauth;   *)
(* "sync": crs_sync; "edit": update_account.                               *)
WriteCredential(k, op, a, c) ==
  /\ keeper[k].pc = "idle" /\ SpendList("writes") /\ <<op, a>> \in listBudget.ops /\ c # credential[a]
  /\ credential' = [credential EXCEPT ![a] = c] /\ settled' = settled \ {a}
  /\ resting' = IF op \in {"replace", "reauth"} THEN resting \ {a} ELSE resting
  /\ keeper' = [j \in Keepers |->
       IF j = k THEN [NoKeeper EXCEPT !.pc = IF op = "edit" THEN "invalidate" ELSE "forget", !.op = op, !.account = a]
       ELSE [keeper[j] EXCEPT !.raced = @ \/ keeper[j].account = a]]
  /\ UNCHANGED <<rowsKept, listCache, lister, kept, running, overlaid>>

(* Variant: the list of the account stays.                                 *)
ForgottenNone(k) == {}
Forgotten(k) == IF keeper[k].op = "sync" THEN Sources ELSE {keeper[k].account}

ForgetLists(k) ==
  /\ keeper[k].pc = "forget"
  /\ listCache' = [a \in DOMAIN listCache \ Forgotten(k) |-> listCache[a]]
  /\ Keeps(k, IF keeper[k].op = "replace" THEN [keeper[k] EXCEPT !.pc = "invalidate"] ELSE NoKeeper)
  /\ UNCHANGED <<credential, resting, rowsKept, lister, kept, running, settled, overlaid, listBudget>>

(* No request is left that has read other credentials of the account, and  *)
(* no other change of them goes on.                                        *)
NobodyBehind(k, a) ==
  /\ \A l \in Listers : lister[l].pc \notin {"idle", "told"} /\ a \in DOMAIN lister[l].rows => lister[l].rows[a] = credential[a]
  /\ \A j \in Keepers \ {k} : keeper[j].pc = "idle" \/ keeper[j].account # a

InvalidateRows(k) ==
  LET a == keeper[k].account IN
  /\ keeper[k].pc = "invalidate"
  /\ rowsKept' = {}
  /\ settled' = IF keeper[k].op = "replace" /\ ~keeper[k].raced /\ NobodyBehind(k, a) THEN settled \cup {a} ELSE settled
  /\ Keeps(k, NoKeeper)
  /\ UNCHANGED <<credential, resting, listCache, lister, kept, running, overlaid, listBudget>>

(* update_settings: a transaction, then the copy in memory.                *)
SaveSettings(k, with) ==
  /\ keeper[k].pc = "idle" /\ SpendList("saves")
  /\ kept' = with
  /\ overlaid' = \E j \in Keepers : keeper[j].pc = "apply"
  /\ Keeps(k, [NoKeeper EXCEPT !.pc = "apply", !.with = with])
  /\ UNCHANGED <<credential, resting, rowsKept, listCache, lister, running, settled>>

ApplySettings(k) ==
  /\ keeper[k].pc = "apply" /\ running' = keeper[k].with
  /\ Keeps(k, NoKeeper)
  /\ UNCHANGED <<credential, resting, rowsKept, listCache, lister, kept, settled, overlaid, listBudget>>

KeeperDropped(k) ==
  /\ keeper[k].pc # "idle" /\ SpendList("drops")
  /\ overlaid' = (overlaid \/ keeper[k].pc = "apply")
  /\ Keeps(k, NoKeeper)
  /\ UNCHANGED <<credential, resting, rowsKept, listCache, lister, kept, running, settled>>

(* load_runtime_settings when the process starts.                          *)
RestartLists ==
  /\ SpendList("restarts")
  /\ rowsKept' = {} /\ listCache' = [a \in {} |-> 0]
  /\ lister' = [l \in Listers |-> NoLister] /\ keeper' = [k \in Keepers |-> NoKeeper]
  /\ running' = kept /\ overlaid' = FALSE /\ settled' = Sources
  /\ UNCHANGED <<credential, resting, kept>>

-----------------------------------------------------------------------------
TickPasses ==
  /\ SpendList("ticks")
  /\ listCache' = [a \in DOMAIN listCache |-> [listCache[a] EXCEPT !.age = @ + 1]]
  /\ rowsKept' = {} /\ resting' = {}
  /\ UNCHANGED <<credential, lister, keeper, kept, running, settled, overlaid>>

Failures == {"body", "token", "status", "retry", "transport"}
Operations == {"replace", "reauth", "sync", "edit"}
Settings == [attempts : {1, 2}, ticks : {1, 2}]

(* Ids are numbers; every account has credentials.                         *)
ASSUME ListAssumption ==
  /\ Sources \subseteq Nat
  /\ \A start \in ListStarts : start.credentials \in [Sources -> Credentials] /\ start.settings \in Settings

ListNext ==
  \/ \E l \in Listers :
       \/ \E allowed \in {{}, {"m1"}} : Begins1(l, allowed)
       \/ CatalogRows(l) \/ SelectRows(l) \/ KeepRows(l) \/ PickSource(l) \/ LookIntoCache(l) \/ FetchList(l)
       \/ \E how \in Failures : FetchFails(l, how)
       \/ RestSource(l) \/ InsertList(l) \/ ClearRest(l) \/ NextSource(l) \/ CollectModels(l) \/ ListerGone(l)
       \/ \E fails \in BOOLEAN : ResolveSource(l, fails)
  \/ \E k \in Keepers :
       \/ \E op \in Operations, a \in Sources, c \in Credentials : WriteCredential(k, op, a, c)
       \/ ForgetLists(k) \/ InvalidateRows(k) \/ ApplySettings(k) \/ KeeperDropped(k)
       \/ \E with \in Settings : SaveSettings(k, with)
  \/ RestartLists \/ TickPasses

ListSpec == ListInit /\ [][ListNext]_listVars

-----------------------------------------------------------------------------
(*                              Properties                                 *)

ListTypeOK ==
  /\ credential \in [Sources -> Credentials] /\ resting \subseteq Sources /\ DOMAIN listCache \subseteq Sources
  /\ kept \in Settings /\ running \in Settings
  /\ \A l \in Listers : lister[l].attempt <= lister[l].with.attempts \/ lister[l].catalog

(* What a client is shown is the list of some credentials the account had, *)
(* whole or as far as its key allows, whichever key's request filled the   *)
(* cache.                                                                  *)
ListedWhole ==
  \A l \in Listers : lister[l].told = "listed" /\ ~lister[l].catalog =>
    \E c \in lister[l].used : lister[l].list = Shown(Normalized(UpstreamSays[c]), lister[l].allowed)

(* The catalogue is what the sources that answered list, and no more.      *)
CatalogComplete ==
  \A l \in Listers : lister[l].told = "listed" /\ lister[l].catalog =>
    lister[l].models = UNION {ListedModels(Normalized(UpstreamSays[c])) : c \in lister[l].used}

(* After credentials have been replaced, the old ones' list does not come  *)
(* back, unless it was being fetched all the while.                        *)
ReplacedIsForgotten == \A a \in settled \cap DOMAIN listCache : listCache[a].of = credential[a]

(* Memory and database have the same settings, once no save is going on.   *)
SettingsAgree == (\A k \in Keepers : keeper[k].pc # "apply") => running = kept \/ overlaid

(* Every request that got an answer from upstream or cache is in the usage *)
(* log, once; the catalogue never is.                                      *)
ListIsLogged ==
  \A l \in Listers : (lister[l].told = "listed" /\ ~lister[l].catalog => lister[l].logged = 1)
                     /\ (lister[l].catalog => lister[l].logged = 0)

ListsSafe == ListTypeOK /\ ListedWhole /\ CatalogComplete /\ ReplacedIsForgotten /\ SettingsAgree /\ ListIsLogged
===============================================================================
