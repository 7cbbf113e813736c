-------------------------------- MODULE Proxies --------------------------------
(***************************************************************************)
(* Proxies and the clients built for them (proxies.rs, the import of       *)
(* account_data.rs, tls_fingerprint.rs, state.rs client_for_account):      *)
(* administrators' requests at work on the same rows, gateway calls that   *)
(* look for a client meanwhile, dropped handlers and restarts.             *)
(*                                                                         *)
(* A URL stands for itself, its expiry and the switch for one flag, and a  *)
(* package names its proxies by their URLs (keys and names of rows are     *)
(* left out).  Of an account, this module keeps what refers to these rows; *)
(* Accounts adds the requests that write it.                               *)
(***************************************************************************)
EXTENDS Integers, Sequences, FiniteSets

CONSTANTS
  ProxyIds,      \* ids of proxies, given in their order (AUTOINCREMENT)
  AccountIds,    \* ids of accounts, likewise
  ProxyUrls,
  CrsIds,        \* ids of accounts in the system that is synchronised from
  Operators,     \* administrators' requests in progress
  Lookups,       \* gateway calls that need a client
  Packages,      \* what may be imported
  ClientLimit,   \* how many clients are kept (32)
  RouteStarts,   \* tables and bounds to start from
  Nobody         \* stands for no URL and for no CRS id

ASSUME RouteAssumption ==
  /\ ProxyIds \subseteq Nat \ {0} /\ AccountIds \subseteq Nat \ {0} /\ IsFiniteSet(ProxyIds)
  /\ Nobody \notin ProxyUrls \cup CrsIds /\ ClientLimit \in Nat \ {0}

VARIABLES
  proxyRow,     \* table proxies
  accountRow,   \* table accounts: what of it refers to proxies, profiles and accounts
  tlsProfile,   \* a row of tls_fingerprint_profiles and how often it was edited
  tlsClients,   \* state.tls_clients
  operator,     \* what each request has to do still
  lookup,       \* what each gateway call has to do still
  snatched,     \* references a deletion has removed that its count should have seen (history)
  crossed,      \* a fallback was written by a check that another write had overtaken (history)
  clashed,      \* accounts two requests worked on at once, or one was cut short at (history)
  uncleared,    \* a request was cut short before it cleared the clients (history)
  routeBudget

routeVars == <<proxyRow, accountRow, tlsProfile, tlsClients, operator, lookup, snatched, crossed, clashed,
               uncleared, routeBudget>>

FallbackModes == {"none", "direct", "proxy"}
Existence == {"unused", "there", "gone"}
ProxyRow == [state : Existence, url : ProxyUrls, usable : BOOLEAN, mode : FallbackModes, backup : {0} \cup ProxyIds]
AccountRow == [state : Existence, kind : {"oauth", "key"}, proxy : {0} \cup ProxyIds, profile : BOOLEAN,
               parent : {0} \cup AccountIds, crs : {Nobody} \cup CrsIds]

NoWork == [pc |-> "idle", proxy |-> 0, url |-> Nobody, usable |-> TRUE, mode |-> "none", backup |-> 0,
           account |-> 0, kind |-> "key", crs |-> Nobody, changed |-> FALSE, profile |-> FALSE, profiled |-> FALSE,
           edits |-> FALSE, package |-> <<>>, item |-> 0, known |-> [u \in ProxyUrls |-> 0],
           shifted |-> FALSE, late |-> {}]
NoLookup == [pc |-> "idle", profile |-> FALSE, route |-> "direct", edition |-> 0, overtaken |-> FALSE]

RouteInit ==
  /\ \E start \in RouteStarts : /\ proxyRow = start.proxies /\ accountRow = start.accounts
                                /\ routeBudget = start.budget
  /\ tlsProfile = [there |-> TRUE, edition |-> 1] /\ tlsClients = {}
  /\ operator = [x \in Operators |-> NoWork] /\ lookup = [c \in Lookups |-> NoLookup]
  /\ snatched = {} /\ crossed = FALSE /\ clashed = {} /\ uncleared = FALSE

ProxyThere(p) == p # 0 /\ proxyRow[p].state = "there"
AccountThere(a) == a # 0 /\ accountRow[a].state = "there"
NextProxy == {p \in ProxyIds : proxyRow[p].state = "unused" /\ \A q \in ProxyIds : q < p => proxyRow[q].state # "unused"}

(* A reference that SQLite accepts.                                        *)
Refers(p) == p = 0 \/ ProxyThere(p)

-----------------------------------------------------------------------------
(*                              Requests                                   *)

(* A request of this kind begins.                                          *)
Asked(x, what) ==
  /\ operator[x].pc = "idle" /\ what \in routeBudget.tasks /\ routeBudget.requests > 0
  /\ routeBudget' = [routeBudget EXCEPT !.requests = @ - 1]

Works(x, work) == operator' = [operator EXCEPT ![x] = work]
Continues(x, pc) == operator' = [operator EXCEPT ![x].pc = pc]
EndsRequest(x) == Works(x, NoWork)

(* x goes on; whoever has counted the references of p and not yet deleted  *)
(* it has missed these ones.                                               *)
Assigns(x, work, refs, p) ==
  operator' = [y \in Operators |->
    IF y = x THEN work
    ELSE IF p # 0 /\ operator[y].pc = "deleteRow" /\ operator[y].proxy = p
         THEN [operator[y] EXCEPT !.late = @ \cup refs]
    ELSE operator[y]]

UnchangedHistory == UNCHANGED <<snatched, crossed, clashed, uncleared>>
UnchangedClients == UNCHANGED <<tlsProfile, tlsClients, lookup>>

(* The proxies a fallback may lead to, this one included: the least set    *)
(* with this one and whatever its members fall back to.                    *)
ChainIn(rows, p) ==
  {q \in ProxyIds : \A S \in SUBSET ProxyIds :
     p \in S \cup {0} /\ (\A r \in S : rows[r].backup \in S \cup {0}) => q \in S}

Chain(p) == ChainIn(proxyRow, p)

OnCycle(q) == proxyRow[q].backup # 0 /\ q \in Chain(proxyRow[q].backup)

(* Variant: only the backup's own backup is looked at.                     *)
NextBackupDiffers(id, backup) == proxyRow[backup].backup # id

(* No fallback leads from the backup to the proxy itself.                  *)
NoCycle(id, backup) == id \notin Chain(backup)

(* validate_fallback, of a row that is to be written (0: a new one).       *)
ValidFallback(id, mode, backup) ==
  /\ mode = "proxy" <=> backup # 0
  /\ backup # 0 => backup # id /\ ProxyThere(backup) /\ (id # 0 => NoCycle(id, backup))

(* Its recursion (UNION ALL) never ends once the chain runs into a cycle.  *)
Endless(id, mode, backup) ==
  /\ id # 0 /\ mode = "proxy" /\ backup # 0 /\ backup # id /\ ProxyThere(backup)
  /\ \E q \in Chain(backup) : OnCycle(q)

(* update reads the row, takes from it what the input leaves out, and      *)
(* checks the fallback.                                                    *)
UpdateProxyChecks(x, p, usable, mode, backup, url) ==
  /\ Asked(x, "proxy") /\ ProxyThere(p)
  /\ IF Endless(p, mode, backup) THEN Continues(x, "hung")
     ELSE /\ ValidFallback(p, mode, backup)
          /\ Works(x, [NoWork EXCEPT !.pc = "updateProxy", !.proxy = p, !.usable = usable, !.mode = mode,
                                     !.backup = backup, !.url = url])
  /\ UNCHANGED <<proxyRow, accountRow>> /\ UnchangedClients /\ UnchangedHistory

(* The others that have checked a fallback and are about to write it have  *)
(* now checked an older table.                                             *)
Shifted(jobs, x) ==
  [y \in Operators |-> IF y # x /\ jobs[y].pc \in {"updateProxy", "importFallback"}
                       THEN [jobs[y] EXCEPT !.shifted = TRUE] ELSE jobs[y]]

(* A row's fallback is written by x, which goes on as work.                *)
WritesFallback(x, p, mode, backup, work) ==
  /\ crossed' = (crossed \/ operator[x].shifted)
  /\ operator' = LET jobs == [y \in Operators |->
                         IF y = x THEN work
                         ELSE IF backup # 0 /\ operator[y].pc = "deleteRow" /\ operator[y].proxy = backup
                              THEN [operator[y] EXCEPT !.late = @ \cup {<<"proxy", p>>}] ELSE operator[y]]
                 IN Shifted(jobs, x)

(* UPDATE ... WHERE id: nothing if the row has gone, an error if the       *)
(* backup has.                                                             *)
UpdateProxyWrites(x) ==
  LET p == operator[x].proxy
      backup == operator[x].backup IN
  /\ operator[x].pc = "updateProxy"
  /\ IF ~ProxyThere(p) THEN Continues(x, "clear") /\ UNCHANGED <<proxyRow, crossed>>
     ELSE IF ~Refers(backup) THEN EndsRequest(x) /\ UNCHANGED <<proxyRow, crossed>>
     ELSE /\ proxyRow' = [proxyRow EXCEPT ![p] = [state |-> "there", url |-> operator[x].url,
                                                  usable |-> operator[x].usable, mode |-> operator[x].mode,
                                                  backup |-> backup]]
          /\ WritesFallback(x, p, operator[x].mode, backup, [operator[x] EXCEPT !.pc = "clear"])
  /\ UNCHANGED <<accountRow, snatched, clashed, uncleared, routeBudget>> /\ UnchangedClients

CreateProxyChecks(x, mode, backup, url) ==
  /\ Asked(x, "proxy") /\ NextProxy # {} /\ ValidFallback(0, mode, backup)
  /\ Works(x, [NoWork EXCEPT !.pc = "createProxy", !.mode = mode, !.backup = backup, !.url = url])
  /\ UNCHANGED <<proxyRow, accountRow>> /\ UnchangedClients /\ UnchangedHistory

NewProxy(url, usable, mode, backup) ==
  [state |-> "there", url |-> url, usable |-> usable, mode |-> mode, backup |-> backup]

(* A new row is at the start of its chain: it closes no cycle.             *)
CreateProxyWrites(x) ==
  LET backup == operator[x].backup IN
  /\ operator[x].pc = "createProxy"
  /\ IF ~Refers(backup) \/ NextProxy = {} THEN EndsRequest(x) /\ UNCHANGED proxyRow
     ELSE \E p \in NextProxy :
            /\ proxyRow' = [proxyRow EXCEPT ![p] = NewProxy(operator[x].url, TRUE, operator[x].mode, backup)]
            /\ Assigns(x, NoWork, {<<"proxy", p>>}, backup)
  /\ UNCHANGED <<accountRow, routeBudget>> /\ UnchangedClients /\ UnchangedHistory

ReferencesTo(p) ==
  {<<"account", a>> : a \in {b \in AccountIds : AccountThere(b) /\ accountRow[b].proxy = p}}
  \cup {<<"proxy", q>> : q \in {r \in ProxyIds : ProxyThere(r) /\ proxyRow[r].backup = p}}

(* What delete counts.                                                     *)
UsageOf(p) == ReferencesTo(p)

DeleteProxyCounts(x, p) ==
  /\ Asked(x, "delete") /\ ProxyThere(p) /\ UsageOf(p) = {}
  /\ Works(x, [NoWork EXCEPT !.pc = "deleteRow", !.proxy = p])
  /\ UNCHANGED <<proxyRow, accountRow>> /\ UnchangedClients /\ UnchangedHistory

(* ON DELETE SET NULL, for whoever refers to it by now.                    *)
DeleteProxyRow(x) ==
  LET p == operator[x].proxy IN
  /\ operator[x].pc = "deleteRow"
  /\ IF ~ProxyThere(p) THEN EndsRequest(x) /\ UNCHANGED <<proxyRow, accountRow, snatched>>
     ELSE /\ proxyRow' = [q \in ProxyIds |->
               IF q = p THEN [proxyRow[q] EXCEPT !.state = "gone", !.backup = 0]
               ELSE IF proxyRow[q].backup = p THEN [proxyRow[q] EXCEPT !.backup = 0] ELSE proxyRow[q]]
          /\ accountRow' = [a \in AccountIds |->
               IF accountRow[a].proxy = p THEN [accountRow[a] EXCEPT !.proxy = 0] ELSE accountRow[a]]
          /\ snatched' = snatched \cup (ReferencesTo(p) \ operator[x].late)
          /\ Continues(x, "clear")
  /\ UNCHANGED <<crossed, clashed, uncleared, routeBudget>> /\ UnchangedClients

(* tls_clients.clear().                                                    *)
ClearClients(x) ==
  /\ operator[x].pc = "clear" /\ EndsRequest(x)
  /\ tlsClients' = {}
  /\ UNCHANGED <<proxyRow, accountRow, tlsProfile, lookup, routeBudget>> /\ UnchangedHistory

-----------------------------------------------------------------------------
(*          Imports: batch_create ("batch"), import_data ("data")          *)

(* The URLs in the table: of equal ones the row that was read last.        *)
KnownUrls ==
  [u \in ProxyUrls |->
     LET ids == {p \in ProxyIds : ProxyThere(p) /\ proxyRow[p].url = u} IN
     IF ids = {} THEN 0 ELSE CHOOSE p \in ids : \A q \in ids : q <= p]

ImportReads(x, package) ==
  /\ Asked(x, "import") /\ package.proxies # <<>>
  /\ Works(x, [NoWork EXCEPT !.pc = "importProxy", !.item = 1, !.known = KnownUrls, !.package = package])
  /\ UNCHANGED <<proxyRow, accountRow>> /\ UnchangedClients /\ UnchangedHistory

Item(x) == operator[x].package.proxies[operator[x].item]
NextItem(work, onward) ==
  IF work.item = Len(work.package.proxies) THEN [work EXCEPT !.pc = onward, !.item = 1]
  ELSE [work EXCEPT !.item = @ + 1]

(* A proxy whose URL is known is used as it is (import_data: with the      *)
(* item's status); another one is created without a fallback.              *)
ImportProxy(x) ==
  LET item == Item(x)
      id == operator[x].known[item.url] IN
  /\ operator[x].pc = "importProxy"
  /\ IF id # 0
     THEN /\ proxyRow' = IF operator[x].package.kind = "data" /\ ProxyThere(id)
                         THEN [proxyRow EXCEPT ![id].usable = item.usable] ELSE proxyRow
          /\ Works(x, NextItem(operator[x], "importCheck"))
     ELSE \E p \in NextProxy :
          /\ proxyRow' = [proxyRow EXCEPT ![p] = NewProxy(item.url, item.usable, "none", 0)]
          /\ Works(x, NextItem([operator[x] EXCEPT !.known[item.url] = p], "importCheck"))
  /\ UNCHANGED <<accountRow, routeBudget>> /\ UnchangedClients /\ UnchangedHistory

(* batch_create ends at the first fallback that is refused; import_data    *)
(* writes "none" in its place.                                             *)
ImportCheck(x) ==
  LET item == Item(x)
      id == operator[x].known[item.url]
      backup == IF item.mode # "proxy" \/ item.to = Nobody THEN 0 ELSE operator[x].known[item.to]
      valid == IF operator[x].package.kind = "batch" THEN ValidFallback(id, item.mode, backup)
               ELSE item.mode = "proxy" => backup # 0 /\ backup # id /\ NoCycle(id, backup) IN
  /\ operator[x].pc = "importCheck"
  /\ IF operator[x].package.kind = "batch" /\ Endless(id, item.mode, backup) THEN Continues(x, "hung")
     ELSE IF operator[x].package.kind = "batch" /\ ~valid THEN EndsRequest(x)
     ELSE Works(x, [operator[x] EXCEPT !.pc = "importFallback", !.proxy = id,
                                       !.mode = IF valid THEN item.mode ELSE "none",
                                       !.backup = IF valid THEN backup ELSE 0, !.shifted = FALSE])
  /\ UNCHANGED <<proxyRow, accountRow, routeBudget>> /\ UnchangedClients /\ UnchangedHistory

(* Only batch_create ends with clearing the clients.                       *)
ImportFallback(x) ==
  LET p == operator[x].proxy
      onward == IF operator[x].package.kind = "batch" THEN "clear" ELSE "importAccount"
      after == NextItem([operator[x] EXCEPT !.pc = "importCheck"], onward) IN
  /\ operator[x].pc = "importFallback"
  /\ IF ~ProxyThere(p) THEN Works(x, after) /\ UNCHANGED <<proxyRow, crossed>>
     ELSE IF ~Refers(operator[x].backup) THEN EndsRequest(x) /\ UNCHANGED <<proxyRow, crossed>>
     ELSE /\ proxyRow' = [proxyRow EXCEPT ![p].mode = operator[x].mode, ![p].backup = operator[x].backup]
          /\ WritesFallback(x, p, operator[x].mode, operator[x].backup, after)
  /\ UNCHANGED <<accountRow, snatched, clashed, uncleared, routeBudget>> /\ UnchangedClients

-----------------------------------------------------------------------------
(*                       Profiles, calls and clients                       *)

EditsProfile(x, there) ==
  /\ Asked(x, "profile") /\ tlsProfile.there
  /\ Works(x, [NoWork EXCEPT !.pc = "clear", !.edits = TRUE])
  /\ tlsProfile' = [there |-> there, edition |-> tlsProfile.edition + 1]
  /\ lookup' = [c \in Lookups |-> IF lookup[c].pc = "insert" /\ lookup[c].profile
                                  THEN [lookup[c] EXCEPT !.overtaken = TRUE] ELSE lookup[c]]
  /\ UNCHANGED <<proxyRow, tlsClients>> /\ UnchangedHistory

UpdateProfile(x) == EditsProfile(x, TRUE) /\ UNCHANGED accountRow

(* Its accounts lose it: ON DELETE SET NULL.                               *)
DeleteProfile(x) ==
  /\ EditsProfile(x, FALSE)
  /\ accountRow' = [a \in AccountIds |-> [accountRow[a] EXCEPT !.profile = FALSE]]

Usable(p) == ProxyThere(p) /\ proxyRow[p].usable

(* effective_proxy_url, and the same expression in the scheduler's query.  *)
RouteOf(p) ==
  IF p = 0 THEN "direct"
  ELSE IF Usable(p) THEN proxyRow[p].url
  ELSE IF proxyRow[p].mode = "direct" THEN "direct"
  ELSE IF proxyRow[p].mode = "proxy" /\ proxyRow[p].backup # 0 /\ Usable(proxyRow[p].backup)
       THEN proxyRow[proxyRow[p].backup].url
  ELSE "unavailable"

(* resolve_account: a shadow goes by its parent's row.                     *)
Resolved(a) == IF accountRow[a].parent = 0 THEN a ELSE accountRow[a].parent

Key(l) == [profile |-> l.profile, route |-> l.route]
CachedFor(l) == {k \in tlsClients : Key(k) = Key(l)}

(* client_for_account fails closed; without a proxy and a profile the      *)
(* process's own client is used.                                           *)
CallResolves(c, a) ==
  LET row == accountRow[Resolved(a)]
      want == [NoLookup EXCEPT !.pc = "find", !.profile = row.profile, !.route = RouteOf(row.proxy)] IN
  /\ lookup[c].pc = "idle" /\ routeBudget.calls > 0 /\ AccountThere(a)
  /\ want.route # "unavailable" /\ (want.profile \/ want.route # "direct")
  /\ lookup' = [lookup EXCEPT ![c] = want]
  /\ routeBudget' = [routeBudget EXCEPT !.calls = @ - 1]
  /\ UNCHANGED <<proxyRow, accountRow, tlsProfile, tlsClients, operator>> /\ UnchangedHistory

FindClient(c) ==
  /\ lookup[c].pc = "find"
  /\ lookup' = [lookup EXCEPT ![c] = IF CachedFor(@) # {} THEN NoLookup
                                     ELSE [@ EXCEPT !.pc = IF lookup[c].profile THEN "read" ELSE "insert"]]
  /\ UNCHANGED <<proxyRow, accountRow, tlsProfile, tlsClients, operator, routeBudget>> /\ UnchangedHistory

ReadProfile(c) ==
  /\ lookup[c].pc = "read"
  /\ lookup' = [lookup EXCEPT ![c] = IF ~tlsProfile.there THEN NoLookup
                                     ELSE [@ EXCEPT !.pc = "insert", !.edition = tlsProfile.edition]]
  /\ UNCHANGED <<proxyRow, accountRow, tlsProfile, tlsClients, operator, routeBudget>> /\ UnchangedHistory

(* A client built meanwhile by another call is kept; a full cache is       *)
(* emptied first.                                                          *)
InsertClient(c) ==
  LET built == [profile |-> lookup[c].profile, route |-> lookup[c].route, edition |-> lookup[c].edition,
                overtaken |-> lookup[c].overtaken] IN
  /\ lookup[c].pc = "insert"
  /\ tlsClients' = IF CachedFor(lookup[c]) # {} THEN tlsClients
                   ELSE IF Cardinality(tlsClients) >= ClientLimit THEN {built}
                   ELSE tlsClients \cup {built}
  /\ lookup' = [lookup EXCEPT ![c] = NoLookup]
  /\ UNCHANGED <<proxyRow, accountRow, tlsProfile, operator, routeBudget>> /\ UnchangedHistory

-----------------------------------------------------------------------------
(*                      Time, lost clients, restarts                       *)

ProxyExpires(p) ==
  /\ routeBudget.expiries > 0 /\ Usable(p)
  /\ proxyRow' = [proxyRow EXCEPT ![p].usable = FALSE]
  /\ routeBudget' = [routeBudget EXCEPT !.expiries = @ - 1]
  /\ UNCHANGED <<accountRow, operator>> /\ UnchangedClients /\ UnchangedHistory

(* The steps after the first statement of a request have been reached.     *)
Halfway(x) == operator[x].pc = "shadows"

(* The handler is dropped between two statements.                          *)
RequestDropped(x) ==
  /\ operator[x].pc # "idle" /\ routeBudget.drops > 0 /\ EndsRequest(x)
  /\ routeBudget' = [routeBudget EXCEPT !.drops = @ - 1]
  /\ uncleared' = (uncleared \/ operator[x].edits)
  /\ clashed' = IF Halfway(x) THEN clashed \cup {operator[x].account} ELSE clashed
  /\ UNCHANGED <<proxyRow, accountRow, snatched, crossed>> /\ UnchangedClients

RestartRoutes ==
  /\ routeBudget.restarts > 0 /\ routeBudget' = [routeBudget EXCEPT !.restarts = @ - 1]
  /\ operator' = [x \in Operators |-> NoWork] /\ lookup' = [c \in Lookups |-> NoLookup]
  /\ tlsClients' = {} /\ uncleared' = FALSE
  /\ clashed' = clashed \cup {operator[x].account : x \in {y \in Operators : Halfway(y)}}
  /\ UNCHANGED <<proxyRow, accountRow, tlsProfile, snatched, crossed>>

ProxyStep(x) ==
  \/ UpdateProxyWrites(x) \/ CreateProxyWrites(x) \/ DeleteProxyRow(x) \/ ClearClients(x)
  \/ ImportProxy(x) \/ ImportCheck(x) \/ ImportFallback(x)
  \/ UpdateProfile(x) \/ DeleteProfile(x) \/ RequestDropped(x)
  \/ \E p \in ProxyIds : DeleteProxyCounts(x, p)
  \/ \E mode \in FallbackModes, backup \in {0} \cup ProxyIds, url \in ProxyUrls :
       \/ CreateProxyChecks(x, mode, backup, url)
       \/ \E p \in ProxyIds, usable \in BOOLEAN : UpdateProxyChecks(x, p, usable, mode, backup, url)
  \/ \E package \in Packages : ImportReads(x, package)

ProxyNext ==
  \/ \E x \in Operators : ProxyStep(x)
  \/ \E c \in Lookups : FindClient(c) \/ ReadProfile(c) \/ InsertClient(c) \/ \E a \in AccountIds : CallResolves(c, a)
  \/ \E p \in ProxyIds : ProxyExpires(p)
  \/ RestartRoutes

-----------------------------------------------------------------------------
(*                              Properties                                 *)

(* A proxy that an account or another proxy refers to is not deleted under *)
(* it, unless it was referred to only since delete had counted: an account *)
(* that is given a proxy does not go direct instead.                       *)
NothingSnatched == snatched = {}

(* Fallbacks lead in no circle, unless two of them were written at once,   *)
(* each checked before the other was there.                                *)
NoFallbackCycle == (\E p \in ProxyIds : OnCycle(p)) => crossed

(* A cached client is built from the profile as it is, unless the profile  *)
(* was edited while it was being built, or the edit was cut short.         *)
ClientsFresh ==
  \A k \in tlsClients :
    \/ ~k.profile \/ k.overtaken \/ uncleared \/ (tlsProfile.there /\ k.edition = tlsProfile.edition)
    \/ \E x \in Operators : operator[x].edits

(* One client per profile and route, and no more than the cache may keep.  *)
ClientsBounded ==
  Cardinality(tlsClients) <= ClientLimit /\ \A k, l \in tlsClients : Key(k) = Key(l) => k = l
=============================================================================
