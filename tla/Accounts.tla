-------------------------------- MODULE Accounts -------------------------------
(***************************************************************************)
(* The administration of upstream accounts, as far as it writes the rows   *)
(* of Proxies: creation, edits one by one and in bulk, copies and Spark    *)
(* shadows (admin.rs, account_tools.rs), the import of a package           *)
(* (account_data.rs) and the synchronisation from another system           *)
(* (crs_sync.rs).                                                          *)
(*                                                                         *)
(* Credentials, names, limits and groups are not kept here: OAuthRefresh   *)
(* and Gateway are about them.                                             *)
(***************************************************************************)
EXTENDS Proxies

ReferenceIn(rows, n) == n = 0 \/ rows[n].state = "there"

(* Tables to start from: as this module's steps leave them, and as foreign *)
(* keys keep them.                                                         *)
SoundStart(proxies, accounts) ==
  /\ proxies \in [ProxyIds -> ProxyRow] /\ accounts \in [AccountIds -> AccountRow]
  /\ \A p \in ProxyIds :
       /\ IF proxies[p].state = "there" THEN ReferenceIn(proxies, proxies[p].backup) ELSE proxies[p].backup = 0
       /\ p \notin ChainIn(proxies, proxies[p].backup)
  /\ \A a \in AccountIds : accounts[a].state = "there" =>
       LET parent == accounts[a].parent IN
       /\ ReferenceIn(proxies, accounts[a].proxy) /\ ReferenceIn(accounts, parent)
       /\ parent # 0 => /\ accounts[parent].parent = 0 /\ accounts[parent].kind = "oauth"
                        /\ accounts[parent].proxy = accounts[a].proxy

ASSUME StartAssumption ==
  /\ \A start \in RouteStarts : SoundStart(start.proxies, start.accounts)
  /\ Packages \subseteq
       [kind : {"batch", "data"}, account : {Nobody} \cup ProxyUrls,
        proxies : Seq([url : ProxyUrls, usable : BOOLEAN, mode : FallbackModes, to : {Nobody} \cup ProxyUrls])]

NextAccount ==
  {a \in AccountIds : accountRow[a].state = "unused" /\ \A b \in AccountIds : b < a => accountRow[b].state # "unused"}

ShadowsOf(a) == {s \in AccountIds : AccountThere(s) /\ accountRow[s].parent = a}
WithCrs(id) == {a \in AccountIds : AccountThere(a) /\ accountRow[a].crs = id /\ accountRow[a].parent = 0}

(* Someone else is at work on the account already.                         *)
Clash(x, a) == IF a # 0 /\ \E y \in Operators \ {x} : operator[y].pc # "idle" /\ operator[y].account = a THEN {a} ELSE {}

(* A request that works on an account begins, having looked at its row.    *)
WorksOn(x, a, work) ==
  /\ Works(x, [work EXCEPT !.account = a])
  /\ clashed' = clashed \cup Clash(x, a)
  /\ UNCHANGED <<proxyRow, accountRow, snatched, crossed, uncleared>> /\ UnchangedClients

-----------------------------------------------------------------------------
(*                             New accounts                                *)

(* create_account: validate_proxy_id, validate_tls_profile_id.             *)
CreateAccount(x, kind, p, profile) ==
  /\ Asked(x, "account") /\ Refers(p) /\ (profile => tlsProfile.there)
  /\ WorksOn(x, 0, [NoWork EXCEPT !.pc = "insertAccount", !.kind = kind, !.proxy = p, !.profile = profile])

(* duplicate: of the row as it is read here.                               *)
DuplicateAccount(x, a) ==
  /\ Asked(x, "copy") /\ AccountThere(a) /\ accountRow[a].parent = 0
  /\ WorksOn(x, 0, [NoWork EXCEPT !.pc = "insertAccount", !.kind = accountRow[a].kind,
                                  !.proxy = accountRow[a].proxy, !.profile = accountRow[a].profile])

(* create_spark_shadow, up to its INSERT.                                  *)
CreateShadow(x, a) ==
  /\ Asked(x, "copy") /\ AccountThere(a)
  /\ accountRow[a].kind = "oauth" /\ accountRow[a].parent = 0 /\ ShadowsOf(a) = {}
  /\ WorksOn(x, a, [NoWork EXCEPT !.pc = "insertAccount", !.kind = "oauth", !.proxy = accountRow[a].proxy])

(* The references and the unique indices (one shadow of an account, one    *)
(* account per CRS id) are checked by the INSERT.                          *)
Insertable(work) ==
  /\ Refers(work.proxy) /\ (work.profile => tlsProfile.there)
  /\ work.account # 0 => AccountThere(work.account) /\ ShadowsOf(work.account) = {}
  /\ work.crs # Nobody => WithCrs(work.crs) = {}

NewAccount(work) ==
  [state |-> "there", kind |-> work.kind, proxy |-> work.proxy, profile |-> work.profile,
   parent |-> work.account, crs |-> work.crs]

(* A synchronisation ends with clearing the clients.                       *)
InsertAccount(x) ==
  LET work == operator[x]
      after == IF work.crs = Nobody THEN NoWork ELSE [NoWork EXCEPT !.pc = "clear"] IN
  /\ work.pc = "insertAccount"
  /\ IF ~Insertable(work) THEN Works(x, after) /\ UNCHANGED accountRow
     ELSE \E a \in NextAccount :
            /\ accountRow' = [accountRow EXCEPT ![a] = NewAccount(work)]
            /\ Assigns(x, after, {<<"account", a>>}, work.proxy)
  /\ UNCHANGED <<proxyRow, routeBudget>> /\ UnchangedClients /\ UnchangedHistory

(* import_account: always a new row; one whose proxy is not in the package *)
(* is refused, and so is one whose proxy has gone.                         *)
ImportAccount(x) ==
  LET package == operator[x].package
      p == IF package.account = Nobody THEN 0 ELSE operator[x].known[package.account] IN
  /\ operator[x].pc = "importAccount"
  /\ IF ~Refers(p) THEN EndsRequest(x) /\ UNCHANGED accountRow
     ELSE \E a \in NextAccount :
            /\ accountRow' = [accountRow EXCEPT ![a] = NewAccount([NoWork EXCEPT !.proxy = p])]
            /\ Assigns(x, NoWork, {<<"account", a>>}, p)
  /\ UNCHANGED <<proxyRow, routeBudget>> /\ UnchangedClients /\ UnchangedHistory

-----------------------------------------------------------------------------
(*                                 Edits                                   *)

(* update_account reads the row.  An edit that leaves the proxy or the      *)
(* profile out writes the one it has read.                                 *)
UpdateAccountReads(x, a, changed, p) ==
  \E profiled, profile \in BOOLEAN :
    /\ Asked(x, "account") /\ AccountThere(a) /\ accountRow[a].parent = 0
    /\ IF changed THEN Refers(p) ELSE p = accountRow[a].proxy
    /\ (~profiled => profile = accountRow[a].profile) /\ (profile => tlsProfile.there)
    /\ WorksOn(x, a, [NoWork EXCEPT !.pc = "updateAccount", !.proxy = p, !.changed = changed,
                                    !.profile = profile, !.profiled = profiled])

(* The account's row is written, its shadows' in a statement of its own.   *)
(* The clients are cleared if the proxy or the profile was given.          *)
UpdateAccountWrites(x) ==
  LET a == operator[x].account
      p == operator[x].proxy
      after == IF operator[x].changed THEN [operator[x] EXCEPT !.pc = "shadows"]
               ELSE IF operator[x].profiled THEN [NoWork EXCEPT !.pc = "clear"]
               ELSE NoWork IN
  /\ operator[x].pc = "updateAccount"
  /\ IF ~AccountThere(a) THEN Works(x, after) /\ UNCHANGED accountRow
     ELSE IF ~Refers(p) \/ (operator[x].profile /\ ~tlsProfile.there)
     THEN EndsRequest(x) /\ UNCHANGED accountRow
     ELSE /\ accountRow' = [accountRow EXCEPT ![a].proxy = p, ![a].profile = operator[x].profile]
          /\ Assigns(x, after, {<<"account", a>>}, p)
  /\ UNCHANGED <<proxyRow, routeBudget>> /\ UnchangedClients /\ UnchangedHistory

(* UPDATE ... WHERE parent_account_id.                                     *)
WithShadows(a, p) ==
  [s \in AccountIds |-> IF s \in ShadowsOf(a) THEN [accountRow[s] EXCEPT !.proxy = p] ELSE accountRow[s]]

(* It fails when the proxy has gone since; the account's row stays.        *)
ShadowsWrite(x) ==
  LET a == operator[x].account
      p == operator[x].proxy IN
  /\ operator[x].pc = "shadows"
  /\ IF ShadowsOf(a) # {} /\ ~Refers(p)
     THEN EndsRequest(x) /\ clashed' = clashed \cup {a} /\ UNCHANGED accountRow
     ELSE /\ accountRow' = WithShadows(a, p)
          /\ Assigns(x, [NoWork EXCEPT !.pc = "clear"], {<<"account", s>> : s \in ShadowsOf(a)}, p)
          /\ UNCHANGED clashed
  /\ UNCHANGED <<proxyRow, snatched, crossed, uncleared, routeBudget>> /\ UnchangedClients

(* bulk_update_accounts checks the proxy, then writes in one transaction.  *)
BulkUpdateChecks(x, a, p) ==
  /\ Asked(x, "account") /\ Refers(p)
  /\ WorksOn(x, 0, [NoWork EXCEPT !.pc = "bulkUpdate", !.item = a, !.proxy = p])

BulkUpdateWrites(x) ==
  LET a == operator[x].item
      p == operator[x].proxy IN
  /\ operator[x].pc = "bulkUpdate"
  /\ IF ~AccountThere(a) \/ accountRow[a].parent # 0 \/ ~Refers(p)
     THEN /\ Works(x, IF AccountThere(a) /\ accountRow[a].parent = 0 THEN NoWork ELSE [NoWork EXCEPT !.pc = "clear"])
          /\ UNCHANGED <<accountRow, clashed>>
     ELSE /\ accountRow' = [WithShadows(a, p) EXCEPT ![a].proxy = p]
          /\ Assigns(x, [NoWork EXCEPT !.pc = "clear"], {<<"account", b>> : b \in ShadowsOf(a) \cup {a}}, p)
          /\ clashed' = clashed \cup Clash(x, a)
  /\ UNCHANGED <<proxyRow, snatched, crossed, uncleared, routeBudget>> /\ UnchangedClients

(* delete_account: its shadow is deleted with it (ON DELETE CASCADE).      *)
DeleteAccount(x, a) ==
  /\ Asked(x, "account") /\ AccountThere(a)
  /\ accountRow' = [b \in AccountIds |-> IF b \in {a} \cup ShadowsOf(a)
                                         THEN [accountRow[b] EXCEPT !.state = "gone"] ELSE accountRow[b]]
  /\ UNCHANGED <<proxyRow, operator>> /\ UnchangedClients /\ UnchangedHistory

-----------------------------------------------------------------------------
(*                        Synchronisation (CRS)                            *)

(* sync looks the account up; sync_account lets only OpenAI's OAuth        *)
(* accounts have a shadow.                                                 *)
SyncFinds(x, id, kind, proxies, url) ==
  LET found == WithCrs(id)
      a == IF found = {} THEN 0 ELSE CHOOSE b \in found : TRUE IN
  /\ Asked(x, "sync")
  /\ kind # "oauth" => ShadowsOf(a) = {} \/ a = 0
  /\ WorksOn(x, a, [NoWork EXCEPT !.pc = "syncProxy", !.kind = kind, !.crs = id, !.changed = proxies, !.url = url])

(* sync_proxy uses the first row with this URL or adds one; without a      *)
(* proxy to synchronise the account keeps its own, as it is read here      *)
(* (current_proxy).                                                        *)
SyncProxy(x) ==
  LET a == operator[x].account
      same == {p \in ProxyIds : ProxyThere(p) /\ proxyRow[p].url = operator[x].url}
      onward == IF a = 0 THEN "insertAccount" ELSE "syncAccount"
      own == IF a = 0 THEN 0 ELSE accountRow[a].proxy IN
  /\ operator[x].pc = "syncProxy"
  /\ IF a # 0 /\ ~AccountThere(a) THEN Continues(x, "clear") /\ UNCHANGED proxyRow
     ELSE IF ~operator[x].changed \/ operator[x].url = Nobody
     THEN Works(x, [operator[x] EXCEPT !.pc = onward, !.proxy = own]) /\ UNCHANGED proxyRow
     ELSE IF same # {}
     THEN \E p \in same : /\ \A q \in same : p <= q
                          /\ Works(x, [operator[x] EXCEPT !.pc = onward, !.proxy = p]) /\ UNCHANGED proxyRow
     ELSE \E p \in NextProxy : /\ proxyRow' = [proxyRow EXCEPT ![p] = NewProxy(operator[x].url, TRUE, "none", 0)]
                               /\ Works(x, [operator[x] EXCEPT !.pc = onward, !.proxy = p])
  /\ UNCHANGED <<accountRow, routeBudget>> /\ UnchangedClients /\ UnchangedHistory

(* The kind is written with the proxy; an account that fails is one failed *)
(* item of the synchronisation.                                            *)
SyncAccount(x) ==
  LET a == operator[x].account
      p == operator[x].proxy
      onward == IF operator[x].kind = "oauth" /\ operator[x].changed THEN "shadows" ELSE "clear" IN
  /\ operator[x].pc = "syncAccount"
  /\ IF ~AccountThere(a) THEN Continues(x, onward) /\ UNCHANGED accountRow
     ELSE IF ~Refers(p) THEN Continues(x, "clear") /\ UNCHANGED accountRow
     ELSE /\ accountRow' = [accountRow EXCEPT ![a].proxy = p, ![a].kind = operator[x].kind]
          /\ Assigns(x, [operator[x] EXCEPT !.pc = onward], {<<"account", a>>}, p)
  /\ UNCHANGED <<proxyRow, routeBudget>> /\ UnchangedClients /\ UnchangedHistory

AccountStep(x) ==
  \/ InsertAccount(x) \/ ImportAccount(x) \/ UpdateAccountWrites(x) \/ ShadowsWrite(x) \/ BulkUpdateWrites(x)
  \/ SyncProxy(x) \/ SyncAccount(x)
  \/ \E p \in {0} \cup ProxyIds :
       \/ \E kind \in {"oauth", "key"}, profile \in BOOLEAN : CreateAccount(x, kind, p, profile)
       \/ \E a \in AccountIds : \/ \E changed \in BOOLEAN : UpdateAccountReads(x, a, changed, p)
                                \/ BulkUpdateChecks(x, a, p)
  \/ \E a \in AccountIds : DuplicateAccount(x, a) \/ CreateShadow(x, a) \/ DeleteAccount(x, a)
  \/ \E id \in CrsIds, kind \in {"oauth", "key"}, proxies \in BOOLEAN, url \in {Nobody} \cup ProxyUrls :
       SyncFinds(x, id, kind, proxies, url)

RouteNext == ProxyNext \/ \E x \in Operators : AccountStep(x)

RouteSpec == RouteInit /\ [][RouteNext]_routeVars

-----------------------------------------------------------------------------
(*                              Properties                                 *)

(* Types; and only what is there is referred to.                           *)
RouteTypeOK ==
  /\ proxyRow \in [ProxyIds -> ProxyRow] /\ accountRow \in [AccountIds -> AccountRow]
  /\ \A p \in ProxyIds : ProxyThere(p) => Refers(proxyRow[p].backup)
  /\ \A a \in AccountIds : AccountThere(a) => /\ Refers(accountRow[a].proxy)
                                              /\ accountRow[a].parent = 0 \/ AccountThere(accountRow[a].parent)

WritingShadows(a) == \E x \in Operators : operator[x].pc = "shadows" /\ operator[x].account = a

(* A shadow has its parent's proxy - the scheduler's query goes by its own *)
(* column, the call by the parent's - and its parent stays an OAuth        *)
(* account, unless two requests were at work on the parent at once or one  *)
(* ended between its statements.                                           *)
ShadowFollowsParent ==
  \A s \in AccountIds :
    LET a == accountRow[s].parent IN
    AccountThere(s) /\ a # 0 /\ a \notin clashed =>
      /\ accountRow[s].proxy = accountRow[a].proxy \/ WritingShadows(a)
      /\ accountRow[a].kind = "oauth"

(* What the requests for proxies, profiles and accounts promise each other.*)
RoutesSafe ==
  /\ RouteTypeOK
  /\ NothingSnatched /\ NoFallbackCycle /\ ShadowFollowsParent
  /\ ClientsFresh /\ ClientsBounded
=============================================================================
