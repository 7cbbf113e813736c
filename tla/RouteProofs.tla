------------------------------ MODULE RouteProofs ------------------------------
(***************************************************************************)
(* Calls, their accounts and their proxies, for any tables, requests and   *)
(* calls: fallbacks lead in no circle, nothing referred to is deleted,     *)
(* shadows follow their parents and cached clients are fresh; every permit *)
(* is accounted for, an account nobody edits never serves more requests    *)
(* than its limit, no attempt asks an account twice, a request stays       *)
(* within its group, and a selection goes through the priorities in order  *)
(* and misses no account.                                                  *)
(***************************************************************************)
EXTENDS Accounts, Gateway, TotalsProofs

-----------------------------------------------------------------------------
(*                               Chains                                    *)

\* S holds the backups of its members.
ClosedIn(rows, S) == \A r \in S : rows[r].backup \in S \cup {0}

Backed(rows) == \A p \in ProxyIds : rows[p].backup \in {0} \cup ProxyIds

\* A chain lies in every closed set that its proxy is in, is closed itself, and
\* starts with its proxy; the one of no proxy is empty.
LEMMA ChainLeast ==
  ASSUME NEW rows, NEW p, NEW S \in SUBSET ProxyIds, p \in S \cup {0}, ClosedIn(rows, S)
  PROVE  ChainIn(rows, p) \subseteq S
  BY DEF ChainIn, ClosedIn

LEMMA ChainClosed ==
  ASSUME NEW rows, NEW p \in {0} \cup ProxyIds, Backed(rows)
  PROVE  /\ ChainIn(rows, p) \in SUBSET ProxyIds /\ ClosedIn(rows, ChainIn(rows, p))
         /\ p # 0 => p \in ChainIn(rows, p)
         /\ p = 0 => ChainIn(rows, p) = {}
<1>1. ChainIn(rows, p) \in SUBSET ProxyIds /\ (p # 0 => p \in ChainIn(rows, p))
  BY DEF ChainIn
<1>2. ClosedIn(rows, ChainIn(rows, p)) BY <1>1, ChainLeast DEF ClosedIn, Backed, ChainIn
<1>3. p = 0 => ChainIn(rows, p) = {}
  <2>1. {} \in SUBSET ProxyIds /\ ClosedIn(rows, {})
    BY DEF ClosedIn
  <2> QED BY <2>1, ChainLeast
<1> QED BY <1>1, <1>2, <1>3

\* No row falls back to itself, over however many others.
Acyclic(rows) == \A p \in ProxyIds : p \notin ChainIn(rows, rows[p].backup)

\* Without a fallback, or with as many, chains do not grow.
LEMMA ChainShrinks ==
  ASSUME NEW rows, NEW new, Backed(rows), NEW p \in {0} \cup ProxyIds,
         \A q \in ProxyIds : new[q].backup \in {0, rows[q].backup}
  PROVE  ChainIn(new, p) \subseteq ChainIn(rows, p)
BY ChainClosed, ChainLeast DEF ClosedIn

LEMMA AcyclicShrinks ==
  ASSUME NEW rows, NEW new, Backed(rows), Acyclic(rows),
         \A q \in ProxyIds : new[q].backup \in {0, rows[q].backup}
  PROVE  Acyclic(new)
BY ChainClosed, ChainShrinks DEF Acyclic, Backed

\* A fallback to a proxy from which no fallback leads back closes no circle.
LEMMA AcyclicGrows ==
  ASSUME NEW rows, NEW new, Backed(rows), Acyclic(rows), NEW p \in ProxyIds, NEW d \in {0} \cup ProxyIds,
         p \notin ChainIn(rows, d), new[p].backup = d,
         \A q \in ProxyIds \ {p} : new[q].backup = rows[q].backup
  PROVE  Acyclic(new)
<1> DEFINE C == ChainIn(rows, d)
<1>1. C \in SUBSET ProxyIds /\ ClosedIn(rows, C) /\ ClosedIn(new, C) /\ d \in C \cup {0}
  BY ChainClosed DEF ClosedIn
<1> SUFFICES ASSUME NEW q \in ProxyIds, q \in ChainIn(new, new[q].backup)
             PROVE  FALSE
  BY DEF Acyclic
<1>2. CASE q = p
  BY <1>1, <1>2, ChainLeast
<1>3. CASE q # p
  <2> DEFINE e == rows[q].backup
             E == ChainIn(rows, e)
  <2>1. new[q].backup = e /\ e \in {0} \cup ProxyIds /\ q \notin E
    BY <1>3 DEF Acyclic, Backed
  <2>2. E \in SUBSET ProxyIds /\ ClosedIn(rows, E) /\ e \in E \cup {0}
    BY <2>1, ChainClosed
  <2>3. CASE q \notin C
    <3>1. E \cup C \in SUBSET ProxyIds /\ ClosedIn(new, E \cup C) /\ e \in (E \cup C) \cup {0}
      BY <1>1, <2>2 DEF ClosedIn
    <3> QED BY <2>1, <2>3, <3>1, ChainLeast
  <2>4. CASE q \in C
    <3>1. e \in C \cup {0}
      BY <1>1, <2>4 DEF ClosedIn
    <3>2. E \subseteq C
      BY <1>1, <3>1, ChainLeast
    <3>3. ClosedIn(new, E)
      BY <2>2, <3>2 DEF ClosedIn
    <3> QED BY <2>1, <2>2, <3>3, ChainLeast
  <2> QED BY <2>3, <2>4
<1> QED BY <1>2, <1>3

\* A row that nothing falls back to is in no chain but its own.
LEMMA ChainOfFresh ==
  ASSUME NEW rows, NEW new, Backed(rows), NEW p \in ProxyIds, NEW q \in {0} \cup ProxyIds, q # p,
         \A r \in ProxyIds : rows[r].backup # p,
         \A r \in ProxyIds \ {p} : new[r].backup = rows[r].backup
  PROVE  p \notin ChainIn(rows, q) /\ ChainIn(new, q) \subseteq ChainIn(rows, q)
<1> DEFINE R == ChainIn(rows, q) \ {p}
<1>1. /\ R \in SUBSET ProxyIds /\ ClosedIn(rows, R) /\ ClosedIn(new, R) /\ q \in R \cup {0}
  BY ChainClosed DEF ClosedIn
<1> QED BY <1>1, ChainLeast

-----------------------------------------------------------------------------
(*                             The invariant                               *)

JobPlaces == {"idle", "hung", "updateProxy", "createProxy", "deleteRow", "clear", "importProxy", "importCheck",
              "importFallback", "importAccount", "insertAccount", "updateAccount", "shadows", "bulkUpdate",
              "syncProxy", "syncAccount"}
Job == [pc : JobPlaces, proxy : {0} \cup ProxyIds, url : {Nobody} \cup ProxyUrls, usable : BOOLEAN,
        mode : FallbackModes, backup : {0} \cup ProxyIds, account : {0} \cup AccountIds,
        kind : {"oauth", "key"}, crs : {Nobody} \cup CrsIds, changed : BOOLEAN, profile : BOOLEAN, profiled : BOOLEAN,
        edits : BOOLEAN, package : {<<>>} \cup Packages, item : Nat,
        known : [ProxyUrls -> {0} \cup ProxyIds], shifted : BOOLEAN,
        late : SUBSET (({"account"} \X AccountIds) \cup ({"proxy"} \X ProxyIds))]
JobsTyped == operator \in [Operators -> Job]

\* A proxy that is there or was; a row that is not there has no fallback.
Used(p) == p = 0 \/ proxyRow[p].state # "unused"
GoneHaveNone == \A p \in ProxyIds : proxyRow[p].state # "there" => proxyRow[p].backup = 0

\* A shadow's parent is no shadow itself.
ParentsTop ==
  \A s \in AccountIds :
    AccountThere(s) /\ accountRow[s].parent # 0 => accountRow[accountRow[s].parent].parent = 0

\* What a request at a place has found before.
Fits(w) ==
  /\ w.pc \in {"updateProxy", "createProxy"} => w.url \in ProxyUrls
  /\ w.pc \in {"importProxy", "importCheck", "importFallback", "importAccount"} =>
       w.package \in Packages /\ w.item \in 1 .. Len(w.package.proxies)
  /\ w.pc = "bulkUpdate" => w.item \in AccountIds
  /\ w.pc = "deleteRow" => w.proxy # 0
  /\ w.edits => w.pc = "clear"
WorkKnows(w) ==
  /\ Fits(w)
  /\ w.account # 0 => accountRow[w.account].state # "unused" /\ accountRow[w.account].parent = 0
  /\ Used(w.proxy) /\ Used(w.backup) /\ \A u \in ProxyUrls : Used(w.known[u])
JobKnows(x) == WorkKnows(operator[x])

\* A check of a fallback that no other write has overtaken still holds.
FallbackKnown(x) ==
  operator[x].pc \in {"updateProxy", "importFallback"} /\ ~operator[x].shifted =>
    operator[x].proxy \notin Chain(operator[x].backup)

\* A deletion has counted every reference but the late ones.
DeletionKnows(x) ==
  operator[x].pc = "deleteRow" /\ ProxyThere(operator[x].proxy) =>
    ReferencesTo(operator[x].proxy) \subseteq operator[x].late

\* A request that works alone on an account knows its row.
KnowsAccount(w, a) ==
  /\ /\ w.pc \in {"insertAccount", "shadows"} \/ (w.pc \in {"updateAccount", "syncAccount"} /\ ~w.changed)
     /\ Refers(w.proxy)
     => accountRow[a].proxy = w.proxy
  /\ w.pc = "insertAccount" => accountRow[a].kind = "oauth"
  /\ w.pc \in {"syncProxy", "syncAccount"} /\ w.kind # "oauth" => ShadowsOf(a) = {}
ShadowKnows(x) ==
  LET w == operator[x]
      a == operator[x].account IN
  /\ w.pc \in {"updateAccount", "syncAccount", "shadows"} => a # 0
  /\ a # 0 /\ a \notin clashed /\ AccountThere(a) => KnowsAccount(w, a)

Working(x, a) == a # 0 /\ operator[x].pc \notin {"idle", "hung"} /\ operator[x].account = a
OneEach == \A x, y \in Operators, a \in AccountIds : x # y /\ Working(x, a) /\ Working(y, a) => a \in clashed

RowsInv == RouteTypeOK /\ JobsTyped /\ GoneHaveNone /\ ParentsTop /\ \A x \in Operators : JobKnows(x)
FallbacksInv == (~crossed => Acyclic(proxyRow)) /\ \A x \in Operators : FallbackKnown(x)
DeletionsInv == NothingSnatched /\ \A x \in Operators : DeletionKnows(x)
ShadowsInv == ShadowFollowsParent /\ OneEach /\ \A x \in Operators : ShadowKnows(x)

ClientState == [profile : BOOLEAN, route : {"direct", "unavailable"} \cup ProxyUrls, edition : Nat,
                overtaken : BOOLEAN]
LookupState == [pc : {"idle", "find", "read", "insert"}, profile : BOOLEAN,
                route : {"direct", "unavailable"} \cup ProxyUrls, edition : Nat, overtaken : BOOLEAN]
ClientsTyped ==
  /\ tlsProfile \in [there : BOOLEAN, edition : Nat]
  /\ tlsClients \subseteq ClientState /\ IsFiniteSet(tlsClients)
  /\ lookup \in [Lookups -> LookupState]

\* A client that is being built is fresh, or the profile was edited meanwhile.
LookupKnows(c) ==
  /\ lookup[c].pc = "read" => lookup[c].profile
  /\ lookup[c].pc = "insert" /\ lookup[c].profile =>
       lookup[c].overtaken \/ (tlsProfile.there /\ lookup[c].edition = tlsProfile.edition)

ClientsInv == ClientsTyped /\ ClientsFresh /\ ClientsBounded /\ \A c \in Lookups : LookupKnows(c)

RoutesInv == RowsInv /\ FallbacksInv /\ DeletionsInv /\ ShadowsInv /\ ClientsInv

-----------------------------------------------------------------------------
(*                        What steps have in common                        *)

\* A request as it was, but for what others tell it.
Alike(old, new) ==
  /\ new.pc = old.pc /\ new.proxy = old.proxy /\ new.url = old.url /\ new.usable = old.usable
  /\ new.mode = old.mode /\ new.backup = old.backup /\ new.account = old.account /\ new.kind = old.kind
  /\ new.crs = old.crs /\ new.changed = old.changed /\ new.profile = old.profile /\ new.edits = old.edits
  /\ new.package = old.package /\ new.item = old.item /\ new.known = old.known
  /\ old.late \subseteq new.late /\ (old.shifted => new.shifted)
OthersKept(x) == \A y \in Operators \ {x} : Alike(operator[y], operator'[y])

\* x goes on as work.
Turns(x, work) == JobsTyped' /\ operator'[x] = work /\ OthersKept(x)

LEMMA JobTypes ==
  ASSUME JobsTyped, NEW x \in Operators
  PROVE  /\ operator[x] \in Job /\ operator[x].pc \in JobPlaces
         /\ operator[x].proxy \in {0} \cup ProxyIds /\ operator[x].backup \in {0} \cup ProxyIds
         /\ operator[x].account \in {0} \cup AccountIds /\ operator[x].url \in {Nobody} \cup ProxyUrls
         /\ operator[x].usable \in BOOLEAN /\ operator[x].mode \in FallbackModes
         /\ operator[x].kind \in {"oauth", "key"} /\ operator[x].crs \in {Nobody} \cup CrsIds
         /\ operator[x].changed \in BOOLEAN /\ operator[x].profile \in BOOLEAN /\ operator[x].edits \in BOOLEAN
         /\ operator[x].known \in [ProxyUrls -> {0} \cup ProxyIds] /\ operator[x].item \in Nat
         /\ operator[x].package \in {<<>>} \cup Packages /\ operator[x].shifted \in BOOLEAN
         /\ operator[x].late \subseteq ({"account"} \X AccountIds) \cup ({"proxy"} \X ProxyIds)
  BY DEF JobsTyped, Job

LEMMA NoWorkTyped == NoWork \in Job
  BY DEF NoWork, Job, JobPlaces, FallbackModes

LEMMA WorksTurns ==
  ASSUME JobsTyped, NEW x \in Operators, NEW work \in Job, Works(x, work)
  PROVE  Turns(x, work)
BY DEF Works, JobsTyped, Turns, OthersKept, Alike

LEMMA AssignsTurns ==
  ASSUME JobsTyped, NEW x \in Operators, NEW work \in Job, NEW p \in {0} \cup ProxyIds,
         NEW refs \in SUBSET (({"account"} \X AccountIds) \cup ({"proxy"} \X ProxyIds)), Assigns(x, work, refs, p)
  PROVE  /\ Turns(x, work)
         /\ p # 0 => \A y \in Operators \ {x} :
              operator[y].pc = "deleteRow" /\ operator[y].proxy = p => refs \subseteq operator'[y].late
<1>1. operator'[x] = work
  BY DEF Assigns
<1>2. ASSUME NEW y \in Operators \ {x}
      PROVE  /\ operator'[y] \in Job /\ Alike(operator[y], operator'[y])
             /\ p # 0 /\ operator[y].pc = "deleteRow" /\ operator[y].proxy = p => refs \subseteq operator'[y].late
  <2>1. operator[y] \in Job /\ operator[y].late \in SUBSET (({"account"} \X AccountIds) \cup ({"proxy"} \X ProxyIds))
    BY JobTypes
  <2>2. CASE p # 0 /\ operator[y].pc = "deleteRow" /\ operator[y].proxy = p BY <1>2, <2>2, <2>1 DEF Assigns, Job, Alike
  <2>3. CASE ~(p # 0 /\ operator[y].pc = "deleteRow" /\ operator[y].proxy = p) BY <1>2, <2>3, <2>1 DEF Assigns, Alike
  <2> QED BY <2>2, <2>3
<1>3. operator' \in [Operators -> Job] BY <1>1, <1>2 DEF Assigns
<1> QED BY <1>1, <1>2, <1>3 DEF Turns, JobsTyped, OthersKept

\* Whoever was to write a fallback has checked an older table.
LEMMA WritesFallbackTurns ==
  ASSUME JobsTyped, NEW x \in Operators, NEW work \in Job, NEW p \in ProxyIds, NEW mode,
         NEW backup \in {0} \cup ProxyIds, WritesFallback(x, p, mode, backup, work)
  PROVE  /\ Turns(x, work)
         /\ \A y \in Operators \ {x} :
              /\ operator'[y].pc \in {"updateProxy", "importFallback"} => operator'[y].shifted
              /\ backup # 0 /\ operator[y].pc = "deleteRow" /\ operator[y].proxy = backup =>
                   <<"proxy", p>> \in operator'[y].late
<1> DEFINE jobs == [y \in Operators |->
                     IF y = x THEN work
                     ELSE IF backup # 0 /\ operator[y].pc = "deleteRow" /\ operator[y].proxy = backup
                          THEN [operator[y] EXCEPT !.late = @ \cup {<<"proxy", p>>}] ELSE operator[y]]
<1>1. operator' = [y \in Operators |-> IF y # x /\ jobs[y].pc \in {"updateProxy", "importFallback"}
                                       THEN [jobs[y] EXCEPT !.shifted = TRUE] ELSE jobs[y]]
  BY DEF WritesFallback, Shifted
<1>2. operator'[x] = work
  BY <1>1
<1>3. ASSUME NEW y \in Operators \ {x}
      PROVE  /\ operator'[y] \in Job /\ Alike(operator[y], operator'[y])
             /\ operator'[y].pc \in {"updateProxy", "importFallback"} => operator'[y].shifted
             /\ backup # 0 /\ operator[y].pc = "deleteRow" /\ operator[y].proxy = backup =>
                   <<"proxy", p>> \in operator'[y].late
  <2>1. operator[y] \in Job /\ operator[y].late \in SUBSET (({"account"} \X AccountIds) \cup ({"proxy"} \X ProxyIds))
    BY JobTypes
  <2>2. CASE backup # 0 /\ operator[y].pc = "deleteRow" /\ operator[y].proxy = backup
    <3>1. jobs[y] = [operator[y] EXCEPT !.late = operator[y].late \cup {<<"proxy", p>>}]
      BY <1>3, <2>2
    <3>2. jobs[y].pc = "deleteRow"
      BY <2>1, <2>2, <3>1 DEF Job
    <3>3. operator'[y] = jobs[y]
      BY <1>1, <1>3, <3>2
    <3> HIDE DEF jobs
    <3> QED BY <2>1, <2>2, <3>1, <3>2, <3>3 DEF Job, Alike
  <2>3. CASE ~(backup # 0 /\ operator[y].pc = "deleteRow" /\ operator[y].proxy = backup)
    <3>1. jobs[y] = operator[y]
      BY <1>3, <2>3
    <3>2. operator'[y] = IF operator[y].pc \in {"updateProxy", "importFallback"}
                         THEN [operator[y] EXCEPT !.shifted = TRUE] ELSE operator[y]
      BY <1>1, <1>3, <3>1
    <3> HIDE DEF jobs
    <3>3. CASE operator[y].pc \in {"updateProxy", "importFallback"}
      <4>1. operator'[y] = [operator[y] EXCEPT !.shifted = TRUE]
        BY <3>2, <3>3
      <4>2. operator'[y] \in Job
        BY ZenonT(60), <2>1, <4>1 DEF Job
      <4>3. operator'[y].shifted
        BY <2>1, <4>1 DEF Job
      <4>4. Alike(operator[y], operator'[y])
        BY <2>1, <4>1, <4>3 DEF Job, Alike
      <4> QED BY <2>3, <4>2, <4>3, <4>4
    <3>4. CASE operator[y].pc \notin {"updateProxy", "importFallback"}
      BY <2>1, <2>3, <3>2, <3>4 DEF Alike
    <3> QED BY <3>3, <3>4
  <2> QED BY <2>2, <2>3
<1>4. operator' \in [Operators -> Job] BY <1>2, <1>3, <1>1
<1> QED BY <1>2, <1>3, <1>4 DEF Turns, JobsTyped, OthersKept

\* The tables, each by itself.
ProxiesSound ==
  /\ proxyRow \in [ProxyIds -> ProxyRow] /\ GoneHaveNone
  /\ \A p \in ProxyIds : ProxyThere(p) => Refers(proxyRow[p].backup)
AccountsSound ==
  /\ accountRow \in [AccountIds -> AccountRow] /\ ParentsTop
  /\ \A a \in AccountIds : AccountThere(a) => /\ Refers(accountRow[a].proxy)
                                              /\ accountRow[a].parent = 0 \/ AccountThere(accountRow[a].parent)

LEMMA RowsInvParts ==
  RowsInv <=> ProxiesSound /\ AccountsSound /\ JobsTyped /\ \A x \in Operators : JobKnows(x)
  BY DEF RowsInv, RouteTypeOK, ProxiesSound, AccountsSound

\* Rows are used once, and keep their parents.
ProxiesGrow ==
  \A p \in ProxyIds : /\ proxyRow[p].state # "unused" => proxyRow'[p].state # "unused"
                      /\ proxyRow[p].state = "gone" => proxyRow'[p].state = "gone"
AccountsGrow ==
  \A a \in AccountIds : accountRow[a].state # "unused" =>
    accountRow'[a].state # "unused" /\ accountRow'[a].parent = accountRow[a].parent

LEMMA ProxyTypes ==
  ASSUME ProxiesSound, NEW p \in ProxyIds
  PROVE  /\ proxyRow[p] \in ProxyRow /\ proxyRow[p].state \in Existence /\ proxyRow[p].url \in ProxyUrls
         /\ proxyRow[p].usable \in BOOLEAN /\ proxyRow[p].mode \in FallbackModes
         /\ proxyRow[p].backup \in {0} \cup ProxyIds /\ p # 0
  BY RouteAssumption DEF ProxiesSound, ProxyRow

LEMMA AccountTypes ==
  ASSUME AccountsSound, NEW a \in AccountIds
  PROVE  /\ accountRow[a] \in AccountRow /\ accountRow[a].state \in Existence
         /\ accountRow[a].kind \in {"oauth", "key"} /\ accountRow[a].proxy \in {0} \cup ProxyIds
         /\ accountRow[a].profile \in BOOLEAN /\ accountRow[a].parent \in {0} \cup AccountIds
         /\ accountRow[a].crs \in {Nobody} \cup CrsIds /\ a # 0
  BY RouteAssumption DEF AccountsSound, AccountRow

\* What the others know stays known.
LEMMA OthersKnow ==
  ASSUME RowsInv, NEW x \in Operators, OthersKept(x), ProxiesGrow, AccountsGrow
  PROVE  \A y \in Operators \ {x} : JobKnows(y)'
<1> SUFFICES ASSUME NEW y \in Operators \ {x}
             PROVE  JobKnows(y)'
  OBVIOUS
<1> DEFINE old == operator[y]
           new == operator'[y]
<1>1. Alike(old, new) /\ JobKnows(y)
  BY DEF OthersKept, RowsInv
<1>2. \A p \in {0} \cup ProxyIds : Used(p) => Used(p)'
  BY DEF ProxiesGrow, Used
<1>3. /\ old.proxy \in {0} \cup ProxyIds /\ old.backup \in {0} \cup ProxyIds
      /\ old.account \in {0} \cup AccountIds /\ \A u \in ProxyUrls : old.known[u] \in {0} \cup ProxyIds
  BY JobTypes DEF RowsInv
<1>4. Used(operator[y].proxy)' /\ Used(operator[y].backup)' /\ \A u \in ProxyUrls : Used(operator[y].known[u])'
  <2>1. Used(old.proxy) /\ Used(old.backup) /\ \A u \in ProxyUrls : Used(old.known[u])
    BY <1>1 DEF JobKnows, WorkKnows, Fits
  <2>2. \A p \in {0} \cup ProxyIds : Used(p) => p = 0 \/ proxyRow'[p].state # "unused"
    BY <1>2 DEF Used
  <2> QED BY <1>1, <1>3, <2>1, <2>2 DEF Alike, Used
<1>5. new.account # 0 => accountRow'[new.account].state # "unused" /\ accountRow'[new.account].parent = 0
  BY <1>1, <1>3 DEF Alike, JobKnows, WorkKnows, Fits, AccountsGrow
<1> HIDE DEF old, new
<1>6. /\ new.pc \in {"updateProxy", "createProxy"} => new.url \in ProxyUrls
      /\ new.pc \in {"importProxy", "importCheck", "importFallback", "importAccount"} =>
           new.package \in Packages /\ new.item \in 1 .. Len(new.package.proxies)
      /\ new.pc = "bulkUpdate" => new.item \in AccountIds
      /\ new.pc = "deleteRow" => new.proxy # 0
      /\ new.edits => new.pc = "clear"
  BY <1>1 DEF JobKnows, WorkKnows, Fits, old, Alike
<1> QED BY <1>4, <1>5, <1>6 DEF JobKnows, WorkKnows, Fits, new, old

\* A row is written that is there then, with a fallback that is there.
LEMMA ProxyWritten ==
  ASSUME ProxiesSound, NEW p \in ProxyIds, NEW row \in ProxyRow, row.state = "there", Refers(row.backup),
         proxyRow[p].state # "gone", proxyRow' = [proxyRow EXCEPT ![p] = row]
  PROVE  ProxiesSound' /\ ProxiesGrow /\ \A q \in {0} \cup ProxyIds : Refers(q) => Refers(q)'
<1>1. proxyRow' \in [ProxyIds -> ProxyRow] /\ proxyRow'[p] = row
      /\ \A q \in ProxyIds \ {p} : proxyRow'[q] = proxyRow[q]
  BY DEF ProxiesSound
<1>2. \A q \in {0} \cup ProxyIds : Refers(q) => Refers(q)'
  BY <1>1 DEF Refers, ProxyThere
<1>3. row.backup \in {0} \cup ProxyIds
  BY DEF ProxyRow
<1>4. \A q \in ProxyIds : ProxyThere(q)' => Refers(proxyRow[q].backup)'
  BY <1>1, <1>2, <1>3, ProxyTypes DEF ProxiesSound, ProxyThere
<1>5. GoneHaveNone' /\ ProxiesGrow
  BY <1>1, ProxyTypes DEF GoneHaveNone, ProxiesSound, ProxiesGrow, Existence
<1> QED BY <1>1, <1>2, <1>4, <1>5 DEF ProxiesSound

\* Proxies that are there stay there: so do the accounts' references.
LEMMA AccountsStaySound ==
  ASSUME AccountsSound, UNCHANGED accountRow, \A q \in {0} \cup ProxyIds : Refers(q) => Refers(q)'
  PROVE  AccountsSound' /\ AccountsGrow
BY AccountTypes DEF AccountsSound, AccountThere, AccountsGrow, ParentsTop

LEMMA ProxiesStaySound ==
  ASSUME ProxiesSound, UNCHANGED proxyRow
  PROVE  ProxiesSound' /\ ProxiesGrow /\ \A q \in {0} \cup ProxyIds : Refers(q) <=> Refers(q)'
  BY DEF ProxiesSound, ProxiesGrow, GoneHaveNone, ProxyThere, Refers

\* A step of x that leaves both tables sound.
Stands(x) == RowsInv' /\ OthersKept(x) /\ ProxiesGrow /\ AccountsGrow

LEMMA RowsStandAfter ==
  ASSUME RowsInv, NEW x \in Operators, NEW work, Turns(x, work), JobKnows(x)',
         ProxiesSound', ProxiesGrow, AccountsSound', AccountsGrow
  PROVE  Stands(x)
BY OthersKnow DEF Turns, Stands, RowsInv, RouteTypeOK, ProxiesSound, AccountsSound

LEMMA RowsStand ==
  ASSUME RowsInv, NEW x \in Operators, NEW work \in Job, Turns(x, work), WorkKnows(work),
         ProxiesSound', ProxiesGrow, AccountsSound', AccountsGrow
  PROVE  Stands(x)
<1>1. /\ work.proxy \in {0} \cup ProxyIds /\ work.backup \in {0} \cup ProxyIds
      /\ work.account \in {0} \cup AccountIds /\ \A u \in ProxyUrls : work.known[u] \in {0} \cup ProxyIds
  BY DEF Job
<1>2. \A p \in {0} \cup ProxyIds : Used(p) => Used(p)'
  BY DEF ProxiesGrow, Used
<1>3. work.account # 0 => accountRow'[work.account].state # "unused" /\ accountRow'[work.account].parent = 0
  BY <1>1 DEF WorkKnows, AccountsGrow
<1>4. WorkKnows(work)'
  BY <1>1, <1>2, <1>3 DEF WorkKnows
<1>5. JobKnows(x)'
  BY <1>4 DEF JobKnows, WorkKnows, Fits, Used, Turns
<1> QED BY <1>5, RowsStandAfter

\* A step of x that leaves the tables alone.
LEMMA QuietStands ==
  ASSUME RowsInv, NEW x \in Operators, NEW work \in Job, Works(x, work), WorkKnows(work),
         UNCHANGED <<proxyRow, accountRow>>
  PROVE  Stands(x) /\ Turns(x, work)
BY WorksTurns, ProxiesStaySound, RowsInvParts, AccountsStaySound, RowsStand DEF RowsInv

LEMMA NoWorkKnows == WorkKnows(NoWork)
  BY DEF WorkKnows, Fits, NoWork, Used

LEMMA EndStands ==
  ASSUME RowsInv, NEW x \in Operators, EndsRequest(x), UNCHANGED <<proxyRow, accountRow>>
  PROVE  Stands(x) /\ Turns(x, NoWork)
  BY QuietStands, NoWorkKnows, NoWorkTyped DEF EndsRequest

LEMMA ContinueTurns ==
  ASSUME JobsTyped, NEW x \in Operators, NEW pc \in JobPlaces, Continues(x, pc)
  PROVE  Turns(x, [operator[x] EXCEPT !.pc = pc]) /\ [operator[x] EXCEPT !.pc = pc] \in Job
<1>1. [operator[x] EXCEPT !.pc = pc] \in Job
  BY JobTypes DEF Job
<1>2. Works(x, [operator[x] EXCEPT !.pc = pc])
  BY DEF Continues, Works, JobsTyped
<1> QED BY <1>1, <1>2, WorksTurns

\* A request that goes on elsewhere, with what it knows.
Elsewhere == {"hung", "clear", "shadows", "syncAccount", "insertAccount"}

LEMMA ContinueKnows ==
  ASSUME RowsInv, NEW x \in Operators, NEW pc \in Elsewhere, operator[x].pc # "clear"
  PROVE  [operator[x] EXCEPT !.pc = pc] \in Job /\ WorkKnows([operator[x] EXCEPT !.pc = pc])
<1>1. operator[x] \in Job /\ WorkKnows(operator[x])
  BY JobTypes DEF RowsInv, JobKnows
<1>2. pc \in JobPlaces /\ pc \notin {"updateProxy", "createProxy", "importProxy", "importCheck", "importFallback",
                                     "importAccount", "bulkUpdate", "deleteRow"}
  BY DEF Elsewhere, JobPlaces
<1>3. [operator[x] EXCEPT !.pc = pc] \in Job
  BY <1>1, <1>2 DEF Job
<1>4. WorkKnows([operator[x] EXCEPT !.pc = pc])
  BY <1>1, <1>2 DEF WorkKnows, Fits, Job
<1> QED BY <1>3, <1>4

LEMMA ContinueStands ==
  ASSUME RowsInv, NEW x \in Operators, NEW pc \in Elsewhere, operator[x].pc # "clear", Continues(x, pc),
         UNCHANGED <<proxyRow, accountRow>>
  PROVE  Stands(x) /\ Turns(x, [operator[x] EXCEPT !.pc = pc])
BY ContinueKnows, QuietStands DEF Works, Continues, RowsInv, JobsTyped

-----------------------------------------------------------------------------
(*                     Rows and requests: the proxies                      *)

LEMMA UpdateProxyChecksRows ==
  ASSUME RowsInv, NEW x \in Operators, NEW p \in ProxyIds, NEW usable \in BOOLEAN, NEW mode \in FallbackModes,
         NEW backup \in {0} \cup ProxyIds, NEW url \in ProxyUrls, UpdateProxyChecks(x, p, usable, mode, backup, url)
  PROVE  Stands(x)
<1>1. CASE Endless(p, mode, backup) BY <1>1, ContinueStands DEF UpdateProxyChecks, Asked, Elsewhere
<1>2. CASE ~Endless(p, mode, backup)
  <2> DEFINE work == [NoWork EXCEPT !.pc = "updateProxy", !.proxy = p, !.usable = usable, !.mode = mode,
                                    !.backup = backup, !.url = url]
  <2>1. Works(x, work) /\ ProxyThere(p) /\ ValidFallback(p, mode, backup) /\ UNCHANGED <<proxyRow, accountRow>>
    BY <1>2 DEF UpdateProxyChecks
  <2>2. work \in Job
    BY DEF NoWork, Job, JobPlaces
  <2>3. Used(p) /\ Used(backup)
    BY <2>1 DEF Used, ProxyThere, ValidFallback
  <2>4. WorkKnows(work)
    BY <2>3, NoWorkKnows DEF WorkKnows, Fits, NoWork
  <2> HIDE DEF work
  <2> QED BY <2>1, <2>2, <2>4, QuietStands
<1> QED BY <1>1, <1>2

LEMMA UpdateProxyWritesRows ==
  ASSUME RowsInv, NEW x \in Operators, UpdateProxyWrites(x)
  PROVE  Stands(x)
<1> DEFINE p == operator[x].proxy
           backup == operator[x].backup
<1>1. operator[x] \in Job /\ WorkKnows(operator[x]) /\ operator[x].pc = "updateProxy"
  BY JobTypes DEF RowsInv, JobKnows, UpdateProxyWrites
<1>2. CASE ~ProxyThere(p)
  BY <1>1, <1>2, ContinueStands DEF UpdateProxyWrites, Elsewhere
<1>3. CASE ProxyThere(p) /\ ~Refers(backup)
  BY <1>3, EndStands DEF UpdateProxyWrites
<1>4. CASE ProxyThere(p) /\ Refers(backup)
  <2> DEFINE work == [operator[x] EXCEPT !.pc = "clear"]
             row == [state |-> "there", url |-> operator[x].url, usable |-> operator[x].usable,
                     mode |-> operator[x].mode, backup |-> backup]
  <2>1. /\ proxyRow' = [proxyRow EXCEPT ![p] = row] /\ UNCHANGED accountRow
        /\ WritesFallback(x, p, operator[x].mode, backup, work)
    BY <1>4 DEF UpdateProxyWrites
  <2>2. p \in ProxyIds /\ backup \in {0} \cup ProxyIds /\ row \in ProxyRow
    BY <1>1, <1>4, JobTypes DEF RowsInv, ProxyThere, ProxyRow, Existence, WorkKnows, Fits
  <2>3. work \in Job /\ WorkKnows(work)
    BY <1>1, ContinueKnows DEF Elsewhere
  <2> HIDE DEF work
  <2>4. Turns(x, work)
    BY <2>1, <2>2, <2>3, WritesFallbackTurns DEF RowsInv
  <2>5. row.state = "there" /\ row.backup = backup /\ proxyRow[p].state # "gone"
    BY <1>4 DEF ProxyThere
  <2> HIDE DEF row
  <2>6. ProxiesSound' /\ ProxiesGrow /\ \A q \in {0} \cup ProxyIds : Refers(q) => Refers(q)'
    BY <1>4, <2>1, <2>2, <2>5, ProxyWritten, RowsInvParts
  <2>7. AccountsSound' /\ AccountsGrow
    BY <2>1, <2>6, AccountsStaySound, RowsInvParts
  <2> QED BY <2>3, <2>4, <2>6, <2>7, RowsStand
<1> QED BY <1>2, <1>3, <1>4

LEMMA CreateProxyChecksRows ==
  ASSUME RowsInv, NEW x \in Operators, NEW mode \in FallbackModes, NEW backup \in {0} \cup ProxyIds,
         NEW url \in ProxyUrls, CreateProxyChecks(x, mode, backup, url)
  PROVE  Stands(x)
<1> DEFINE work == [NoWork EXCEPT !.pc = "createProxy", !.mode = mode, !.backup = backup, !.url = url]
<1>1. Works(x, work) /\ ValidFallback(0, mode, backup) /\ UNCHANGED <<proxyRow, accountRow>>
  BY DEF CreateProxyChecks
<1>2. work \in Job
  BY DEF NoWork, Job, JobPlaces
<1>3. WorkKnows(work)
  BY <1>1, NoWorkKnows DEF WorkKnows, Fits, NoWork, Used, ProxyThere, ValidFallback
<1> HIDE DEF work
<1> QED BY <1>1, <1>2, <1>3, QuietStands

LEMMA NextProxyUnused ==
  ASSUME NEW p \in NextProxy
  PROVE  p \in ProxyIds /\ proxyRow[p].state = "unused"
  BY DEF NextProxy

LEMMA CreateProxyWritesRows ==
  ASSUME RowsInv, NEW x \in Operators, CreateProxyWrites(x)
  PROVE  Stands(x)
<1> DEFINE backup == operator[x].backup
<1>1. operator[x] \in Job /\ WorkKnows(operator[x]) /\ operator[x].pc = "createProxy" /\ UNCHANGED accountRow
  BY JobTypes DEF RowsInv, JobKnows, CreateProxyWrites
<1>2. CASE ~Refers(backup) \/ NextProxy = {}
  BY <1>2, EndStands DEF CreateProxyWrites
<1>3. CASE Refers(backup) /\ NextProxy # {}
  <2>1. PICK p \in NextProxy :
          /\ proxyRow' = [proxyRow EXCEPT ![p] = NewProxy(operator[x].url, TRUE, operator[x].mode, backup)]
          /\ Assigns(x, NoWork, {<<"proxy", p>>}, backup)
    BY <1>3 DEF CreateProxyWrites
  <2> DEFINE row == NewProxy(operator[x].url, TRUE, operator[x].mode, backup)
  <2>2. p \in ProxyIds /\ proxyRow[p].state = "unused"
    BY NextProxyUnused
  <2>3. row \in ProxyRow /\ row.state = "there" /\ row.backup = backup /\ backup \in {0} \cup ProxyIds
    BY <1>1, JobTypes DEF RowsInv, NewProxy, ProxyRow, Existence, WorkKnows, Fits
  <2> HIDE DEF row
  <2>4. Turns(x, NoWork)
    <3>1. {<<"proxy", p>>} \in SUBSET (({"account"} \X AccountIds) \cup ({"proxy"} \X ProxyIds))
      BY <2>2
    <3> QED BY <2>1, <2>3, <3>1, AssignsTurns, NoWorkTyped DEF RowsInv
  <2>5. ProxiesSound' /\ ProxiesGrow /\ \A q \in {0} \cup ProxyIds : Refers(q) => Refers(q)'
    BY <1>3, <2>1, <2>2, <2>3, ProxyWritten, RowsInvParts DEF row
  <2>6. AccountsSound' /\ AccountsGrow
    BY <1>1, <2>5, AccountsStaySound, RowsInvParts
  <2> QED BY <2>4, <2>5, <2>6, RowsStand, NoWorkKnows, NoWorkTyped
<1> QED BY <1>2, <1>3

LEMMA DeleteProxyCountsRows ==
  ASSUME RowsInv, NEW x \in Operators, NEW p \in ProxyIds, DeleteProxyCounts(x, p)
  PROVE  Stands(x) /\ Turns(x, [NoWork EXCEPT !.pc = "deleteRow", !.proxy = p])
<1> DEFINE work == [NoWork EXCEPT !.pc = "deleteRow", !.proxy = p]
<1>1. Works(x, work) /\ ProxyThere(p) /\ UNCHANGED <<proxyRow, accountRow>>
  BY DEF DeleteProxyCounts
<1>2. work \in Job
  BY DEF NoWork, Job, JobPlaces, FallbackModes
<1>3. WorkKnows(work)
  BY <1>1, NoWorkKnows DEF WorkKnows, Fits, NoWork, Used, ProxyThere
<1> HIDE DEF work
<1>4. Stands(x) /\ Turns(x, work)
  BY <1>1, <1>2, <1>3, QuietStands
<1> QED BY <1>4 DEF work

\* Whoever refers to a deleted proxy is set free.
LEMMA DeleteProxyRowRows ==
  ASSUME RowsInv, NEW x \in Operators, DeleteProxyRow(x)
  PROVE  Stands(x)
<1> DEFINE p == operator[x].proxy
<1>1. operator[x] \in Job /\ WorkKnows(operator[x]) /\ operator[x].pc = "deleteRow"
  BY JobTypes DEF RowsInv, JobKnows, DeleteProxyRow
<1>2. CASE ~ProxyThere(p)
  BY <1>2, EndStands DEF DeleteProxyRow
<1>3. CASE ProxyThere(p)
  <2>1. /\ proxyRow' = [q \in ProxyIds |->
                IF q = p THEN [proxyRow[q] EXCEPT !.state = "gone", !.backup = 0]
                ELSE IF proxyRow[q].backup = p THEN [proxyRow[q] EXCEPT !.backup = 0] ELSE proxyRow[q]]
        /\ accountRow' = [a \in AccountIds |->
                IF accountRow[a].proxy = p THEN [accountRow[a] EXCEPT !.proxy = 0] ELSE accountRow[a]]
        /\ Continues(x, "clear")
    BY <1>3 DEF DeleteProxyRow
  <2>2. ProxiesSound /\ AccountsSound /\ p \in ProxyIds
    BY SMTT(30), <1>3, RowsInvParts, JobTypes DEF ProxyThere
  <2> DEFINE work == [operator[x] EXCEPT !.pc = "clear"]
  <2>3. work \in Job /\ WorkKnows(work) /\ Turns(x, work)
    BY <1>1, <2>1, ContinueKnows, ContinueTurns DEF Elsewhere, JobPlaces, RowsInv
  <2> HIDE DEF work, p
  <2>4. ASSUME NEW q \in ProxyIds
        PROVE  /\ proxyRow'[q] \in ProxyRow
               /\ q = p => proxyRow'[q].state = "gone" /\ proxyRow'[q].backup = 0
               /\ q # p => /\ proxyRow'[q].state = proxyRow[q].state
                           /\ proxyRow'[q].backup = IF proxyRow[q].backup = p THEN 0 ELSE proxyRow[q].backup
    <3>1. proxyRow[q] \in ProxyRow
      BY <2>2, ProxyTypes
    <3> QED BY <2>1, <3>1 DEF ProxyRow, Existence
  <2>5. \A q \in {0} \cup ProxyIds : q # p /\ Refers(q) => Refers(q)'
    BY <2>4 DEF Refers, ProxyThere
  <2>6. ProxiesSound' /\ ProxiesGrow
    <3>1. \A q \in ProxyIds : ProxyThere(q)' => Refers(proxyRow[q].backup)'
      BY SMTT(30), <2>4, <2>2, <2>5, ProxyTypes DEF ProxyThere, Refers, ProxiesSound
    <3>2. proxyRow' \in [ProxyIds -> ProxyRow]
      BY <2>1, <2>4
    <3>3. GoneHaveNone' /\ ProxiesGrow
      BY <2>2, <2>4, ProxyTypes DEF GoneHaveNone, ProxiesSound, ProxiesGrow, Existence, ProxyThere
    <3> QED BY <3>1, <3>2, <3>3 DEF ProxiesSound
  <2>7. ASSUME NEW a \in AccountIds
        PROVE  /\ accountRow'[a] \in AccountRow /\ accountRow'[a].state = accountRow[a].state
               /\ accountRow'[a].parent = accountRow[a].parent
               /\ accountRow'[a].proxy = IF accountRow[a].proxy = p THEN 0 ELSE accountRow[a].proxy
    <3>1. accountRow[a] \in AccountRow
      BY <2>2, AccountTypes
    <3> QED BY <2>1, <3>1 DEF AccountRow
  <2>8. AccountsSound' /\ AccountsGrow
    <3>1. \A a \in AccountIds : AccountThere(a)' => Refers(accountRow[a].proxy)'
      BY <2>2, <2>5, <2>7, AccountTypes DEF AccountsSound, AccountThere, Refers
    <3>2. accountRow' \in [AccountIds -> AccountRow]
      BY <2>1, <2>7
    <3>3. \A a \in AccountIds : AccountThere(a)' => accountRow'[a].parent = 0 \/ AccountThere(accountRow[a].parent)'
      BY <2>2, <2>7, AccountTypes DEF AccountsSound, AccountThere
    <3>4. ParentsTop' /\ AccountsGrow
      BY <2>2, <2>7, AccountTypes DEF AccountsSound, AccountsGrow, ParentsTop, AccountThere
    <3> QED BY <3>1, <3>2, <3>3, <3>4 DEF AccountsSound
  <2> QED BY SMTT(30), <2>3, <2>6, <2>8, RowsStand
<1> QED BY <1>2, <1>3

LEMMA ClearClientsRows ==
  ASSUME RowsInv, NEW x \in Operators, ClearClients(x)
  PROVE  Stands(x) /\ Turns(x, NoWork)
  BY EndStands DEF ClearClients

-----------------------------------------------------------------------------
(*                     Rows and requests: the imports                      *)

\* Of equal URLs the greatest id is known.
LEMMA KnownUrlsUsed ==
  ASSUME ProxiesSound
  PROVE  KnownUrls \in [ProxyUrls -> {0} \cup ProxyIds] /\ \A u \in ProxyUrls : Used(KnownUrls[u])
<1> SUFFICES ASSUME NEW u \in ProxyUrls
             PROVE  KnownUrls[u] \in {0} \cup ProxyIds /\ Used(KnownUrls[u])
  BY DEF KnownUrls
<1> DEFINE ids == {p \in ProxyIds : ProxyThere(p) /\ proxyRow[p].url = u}
<1>1. KnownUrls[u] = IF ids = {} THEN 0 ELSE CHOOSE p \in ids : \A q \in ids : q <= p
  BY DEF KnownUrls
<1>2. ids \in SUBSET ProxyIds /\ ids \in SUBSET Nat /\ IsFiniteSet(ids)
  BY RouteAssumption, FS_Subset
<1>3. \A p \in ids : Used(p)
  BY DEF Used, ProxyThere
<1> HIDE DEF ids
<1>4. CASE ids = {}
  BY <1>1, <1>4 DEF Used
<1>5. CASE ids # {} BY <1>2, <1>5, GreatestOf, <1>1, <1>3
<1> QED BY <1>4, <1>5

LEMMA PackageTypes ==
  ASSUME NEW package \in Packages
  PROVE  /\ package.kind \in {"batch", "data"} /\ package.account \in {Nobody} \cup ProxyUrls
         /\ Len(package.proxies) \in Nat
         /\ \A i \in 1 .. Len(package.proxies) :
              /\ package.proxies[i].url \in ProxyUrls /\ package.proxies[i].usable \in BOOLEAN
              /\ package.proxies[i].mode \in FallbackModes /\ package.proxies[i].to \in {Nobody} \cup ProxyUrls
<1> DEFINE ItemType == [url : ProxyUrls, usable : BOOLEAN, mode : FallbackModes, to : {Nobody} \cup ProxyUrls]
<1>1. /\ package.kind \in {"batch", "data"} /\ package.account \in {Nobody} \cup ProxyUrls
      /\ package.proxies \in Seq(ItemType)
  BY StartAssumption
<1>2. \A i \in 1 .. Len(package.proxies) : package.proxies[i] \in ItemType
  <2> HIDE DEF ItemType
  <2> QED BY <1>1
<1> QED BY <1>1, <1>2

LEMMA ImportReadsRows ==
  ASSUME RowsInv, NEW x \in Operators, NEW package \in Packages, ImportReads(x, package)
  PROVE  Stands(x)
<1> DEFINE work == [NoWork EXCEPT !.pc = "importProxy", !.item = 1, !.known = KnownUrls, !.package = package]
<1>1. Works(x, work) /\ package.proxies # <<>> /\ UNCHANGED <<proxyRow, accountRow>>
  BY DEF ImportReads
<1>2. KnownUrls \in [ProxyUrls -> {0} \cup ProxyIds] /\ \A u \in ProxyUrls : Used(KnownUrls[u])
  BY KnownUrlsUsed, RowsInvParts
<1>3. work \in Job
  BY <1>2 DEF NoWork, Job, JobPlaces, FallbackModes
<1>4. 1 \in 1 .. Len(package.proxies) BY StartAssumption, <1>1
<1>5. WorkKnows(work)
  BY <1>2, <1>4, NoWorkKnows DEF WorkKnows, Fits, NoWork
<1> HIDE DEF work
<1> QED BY <1>1, <1>3, <1>5, QuietStands

\* The next item is one of the package's.
LEMMA NextItemFits ==
  ASSUME NEW work \in Job, work.package \in Packages, work.item \in 1 .. Len(work.package.proxies),
         ~work.edits, NEW onward \in {"importCheck", "clear", "importAccount"},
         work.pc \in {"importProxy", "importCheck", "importFallback"}
  PROVE  LET next == NextItem(work, onward) IN
         /\ next \in Job /\ Fits(next) /\ next.pc \in {work.pc, onward}
         /\ next.proxy = work.proxy /\ next.backup = work.backup /\ next.account = work.account
         /\ next.known = work.known /\ next.edits = work.edits
<1>1. Len(work.package.proxies) \in Nat /\ work.item \in Nat
  BY SMTT(30), PackageTypes DEF Job
<1>2. PICK pc \in {work.pc, onward}, n \in 1 .. Len(work.package.proxies) :
        NextItem(work, onward) = [work EXCEPT !.pc = pc, !.item = n]
  <2>1. CASE work.item = Len(work.package.proxies)
    <3>1. NextItem(work, onward) = [work EXCEPT !.pc = onward, !.item = 1] /\ 1 \in 1 .. Len(work.package.proxies)
      BY <1>1, <2>1 DEF NextItem
    <3> QED BY <3>1
  <2>2. CASE work.item # Len(work.package.proxies)
    <3>1. NextItem(work, onward) = [work EXCEPT !.item = work.item + 1] /\ work.item + 1 \in 1 .. Len(work.package.proxies)
      BY <1>1, <2>2 DEF NextItem
    <3>2. [work EXCEPT !.item = work.item + 1] = [work EXCEPT !.pc = work.pc, !.item = work.item + 1]
      BY DEF Job
    <3> QED BY <3>1, <3>2
  <2> QED BY <2>1, <2>2
<1>3. pc \in JobPlaces /\ n \in Nat
  BY <1>1 DEF Job, JobPlaces
<1> DEFINE next == [work EXCEPT !.pc = pc, !.item = n]
<1>4. next \in Job
  BY ZenonT(60), <1>3 DEF Job
<1>5. /\ next.pc = pc /\ next.item = n /\ next.package = work.package /\ next.url = work.url
      /\ next.proxy = work.proxy /\ next.backup = work.backup /\ next.account = work.account
      /\ next.known = work.known /\ next.edits = work.edits
  BY DEF Job
<1> HIDE DEF next
<1>6. Fits(next)
  BY <1>2, <1>5 DEF Fits
<1>7. NextItem(work, onward) = next
  BY <1>2 DEF next
<1> QED BY <1>2, <1>4, <1>5, <1>6, <1>7

LEMMA NextItemKnows ==
  ASSUME NEW work \in Job, WorkKnows(work), work.package \in Packages, work.item \in 1 .. Len(work.package.proxies),
         ~work.edits, NEW onward \in {"importCheck", "clear", "importAccount"},
         work.pc \in {"importProxy", "importCheck", "importFallback"}
  PROVE  NextItem(work, onward) \in Job /\ WorkKnows(NextItem(work, onward))
BY NextItemFits DEF WorkKnows

LEMMA ItemTypes ==
  ASSUME RowsInv, NEW x \in Operators, operator[x].pc \in {"importProxy", "importCheck", "importFallback"}
  PROVE  /\ operator[x] \in Job /\ WorkKnows(operator[x]) /\ operator[x].package \in Packages
         /\ operator[x].item \in 1 .. Len(operator[x].package.proxies) /\ ~operator[x].edits
         /\ Item(x).url \in ProxyUrls /\ Item(x).usable \in BOOLEAN /\ Item(x).mode \in FallbackModes
         /\ Item(x).to \in {Nobody} \cup ProxyUrls
BY JobTypes, PackageTypes DEF RowsInv, JobKnows, WorkKnows, Fits, Item

\* An import that makes a proxy knows its id.
LEMMA ImportProxyRows ==
  ASSUME RowsInv, NEW x \in Operators, ImportProxy(x)
  PROVE  /\ Stands(x) /\ ~operator[x].edits
         /\ \A q \in ProxyIds : proxyRow'[q].backup = proxyRow[q].backup
         /\ \A q \in ProxyIds : ProxyThere(q)' => ProxyThere(q) \/ proxyRow[q].state = "unused"
         /\ operator'[x].pc \in {"importProxy", "importCheck"} /\ operator'[x].account = operator[x].account
         /\ UNCHANGED accountRow
<1> DEFINE item == Item(x)
           id == operator[x].known[item.url]
<1>1. operator[x].pc = "importProxy" /\ UNCHANGED accountRow
  BY DEF ImportProxy
<1>2. /\ operator[x] \in Job /\ WorkKnows(operator[x]) /\ operator[x].package \in Packages
      /\ operator[x].item \in 1 .. Len(operator[x].package.proxies) /\ ~operator[x].edits
      /\ item.url \in ProxyUrls /\ item.usable \in BOOLEAN
      /\ id \in {0} \cup ProxyIds /\ ProxiesSound /\ AccountsSound
  BY <1>1, ItemTypes, RowsInvParts DEF Job
<1> HIDE DEF item
<1>3. CASE id # 0
  <2>1. /\ proxyRow' = IF operator[x].package.kind = "data" /\ ProxyThere(id)
                       THEN [proxyRow EXCEPT ![id].usable = item.usable] ELSE proxyRow
        /\ Works(x, NextItem(operator[x], "importCheck"))
    BY <1>3 DEF ImportProxy, item
  <2> DEFINE work == NextItem(operator[x], "importCheck")
  <2>2. work \in Job /\ WorkKnows(work) /\ work.pc \in {"importProxy", "importCheck"}
        /\ work.account = operator[x].account
    BY <1>1, <1>2, NextItemFits, NextItemKnows
  <2> HIDE DEF work
  <2>3. Turns(x, work)
    BY <2>1, <2>2, WorksTurns DEF RowsInv, work
  <2>4. /\ ProxiesSound' /\ ProxiesGrow /\ \A q \in {0} \cup ProxyIds : Refers(q) => Refers(q)'
        /\ \A q \in ProxyIds : proxyRow'[q].backup = proxyRow[q].backup /\ proxyRow'[q].state = proxyRow[q].state
    <3>1. CASE operator[x].package.kind = "data" /\ ProxyThere(id)
      <4> DEFINE row == [proxyRow[id] EXCEPT !.usable = item.usable]
      <4>1. proxyRow[id] \in ProxyRow /\ id \in ProxyIds /\ proxyRow[id].state = "there" /\ Refers(proxyRow[id].backup)
        BY SMTT(30), <1>2, <1>3, <3>1, ProxyTypes DEF ProxyThere, ProxiesSound
      <4>2. /\ row \in ProxyRow /\ row.state = "there" /\ row.backup = proxyRow[id].backup
            /\ proxyRow' = [proxyRow EXCEPT ![id] = row]
        BY ZenonT(60), <1>2, <2>1, <3>1, <4>1 DEF ProxyRow
      <4> HIDE DEF row
      <4>3. \A q \in ProxyIds : proxyRow'[q].backup = proxyRow[q].backup /\ proxyRow'[q].state = proxyRow[q].state
        BY SMTT(30), <1>2, <4>1, <4>2 DEF ProxiesSound
      <4> QED BY <1>2, <4>1, <4>2, <4>3, ProxyWritten
    <3>2. CASE ~(operator[x].package.kind = "data" /\ ProxyThere(id))
      BY <1>2, <2>1, <3>2, ProxiesStaySound
    <3> QED BY SMTT(30), <3>1, <3>2
  <2>5. AccountsSound' /\ AccountsGrow
    BY <1>1, <1>2, <2>4, AccountsStaySound
  <2>6. Stands(x)
    BY <2>2, <2>3, <2>4, <2>5, RowsStand
  <2> QED BY <1>1, <1>2, <2>2, <2>3, <2>4, <2>6 DEF Turns, ProxyThere
<1>4. CASE id = 0
  <2>1. PICK p \in NextProxy :
          /\ proxyRow' = [proxyRow EXCEPT ![p] = NewProxy(item.url, item.usable, "none", 0)]
          /\ Works(x, NextItem([operator[x] EXCEPT !.known[item.url] = p], "importCheck"))
    BY <1>4 DEF ImportProxy, item
  <2>2. p \in ProxyIds /\ proxyRow[p].state = "unused"
    BY NextProxyUnused
  <2> DEFINE row == NewProxy(item.url, item.usable, "none", 0)
             base == [operator[x] EXCEPT !.known[item.url] = p]
             work == NextItem(base, "importCheck")
  <2>3. row \in ProxyRow /\ row.state = "there" /\ row.backup = 0
    BY <1>2 DEF NewProxy, ProxyRow, Existence, FallbackModes
  <2>4. /\ base \in Job /\ base.package = operator[x].package /\ base.item = operator[x].item
        /\ base.pc = operator[x].pc /\ base.proxy = operator[x].proxy /\ base.backup = operator[x].backup
        /\ base.account = operator[x].account /\ base.edits = operator[x].edits
        /\ base.known = [operator[x].known EXCEPT ![item.url] = p]
    BY <1>2, <2>2 DEF Job
  <2> HIDE DEF row, base
  <2>5. /\ work \in Job /\ Fits(work) /\ work.pc \in {"importProxy", "importCheck"}
        /\ work.proxy = operator[x].proxy /\ work.backup = operator[x].backup
        /\ work.account = operator[x].account /\ work.known = [operator[x].known EXCEPT ![item.url] = p]
    BY <1>1, <1>2, <2>4, NextItemFits
  <2> HIDE DEF work
  <2>6. Turns(x, work)
    BY <2>1, <2>5, WorksTurns DEF RowsInv, work, base
  <2>7. ProxiesSound' /\ ProxiesGrow /\ \A q \in {0} \cup ProxyIds : Refers(q) => Refers(q)'
    BY <1>2, <2>1, <2>2, <2>3, ProxyWritten DEF row, Refers
  <2>8. AccountsSound' /\ AccountsGrow
    BY <1>1, <1>2, <2>7, AccountsStaySound
  <2>9. JobKnows(x)'
    <3>1. PICK w : w = work
      OBVIOUS
    <3>2. proxyRow'[p].state # "unused"
      BY <1>2, <2>1, <2>2, <2>3 DEF ProxiesSound, row
    <3>3. \A q \in {0} \cup ProxyIds : Used(q) => Used(q)'
      BY <2>7 DEF ProxiesGrow, Used
    <3>4. /\ operator[x].proxy \in {0} \cup ProxyIds /\ operator[x].backup \in {0} \cup ProxyIds
          /\ operator[x].known \in [ProxyUrls -> {0} \cup ProxyIds] /\ operator[x].account \in {0} \cup AccountIds
      BY <1>2 DEF Job
    <3>5. Used(operator[x].proxy) /\ Used(operator[x].backup) /\ \A u \in ProxyUrls : Used(operator[x].known[u])
      BY <1>2 DEF WorkKnows
    <3>6. Used(w.proxy)' /\ Used(w.backup)'
      BY <2>5, <3>1, <3>3, <3>4, <3>5
    <3>7. \A u \in ProxyUrls : Used(w.known[u])'
      <4> SUFFICES ASSUME NEW u \in ProxyUrls
                   PROVE  Used(w.known[u])'
        OBVIOUS
      <4>1. CASE u = item.url
        BY <1>2, <2>5, <3>1, <3>2, <3>4, <4>1 DEF Used
      <4>2. CASE u # item.url
        BY <1>2, <2>5, <3>1, <3>3, <3>4, <3>5, <4>2
      <4> QED BY <4>1, <4>2
    <3>8. w.account # 0 => accountRow'[w.account].state # "unused" /\ accountRow'[w.account].parent = 0
      BY <1>1, <1>2, <2>5, <3>1 DEF WorkKnows
    <3>9. WorkKnows(w)'
      BY <2>5, <3>1, <3>6, <3>7, <3>8 DEF WorkKnows, Fits
    <3>10. operator'[x] = w
      BY <2>6, <3>1 DEF Turns
    <3> QED BY <3>9, <3>10 DEF JobKnows, WorkKnows, Fits, Used
  <2>10. Stands(x)
    BY <2>6, <2>7, <2>8, <2>9, RowsStandAfter
  <2>11. \A q \in ProxyIds : proxyRow'[q].backup = proxyRow[q].backup
    BY <1>2, <2>1, <2>2, <2>3 DEF ProxiesSound, GoneHaveNone, row
  <2>12. \A q \in ProxyIds : q # p => proxyRow'[q] = proxyRow[q]
    BY <2>1
  <2> QED BY <1>1, <1>2, <2>2, <2>5, <2>6, <2>10, <2>11, <2>12 DEF Turns, ProxyThere
<1> QED BY <1>3, <1>4

LEMMA ImportCheckRows ==
  ASSUME RowsInv, NEW x \in Operators, ImportCheck(x)
  PROVE  /\ Stands(x) /\ ~operator[x].edits
         /\ operator'[x].account \in {0, operator[x].account}
         /\ operator'[x].pc \in {"idle", "hung", "importFallback"}
         /\ operator'[x].pc = "importFallback" => operator'[x].proxy \notin Chain(operator'[x].backup)
<1> DEFINE item == Item(x)
           id == operator[x].known[item.url]
           backup == IF item.mode # "proxy" \/ item.to = Nobody THEN 0 ELSE operator[x].known[item.to]
           valid == IF operator[x].package.kind = "batch" THEN ValidFallback(id, item.mode, backup)
                    ELSE item.mode = "proxy" => backup # 0 /\ backup # id /\ NoCycle(id, backup)
<1>1. operator[x].pc = "importCheck" /\ UNCHANGED <<proxyRow, accountRow>>
  BY DEF ImportCheck
<1>2. /\ operator[x] \in Job /\ WorkKnows(operator[x]) /\ operator[x].package \in Packages
      /\ operator[x].item \in 1 .. Len(operator[x].package.proxies) /\ ~operator[x].edits
      /\ item.url \in ProxyUrls /\ item.mode \in FallbackModes /\ item.to \in {Nobody} \cup ProxyUrls
  BY <1>1, ItemTypes
<1>3. /\ id \in {0} \cup ProxyIds /\ backup \in {0} \cup ProxyIds /\ Used(id) /\ Used(backup)
  BY <1>2 DEF Job, WorkKnows, Used
<1>4. CASE operator[x].package.kind = "batch" /\ Endless(id, item.mode, backup)
  <2>1. Continues(x, "hung")
    BY <1>4 DEF ImportCheck
  <2>2. Stands(x) /\ Turns(x, [operator[x] EXCEPT !.pc = "hung"])
    BY <1>1, <2>1, ContinueStands DEF Elsewhere
  <2> QED BY <1>2, <2>2 DEF Turns, Job
<1>5. CASE ~(operator[x].package.kind = "batch" /\ Endless(id, item.mode, backup)) /\ operator[x].package.kind = "batch" /\ ~valid
  BY <1>5, <1>1, EndStands, <1>2 DEF ImportCheck, Turns, NoWork
<1>6. CASE ~(operator[x].package.kind = "batch" /\ Endless(id, item.mode, backup)) /\ ~(operator[x].package.kind = "batch" /\ ~valid)
  <2> DEFINE mode == IF valid THEN item.mode ELSE "none"
             to == IF valid THEN backup ELSE 0
             work == [operator[x] EXCEPT !.pc = "importFallback", !.proxy = id, !.mode = mode, !.backup = to,
                                         !.shifted = FALSE]
  <2>1. Works(x, work)
    BY SMTT(30), <1>6 DEF ImportCheck
  <2>2. mode \in FallbackModes /\ to \in {0} \cup ProxyIds /\ Used(to)
    BY <1>2, <1>3 DEF FallbackModes, Used
  <2>3. id \notin Chain(to)
    <3>1. CASE to = 0
      BY <3>1, ChainClosed, ProxyTypes, RowsInvParts DEF Chain, Backed
    <3>2. CASE to # 0
      <4>1. valid /\ to = backup
        BY <3>2
      <4>2. Chain(backup) \in SUBSET ProxyIds
        BY <1>3, ChainClosed, ProxyTypes, RowsInvParts DEF Chain, Backed
      <4>3. CASE id = 0
        BY <4>1, <4>2, <4>3, RouteAssumption
      <4>4. CASE id # 0
        BY <1>2, <3>2, <4>1, <4>4 DEF ValidFallback, NoCycle
      <4> QED BY <4>3, <4>4
    <3> QED BY <3>1, <3>2
  <2> HIDE DEF id, mode, to
  <2> DEFINE old == operator[x]
  <2>4. /\ work \in Job /\ work.pc = "importFallback" /\ work.proxy = id /\ work.backup = to
        /\ work.account = operator[x].account /\ work.known = operator[x].known
        /\ work.package = operator[x].package /\ work.item = operator[x].item /\ work.edits = operator[x].edits
    <3>1. old \in Job /\ "importFallback" \in JobPlaces
      BY <1>2 DEF JobPlaces
    <3>2. work = [old EXCEPT !.pc = "importFallback", !.proxy = id, !.mode = mode, !.backup = to, !.shifted = FALSE]
      OBVIOUS
    <3> HIDE DEF old, work
    <3>3. work \in Job
      BY ZenonT(60), <1>3, <2>2, <3>1, <3>2 DEF Job
    <3>4. /\ work.pc = "importFallback" /\ work.proxy = id /\ work.backup = to
          /\ work.account = old.account /\ work.known = old.known
          /\ work.package = old.package /\ work.item = old.item /\ work.edits = old.edits
      BY <3>1, <3>2 DEF Job
    <3> QED BY <3>3, <3>4 DEF old
  <2> HIDE DEF work
  <2>5. WorkKnows(work)
    BY <1>2, <1>3, <2>2, <2>4 DEF WorkKnows, Fits
  <2>6. Stands(x) /\ Turns(x, work)
    BY <1>1, <2>1, <2>4, <2>5, QuietStands
  <2> QED BY <1>2, <2>3, <2>4, <2>6 DEF Turns
<1> QED BY <1>4, <1>5, <1>6

LEMMA ImportFallbackRows ==
  ASSUME RowsInv, NEW x \in Operators, ImportFallback(x)
  PROVE  /\ Stands(x) /\ ~operator[x].edits
         /\ operator'[x].pc \in {"idle", "importCheck", "clear", "importAccount"}
         /\ operator'[x].account \in {0, operator[x].account} /\ UNCHANGED accountRow
<1> DEFINE p == operator[x].proxy
           backup == operator[x].backup
           onward == IF operator[x].package.kind = "batch" THEN "clear" ELSE "importAccount"
           base == [operator[x] EXCEPT !.pc = "importCheck"]
           after == NextItem(base, onward)
<1>1. operator[x].pc = "importFallback" /\ UNCHANGED accountRow
  BY DEF ImportFallback
<1>2. /\ operator[x] \in Job /\ WorkKnows(operator[x]) /\ operator[x].package \in Packages
      /\ operator[x].item \in 1 .. Len(operator[x].package.proxies) /\ ~operator[x].edits
      /\ ProxiesSound /\ AccountsSound
  BY <1>1, ItemTypes, RowsInvParts
<1>3. /\ base \in Job /\ base.pc = "importCheck" /\ base.package = operator[x].package
      /\ base.item = operator[x].item /\ base.proxy = p /\ base.backup = backup
      /\ base.account = operator[x].account /\ base.known = operator[x].known /\ base.edits = operator[x].edits
  BY <1>2 DEF Job, JobPlaces
<1>4. WorkKnows(base) BY <1>2, <1>3 DEF WorkKnows, Fits
<1>5. after \in Job /\ WorkKnows(after) /\ after.pc \in {"importCheck", "clear", "importAccount"}
      /\ after.account = operator[x].account
  <2> HIDE DEF base
  <2> QED BY <1>2, <1>3, <1>4, NextItemFits, NextItemKnows
<1> HIDE DEF after
<1>6. CASE ~ProxyThere(p) BY <1>6, <1>1, <1>5, QuietStands, <1>2 DEF ImportFallback, after, Turns
<1>7. CASE ProxyThere(p) /\ ~Refers(backup) BY <1>7, <1>1, EndStands, <1>2 DEF ImportFallback, Turns, NoWork
<1>8. CASE ProxyThere(p) /\ Refers(backup)
  <2>1. /\ proxyRow' = [proxyRow EXCEPT ![p].mode = operator[x].mode, ![p].backup = backup]
        /\ WritesFallback(x, p, operator[x].mode, backup, after)
    BY <1>8 DEF ImportFallback, after
  <2> DEFINE row == [proxyRow[p] EXCEPT !.mode = operator[x].mode, !.backup = backup]
  <2>2. p \in ProxyIds /\ backup \in {0} \cup ProxyIds /\ operator[x].mode \in FallbackModes
        /\ proxyRow[p] \in ProxyRow /\ proxyRow[p].state = "there"
    BY <1>2, <1>8, ProxyTypes DEF Job, ProxyThere
  <2>3. row \in ProxyRow /\ row.state = "there" /\ row.backup = backup
    BY <2>2 DEF ProxyRow
  <2>4. proxyRow' = [proxyRow EXCEPT ![p] = row]
    BY <1>2, <2>1, <2>2 DEF ProxiesSound
  <2> HIDE DEF row
  <2>5. Turns(x, after)
    BY <1>5, <2>1, <2>2, WritesFallbackTurns DEF RowsInv
  <2>6. ProxiesSound' /\ ProxiesGrow /\ \A q \in {0} \cup ProxyIds : Refers(q) => Refers(q)'
    BY <1>2, <1>8, <2>2, <2>3, <2>4, ProxyWritten
  <2>7. AccountsSound' /\ AccountsGrow
    BY <1>1, <1>2, <2>6, AccountsStaySound
  <2>8. Stands(x)
    BY <1>5, <2>5, <2>6, <2>7, RowsStand
  <2> QED BY <1>1, <1>2, <1>5, <2>5, <2>8 DEF Turns
<1> QED BY <1>6, <1>7, <1>8

-----------------------------------------------------------------------------
(*              Rows and requests: profiles, time, lost requests           *)

LEMMA EditsProfileTurns ==
  ASSUME RowsInv, NEW x \in Operators, NEW there \in BOOLEAN, EditsProfile(x, there)
  PROVE  /\ Turns(x, [NoWork EXCEPT !.pc = "clear", !.edits = TRUE])
         /\ [NoWork EXCEPT !.pc = "clear", !.edits = TRUE] \in Job
         /\ WorkKnows([NoWork EXCEPT !.pc = "clear", !.edits = TRUE]) /\ UNCHANGED proxyRow
<1> DEFINE work == [NoWork EXCEPT !.pc = "clear", !.edits = TRUE]
<1>1. work \in Job
  BY DEF NoWork, Job, JobPlaces, FallbackModes
<1>2. WorkKnows(work)
  BY DEF NoWork, WorkKnows, Fits, Used
<1>3. Works(x, work) /\ UNCHANGED proxyRow
  BY DEF EditsProfile
<1> HIDE DEF work
<1>4. Turns(x, work)
  BY <1>1, <1>3, WorksTurns DEF RowsInv
<1> QED BY <1>1, <1>2, <1>3, <1>4 DEF work

LEMMA UpdateProfileRows ==
  ASSUME RowsInv, NEW x \in Operators, UpdateProfile(x)
  PROVE  Stands(x)
BY EditsProfileTurns, ProxiesStaySound, RowsInvParts, AccountsStaySound, RowsStand DEF UpdateProfile

LEMMA DeleteProfileRows ==
  ASSUME RowsInv, NEW x \in Operators, DeleteProfile(x)
  PROVE  /\ Stands(x)
         /\ \A a \in AccountIds :
              /\ accountRow'[a].state = accountRow[a].state /\ accountRow'[a].proxy = accountRow[a].proxy
              /\ accountRow'[a].parent = accountRow[a].parent /\ accountRow'[a].kind = accountRow[a].kind
<1> DEFINE work == [NoWork EXCEPT !.pc = "clear", !.edits = TRUE]
<1>1. Turns(x, work) /\ work \in Job /\ WorkKnows(work) /\ UNCHANGED proxyRow
  BY EditsProfileTurns DEF DeleteProfile
<1> HIDE DEF work
<1>2. ProxiesSound' /\ ProxiesGrow /\ \A q \in {0} \cup ProxyIds : Refers(q) <=> Refers(q)'
  BY <1>1, ProxiesStaySound, RowsInvParts
<1>3. ASSUME NEW a \in AccountIds
      PROVE  /\ accountRow'[a] \in AccountRow
             /\ accountRow'[a].state = accountRow[a].state /\ accountRow'[a].proxy = accountRow[a].proxy
             /\ accountRow'[a].parent = accountRow[a].parent /\ accountRow'[a].kind = accountRow[a].kind
  <2>1. accountRow[a] \in AccountRow /\ accountRow'[a] = [accountRow[a] EXCEPT !.profile = FALSE]
    BY AccountTypes, RowsInvParts DEF DeleteProfile
  <2> QED BY <2>1 DEF AccountRow
<1>4. AccountsSound' /\ AccountsGrow
  <2>1. AccountsSound
    BY RowsInvParts
  <2>2. accountRow' \in [AccountIds -> AccountRow]
    BY <1>3 DEF DeleteProfile
  <2>3. \A a \in AccountIds : AccountThere(a)' => Refers(accountRow[a].proxy)'
    BY <1>3, <2>1, AccountTypes, <1>1 DEF AccountsSound, AccountThere, Refers, ProxyThere
  <2>4. \A a \in AccountIds : AccountThere(a)' => accountRow'[a].parent = 0 \/ AccountThere(accountRow[a].parent)'
    BY <1>3, <2>1, AccountTypes DEF AccountsSound, AccountThere
  <2>5. ParentsTop' /\ AccountsGrow
    BY <1>3, <2>1, AccountTypes DEF AccountsSound, AccountsGrow, ParentsTop, AccountThere
  <2> QED BY <2>2, <2>3, <2>4, <2>5 DEF AccountsSound
<1> QED BY <1>1, <1>2, <1>3, <1>4, RowsStand

LEMMA RequestDroppedRows ==
  ASSUME RowsInv, NEW x \in Operators, RequestDropped(x)
  PROVE  Stands(x) /\ Turns(x, NoWork)
  BY EndStands DEF RequestDropped

\* A restart forgets every request.
LEMMA RestartRows ==
  ASSUME RowsInv, RestartRoutes
  PROVE  RowsInv' /\ \A x \in Operators : operator'[x] = NoWork
<1>1. UNCHANGED <<proxyRow, accountRow>> /\ operator' = [x \in Operators |-> NoWork]
  BY DEF RestartRoutes
<1>2. JobsTyped' /\ \A x \in Operators : operator'[x] = NoWork
  BY <1>1, NoWorkTyped DEF JobsTyped
<1>3. \A x \in Operators : JobKnows(x)'
  BY <1>2 DEF JobKnows, WorkKnows, Fits, NoWork, Used
<1>4. ProxiesSound' /\ AccountsSound'
  BY <1>1, ProxiesStaySound, AccountsStaySound, RowsInvParts
<1> QED BY <1>2, <1>3, <1>4 DEF RowsInv, RouteTypeOK, ProxiesSound, AccountsSound

\* Without a request's step its knowledge stays.
LEMMA NobodyTurns ==
  ASSUME RowsInv, UNCHANGED operator, ProxiesSound', ProxiesGrow, AccountsSound', AccountsGrow
  PROVE  RowsInv'
<1>1. ASSUME NEW x \in Operators
      PROVE  JobKnows(x)'
  <2>1. Turns(x, operator[x]) /\ operator[x] \in Job
    BY JobTypes DEF Turns, OthersKept, Alike, JobsTyped, RowsInv
  <2>2. WorkKnows(operator[x])
    BY DEF RowsInv, JobKnows
  <2>3. Stands(x)
    BY <2>1, <2>2, RowsStand
  <2> QED BY <2>3 DEF Stands, RowsInv
<1> QED BY <1>1 DEF JobsTyped, RowsInv, RouteTypeOK, ProxiesSound, AccountsSound

LEMMA ProxyExpiresRows ==
  ASSUME RowsInv, NEW p \in ProxyIds, ProxyExpires(p)
  PROVE  /\ RowsInv' /\ UNCHANGED <<accountRow, operator>>
         /\ \A q \in ProxyIds : proxyRow'[q].backup = proxyRow[q].backup /\ proxyRow'[q].state = proxyRow[q].state
<1> DEFINE row == [proxyRow[p] EXCEPT !.usable = FALSE]
<1>1. proxyRow' = [proxyRow EXCEPT ![p].usable = FALSE] /\ ProxyThere(p) /\ UNCHANGED <<accountRow, operator>>
  BY DEF ProxyExpires, Usable
<1>2. ProxiesSound /\ AccountsSound
  BY RowsInvParts
<1>3. proxyRow[p] \in ProxyRow /\ proxyRow[p].state = "there" /\ Refers(proxyRow[p].backup)
  BY <1>1, <1>2, ProxyTypes DEF ProxyThere, ProxiesSound
<1>4. /\ row \in ProxyRow /\ row.state = "there" /\ row.backup = proxyRow[p].backup
      /\ proxyRow' = [proxyRow EXCEPT ![p] = row]
  BY <1>1, <1>3 DEF ProxyRow
<1> HIDE DEF row
<1>5. ProxiesSound' /\ ProxiesGrow /\ \A q \in {0} \cup ProxyIds : Refers(q) => Refers(q)'
  BY <1>2, <1>3, <1>4, ProxyWritten
<1>6. AccountsSound' /\ AccountsGrow
  BY <1>1, <1>2, <1>5, AccountsStaySound
<1>7. \A q \in ProxyIds : proxyRow'[q].backup = proxyRow[q].backup /\ proxyRow'[q].state = proxyRow[q].state
  BY <1>2, <1>3, <1>4 DEF ProxiesSound
<1> QED BY <1>1, <1>5, <1>6, <1>7, NobodyTurns

-----------------------------------------------------------------------------
(*                     Rows and requests: the accounts                     *)

\* A new account, with a parent that has none.
LEMMA AccountMade ==
  ASSUME AccountsSound, UNCHANGED proxyRow, NEW a \in AccountIds, accountRow[a].state = "unused",
         NEW row \in AccountRow, row.state = "there", Refers(row.proxy),
         row.parent = 0 \/ (AccountThere(row.parent) /\ accountRow[row.parent].parent = 0),
         accountRow' = [accountRow EXCEPT ![a] = row]
  PROVE  AccountsSound' /\ AccountsGrow
<1>1. accountRow' \in [AccountIds -> AccountRow] /\ accountRow'[a] = row
      /\ \A b \in AccountIds \ {a} : accountRow'[b] = accountRow[b]
  BY DEF AccountsSound
<1>2. \A q : Refers(q) <=> Refers(q)'
  BY DEF Refers, ProxyThere
<1>3. row.parent \in {0} \cup AccountIds /\ row.parent # a
  BY RouteAssumption DEF AccountRow, AccountThere
<1>4. \A b \in AccountIds : AccountThere(b)' => Refers(accountRow[b].proxy)'
  BY <1>1 DEF Refers, ProxyThere, AccountsSound, AccountThere
<1>5. \A b \in AccountIds : AccountThere(b)' => accountRow'[b].parent = 0 \/ AccountThere(accountRow[b].parent)'
  BY <1>1, <1>3, AccountTypes DEF AccountsSound, AccountThere
<1>6. ParentsTop' BY <1>1, <1>3, AccountTypes DEF ParentsTop, AccountsSound, AccountThere
<1>7. AccountsGrow
  BY <1>1 DEF AccountsGrow
<1> QED BY <1>1, <1>4, <1>5, <1>6, <1>7 DEF AccountsSound

\* Accounts are given proxies that are there.
LEMMA AccountsMoved ==
  ASSUME AccountsSound, UNCHANGED proxyRow, accountRow' \in [AccountIds -> AccountRow],
         \A a \in AccountIds :
           /\ accountRow'[a].state = accountRow[a].state /\ accountRow'[a].parent = accountRow[a].parent
           /\ accountRow'[a].proxy = accountRow[a].proxy \/ Refers(accountRow'[a].proxy)
  PROVE  AccountsSound' /\ AccountsGrow
<1>1. \A a \in AccountIds : AccountThere(a)' => Refers(accountRow[a].proxy)'
  BY DEF AccountsSound, AccountThere, Refers, ProxyThere
<1>2. \A a \in AccountIds : AccountThere(a)' => accountRow'[a].parent = 0 \/ AccountThere(accountRow[a].parent)'
  BY AccountTypes DEF AccountsSound, AccountThere
<1>3. ParentsTop' /\ AccountsGrow
  BY AccountTypes DEF AccountsSound, AccountsGrow, ParentsTop, AccountThere
<1> QED BY <1>1, <1>2, <1>3 DEF AccountsSound

\* A request that works on an account begins.
LEMMA WorksOnStands ==
  ASSUME RowsInv, NEW x \in Operators, NEW a \in {0} \cup AccountIds, NEW work \in Job, WorkKnows(work),
         a # 0 => accountRow[a].state # "unused" /\ accountRow[a].parent = 0,
         WorksOn(x, a, work)
  PROVE  /\ Stands(x) /\ Turns(x, [work EXCEPT !.account = a]) /\ UNCHANGED <<proxyRow, accountRow>>
         /\ clashed' = clashed \cup Clash(x, a)
BY QuietStands DEF WorksOn, Job, WorkKnows, Fits

LEMMA ReferredUsed ==
  ASSUME NEW p, Refers(p)
  PROVE  Used(p)
  BY DEF Refers, ProxyThere, Used

LEMMA CreateAccountRows ==
  ASSUME RowsInv, NEW x \in Operators, NEW kind \in {"oauth", "key"}, NEW p \in {0} \cup ProxyIds,
         NEW profile \in BOOLEAN, CreateAccount(x, kind, p, profile)
  PROVE  /\ Stands(x) /\ UNCHANGED <<proxyRow, accountRow>> /\ clashed' = clashed \cup Clash(x, 0)
         /\ operator'[x].account = 0 /\ operator'[x].pc = "insertAccount"
<1> DEFINE work == [NoWork EXCEPT !.pc = "insertAccount", !.kind = kind, !.proxy = p, !.profile = profile]
<1>1. WorksOn(x, 0, work) /\ Used(p)
  BY ReferredUsed DEF CreateAccount
<1>2. work \in Job /\ WorkKnows(work) /\ work.pc = "insertAccount"
  <2>1. work \in Job
    BY ZenonT(60) DEF NoWork, Job, JobPlaces, FallbackModes
  <2>2. WorkKnows(work)
    BY <1>1, NoWorkKnows DEF NoWork, WorkKnows, Fits
  <2> QED BY <2>1, <2>2
<1> HIDE DEF work
<1>3. /\ Stands(x) /\ Turns(x, [work EXCEPT !.account = 0]) /\ UNCHANGED <<proxyRow, accountRow>>
      /\ clashed' = clashed \cup Clash(x, 0)
  BY <1>1, <1>2, WorksOnStands
<1> QED BY <1>2, <1>3 DEF Turns, Job

LEMMA DuplicateAccountRows ==
  ASSUME RowsInv, NEW x \in Operators, NEW a \in AccountIds, DuplicateAccount(x, a)
  PROVE  /\ Stands(x) /\ UNCHANGED <<proxyRow, accountRow>> /\ clashed' = clashed \cup Clash(x, 0)
         /\ operator'[x].account = 0 /\ operator'[x].pc = "insertAccount"
<1> DEFINE work == [NoWork EXCEPT !.pc = "insertAccount", !.kind = accountRow[a].kind,
                                  !.proxy = accountRow[a].proxy, !.profile = accountRow[a].profile]
<1>1. WorksOn(x, 0, work) /\ AccountThere(a)
  BY DEF DuplicateAccount
<1>2. /\ accountRow[a].kind \in {"oauth", "key"} /\ accountRow[a].proxy \in {0} \cup ProxyIds
      /\ accountRow[a].profile \in BOOLEAN /\ Used(accountRow[a].proxy)
  BY <1>1, AccountTypes, ReferredUsed, RowsInvParts DEF AccountsSound
<1>3. work \in Job /\ WorkKnows(work) /\ work.pc = "insertAccount"
  <2>1. work \in Job
    BY <1>2 DEF NoWork, Job, JobPlaces, FallbackModes
  <2>2. WorkKnows(work)
    BY <1>2, NoWorkKnows DEF NoWork, WorkKnows, Fits
  <2> QED BY <2>1, <2>2
<1> HIDE DEF work
<1>4. /\ Stands(x) /\ Turns(x, [work EXCEPT !.account = 0]) /\ UNCHANGED <<proxyRow, accountRow>>
      /\ clashed' = clashed \cup Clash(x, 0)
  BY <1>1, <1>3, WorksOnStands
<1> QED BY <1>3, <1>4 DEF Turns, Job

LEMMA CreateShadowRows ==
  ASSUME RowsInv, NEW x \in Operators, NEW a \in AccountIds, CreateShadow(x, a)
  PROVE  /\ Stands(x) /\ UNCHANGED <<proxyRow, accountRow>> /\ clashed' = clashed \cup Clash(x, a)
         /\ operator'[x].account = a /\ operator'[x].pc = "insertAccount"
         /\ operator'[x].proxy = accountRow[a].proxy /\ accountRow[a].kind = "oauth"
<1> DEFINE work == [NoWork EXCEPT !.pc = "insertAccount", !.kind = "oauth", !.proxy = accountRow[a].proxy]
<1>1. /\ WorksOn(x, a, work) /\ AccountThere(a) /\ accountRow[a].parent = 0 /\ accountRow[a].kind = "oauth"
  BY DEF CreateShadow
<1>2. accountRow[a].proxy \in {0} \cup ProxyIds /\ Used(accountRow[a].proxy)
  BY <1>1, AccountTypes, ReferredUsed, RowsInvParts DEF AccountsSound
<1>3. work \in Job /\ WorkKnows(work) /\ work.pc = "insertAccount" /\ work.proxy = accountRow[a].proxy
  <2>1. work \in Job
    BY <1>2 DEF NoWork, Job, JobPlaces, FallbackModes
  <2>2. WorkKnows(work)
    BY <1>2, NoWorkKnows DEF NoWork, WorkKnows, Fits
  <2> QED BY <2>1, <2>2 DEF NoWork
<1> HIDE DEF work
<1>4. /\ Stands(x) /\ Turns(x, [work EXCEPT !.account = a]) /\ UNCHANGED <<proxyRow, accountRow>>
      /\ clashed' = clashed \cup Clash(x, a)
  BY <1>1, <1>3, WorksOnStands DEF AccountThere
<1> QED BY <1>1, <1>3, <1>4 DEF Turns, Job

LEMMA UpdateAccountReadsRows ==
  ASSUME RowsInv, NEW x \in Operators, NEW a \in AccountIds, NEW changed \in BOOLEAN, NEW p \in {0} \cup ProxyIds,
         UpdateAccountReads(x, a, changed, p)
  PROVE  /\ Stands(x) /\ UNCHANGED <<proxyRow, accountRow>> /\ clashed' = clashed \cup Clash(x, a)
         /\ operator'[x].account = a /\ operator'[x].pc = "updateAccount"
         /\ operator'[x].proxy = p /\ operator'[x].changed = changed
         /\ changed \/ p = accountRow[a].proxy
<1>0. PICK profiled, profile \in BOOLEAN :
        /\ AccountThere(a) /\ accountRow[a].parent = 0
        /\ IF changed THEN Refers(p) ELSE p = accountRow[a].proxy
        /\ WorksOn(x, a, [NoWork EXCEPT !.pc = "updateAccount", !.proxy = p, !.changed = changed,
                                        !.profile = profile, !.profiled = profiled])
  BY DEF UpdateAccountReads
<1> DEFINE work == [NoWork EXCEPT !.pc = "updateAccount", !.proxy = p, !.changed = changed,
                                  !.profile = profile, !.profiled = profiled]
<1>1. /\ WorksOn(x, a, work) /\ AccountThere(a) /\ accountRow[a].parent = 0
      /\ IF changed THEN Refers(p) ELSE p = accountRow[a].proxy
  BY <1>0
<1>2. Used(p)
  BY <1>1, AccountTypes, ReferredUsed, RowsInvParts DEF AccountsSound
<1>3. work \in Job /\ WorkKnows(work) /\ work.pc = "updateAccount" /\ work.proxy = p /\ work.changed = changed
  <2>1. work \in Job
    BY <1>2 DEF NoWork, Job, JobPlaces, FallbackModes
  <2>2. WorkKnows(work)
    BY <1>2, NoWorkKnows DEF NoWork, WorkKnows, Fits
  <2> QED BY <2>1, <2>2 DEF NoWork
<1> HIDE DEF work
<1>4. /\ Stands(x) /\ Turns(x, [work EXCEPT !.account = a]) /\ UNCHANGED <<proxyRow, accountRow>>
      /\ clashed' = clashed \cup Clash(x, a)
  BY <1>1, <1>3, WorksOnStands DEF AccountThere
<1> QED BY <1>1, <1>3, <1>4 DEF Turns, Job

LEMMA BulkUpdateChecksRows ==
  ASSUME RowsInv, NEW x \in Operators, NEW a \in AccountIds, NEW p \in {0} \cup ProxyIds, BulkUpdateChecks(x, a, p)
  PROVE  /\ Stands(x) /\ UNCHANGED <<proxyRow, accountRow>> /\ clashed' = clashed \cup Clash(x, 0)
         /\ operator'[x].account = 0 /\ operator'[x].pc = "bulkUpdate"
<1> DEFINE work == [NoWork EXCEPT !.pc = "bulkUpdate", !.item = a, !.proxy = p]
<1>1. WorksOn(x, 0, work) /\ Used(p)
  BY ReferredUsed DEF BulkUpdateChecks
<1>2. work \in Job /\ WorkKnows(work) /\ work.pc = "bulkUpdate"
  <2>1. work \in Job
    BY ZenonT(60), RouteAssumption DEF NoWork, Job, JobPlaces, FallbackModes
  <2>2. WorkKnows(work)
    BY <1>1, NoWorkKnows DEF NoWork, WorkKnows, Fits
  <2> QED BY <2>1, <2>2 DEF NoWork
<1> HIDE DEF work
<1>3. /\ Stands(x) /\ Turns(x, [work EXCEPT !.account = 0]) /\ UNCHANGED <<proxyRow, accountRow>>
      /\ clashed' = clashed \cup Clash(x, 0)
  BY <1>1, <1>2, WorksOnStands
<1> QED BY <1>2, <1>3 DEF Turns, Job

LEMMA SyncFindsRows ==
  ASSUME RowsInv, NEW x \in Operators, NEW id \in CrsIds, NEW kind \in {"oauth", "key"}, NEW proxies \in BOOLEAN,
         NEW url \in {Nobody} \cup ProxyUrls, SyncFinds(x, id, kind, proxies, url)
  PROVE  /\ Stands(x) /\ UNCHANGED <<proxyRow, accountRow>>
         /\ clashed' = clashed \cup Clash(x, operator'[x].account)
         /\ operator'[x].pc = "syncProxy" /\ operator'[x].account \in {0} \cup AccountIds
         /\ operator'[x].account # 0 /\ operator'[x].kind # "oauth" => ShadowsOf(operator'[x].account) = {}
<1> DEFINE found == WithCrs(id)
           a == IF found = {} THEN 0 ELSE CHOOSE b \in found : TRUE
           work == [NoWork EXCEPT !.pc = "syncProxy", !.kind = kind, !.crs = id, !.changed = proxies, !.url = url]
<1>1. WorksOn(x, a, work) /\ (kind # "oauth" => ShadowsOf(a) = {} \/ a = 0)
  BY DEF SyncFinds
<1>2. a \in {0} \cup AccountIds /\ (a # 0 => accountRow[a].state # "unused" /\ accountRow[a].parent = 0)
  BY DEF WithCrs, AccountThere
<1>3. work \in Job /\ WorkKnows(work) /\ work.pc = "syncProxy" /\ work.kind = kind
  <2>1. work \in Job
    BY ZenonT(60) DEF NoWork, Job, JobPlaces, FallbackModes
  <2>2. WorkKnows(work)
    BY NoWorkKnows DEF NoWork, WorkKnows, Fits
  <2> QED BY <2>1, <2>2 DEF NoWork
<1> HIDE DEF work, a
<1>4. /\ Stands(x) /\ Turns(x, [work EXCEPT !.account = a]) /\ UNCHANGED <<proxyRow, accountRow>>
      /\ clashed' = clashed \cup Clash(x, a)
  BY <1>1, <1>2, <1>3, WorksOnStands
<1>5. operator'[x].account = a /\ operator'[x].pc = "syncProxy" /\ operator'[x].kind = kind
  BY <1>3, <1>4 DEF Turns, Job
<1> QED BY <1>1, <1>2, <1>4, <1>5

\* Those about to delete p are told of references to it.
Told(x, p, refs) ==
  p # 0 => \A y \in Operators \ {x} :
    operator[y].pc = "deleteRow" /\ operator[y].proxy = p => refs \subseteq operator'[y].late

References == ({"account"} \X AccountIds) \cup ({"proxy"} \X ProxyIds)

LEMMA AssignsTold ==
  ASSUME RowsInv, NEW x \in Operators, NEW work \in Job, NEW p \in {0} \cup ProxyIds,
         NEW refs \in SUBSET References, Assigns(x, work, refs, p)
  PROVE  Turns(x, work) /\ Told(x, p, refs)
  BY AssignsTurns DEF RowsInv, Told, References

LEMMA InsertAccountRows ==
  ASSUME RowsInv, NEW x \in Operators, InsertAccount(x)
  PROVE  /\ Stands(x) /\ UNCHANGED proxyRow /\ operator'[x].account = 0 /\ operator'[x].pc \in {"idle", "clear"}
         /\ \/ UNCHANGED accountRow
            \/ /\ Insertable(operator[x]) /\ operator[x].proxy \in {0} \cup ProxyIds
               /\ \E a \in AccountIds :
                    /\ accountRow[a].state = "unused"
                    /\ accountRow' = [accountRow EXCEPT ![a] = NewAccount(operator[x])]
                    /\ Told(x, operator[x].proxy, {<<"account", a>>})
<1> DEFINE work == operator[x]
           after == IF work.crs = Nobody THEN NoWork ELSE [NoWork EXCEPT !.pc = "clear"]
<1>1. work \in Job /\ WorkKnows(work) /\ work.pc = "insertAccount" /\ UNCHANGED proxyRow
  BY JobTypes DEF RowsInv, JobKnows, InsertAccount
<1>2. after \in Job /\ WorkKnows(after) /\ after.account = 0 /\ after.pc \in {"idle", "clear"}
  <2>1. [NoWork EXCEPT !.pc = "clear"] \in Job /\ WorkKnows([NoWork EXCEPT !.pc = "clear"])
    BY DEF NoWork, Job, JobPlaces, FallbackModes, WorkKnows, Fits, Used
  <2> QED BY <2>1, NoWorkTyped, NoWorkKnows DEF NoWork
<1>3. CASE ~Insertable(work) BY <1>3, <1>1, <1>2, QuietStands DEF InsertAccount, Turns
<1>4. CASE Insertable(work)
  <2>1. PICK a \in NextAccount : /\ accountRow' = [accountRow EXCEPT ![a] = NewAccount(work)]
                                 /\ Assigns(x, after, {<<"account", a>>}, work.proxy)
    BY <1>4 DEF InsertAccount
  <2>2. a \in AccountIds /\ accountRow[a].state = "unused" /\ {<<"account", a>>} \in SUBSET References
    BY DEF NextAccount, References
  <2> DEFINE row == NewAccount(work)
  <2>3. /\ row \in AccountRow /\ row.state = "there" /\ row.proxy = work.proxy /\ row.parent = work.account
        /\ work.proxy \in {0} \cup ProxyIds
    BY <1>1 DEF NewAccount, AccountRow, Existence, Job
  <2>4. /\ Refers(row.proxy)
        /\ row.parent = 0 \/ (AccountThere(row.parent) /\ accountRow[row.parent].parent = 0)
    BY <1>1, <1>4, <2>3 DEF Insertable, WorkKnows
  <2> HIDE DEF row, after
  <2>5. AccountsSound' /\ AccountsGrow
    BY <1>1, <2>1, <2>2, <2>3, <2>4, AccountMade, RowsInvParts DEF row
  <2>6. Turns(x, after) /\ Told(x, work.proxy, {<<"account", a>>})
    BY <1>2, <2>1, <2>2, <2>3, AssignsTold
  <2>7. ProxiesSound' /\ ProxiesGrow
    BY <1>1, ProxiesStaySound, RowsInvParts
  <2>8. Stands(x)
    BY <1>2, <2>5, <2>6, <2>7, RowsStand
  <2> QED BY <1>1, <1>2, <1>4, <2>1, <2>2, <2>3, <2>6, <2>8 DEF Turns
<1> QED BY <1>3, <1>4

LEMMA ImportAccountRows ==
  ASSUME RowsInv, NEW x \in Operators, ImportAccount(x)
  PROVE  /\ Stands(x) /\ UNCHANGED proxyRow /\ operator'[x] = NoWork
         /\ \/ UNCHANGED accountRow
            \/ \E a \in AccountIds, p \in {0} \cup ProxyIds :
                 /\ accountRow[a].state = "unused" /\ Refers(p)
                 /\ accountRow' = [accountRow EXCEPT ![a] = NewAccount([NoWork EXCEPT !.proxy = p])]
                 /\ Told(x, p, {<<"account", a>>})
<1> DEFINE package == operator[x].package
           p == IF package.account = Nobody THEN 0 ELSE operator[x].known[package.account]
<1>1. operator[x] \in Job /\ WorkKnows(operator[x]) /\ operator[x].pc = "importAccount" /\ UNCHANGED proxyRow
  BY JobTypes DEF RowsInv, JobKnows, ImportAccount
<1>2. p \in {0} \cup ProxyIds BY <1>1, PackageTypes DEF WorkKnows, Fits, Job
<1> HIDE DEF p
<1>3. CASE ~Refers(p) BY <1>3, <1>1, EndStands DEF ImportAccount, p, Turns
<1>4. CASE Refers(p)
  <2> DEFINE row == NewAccount([NoWork EXCEPT !.proxy = p])
  <2>1. PICK a \in NextAccount : /\ accountRow' = [accountRow EXCEPT ![a] = row]
                                 /\ Assigns(x, NoWork, {<<"account", a>>}, p)
    BY <1>4 DEF ImportAccount, p
  <2>2. a \in AccountIds /\ accountRow[a].state = "unused" /\ {<<"account", a>>} \in SUBSET References
    BY DEF NextAccount, References
  <2>3. /\ row \in AccountRow /\ row.state = "there" /\ row.proxy = p /\ row.parent = 0
    BY <1>2 DEF NewAccount, AccountRow, Existence, NoWork
  <2> HIDE DEF row
  <2>4. AccountsSound' /\ AccountsGrow
    BY <1>1, <1>4, <2>1, <2>2, <2>3, AccountMade, RowsInvParts
  <2>5. Turns(x, NoWork) /\ Told(x, p, {<<"account", a>>})
    BY <1>2, <2>1, <2>2, <2>3, AssignsTold, NoWorkTyped
  <2>6. ProxiesSound' /\ ProxiesGrow
    BY <1>1, ProxiesStaySound, RowsInvParts
  <2>7. Stands(x)
    BY <2>4, <2>5, <2>6, RowsStand, NoWorkTyped, NoWorkKnows
  <2> QED BY <1>1, <1>2, <1>4, <2>1, <2>2, <2>5, <2>7 DEF Turns, row
<1> QED BY <1>3, <1>4

LEMMA UpdateAccountWritesRows ==
  ASSUME RowsInv, NEW x \in Operators, UpdateAccountWrites(x)
  PROVE  /\ Stands(x) /\ UNCHANGED proxyRow /\ operator[x].pc = "updateAccount"
         /\ operator'[x].account \in {0, operator[x].account}
         /\ operator'[x].pc \in {"idle", "clear", "shadows"}
         /\ operator'[x].pc = "shadows" => operator'[x].account = operator[x].account
                                           /\ operator'[x].proxy = operator[x].proxy
         /\ \/ UNCHANGED accountRow /\ (operator'[x].pc = "shadows" => ~AccountThere(operator[x].account))
            \/ /\ AccountThere(operator[x].account) /\ Refers(operator[x].proxy)
               /\ accountRow' = [accountRow EXCEPT ![operator[x].account].proxy = operator[x].proxy,
                                                   ![operator[x].account].profile = operator[x].profile]
               /\ Told(x, operator[x].proxy, {<<"account", operator[x].account>>})
               /\ operator'[x].pc = "shadows" <=> operator[x].changed
<1> DEFINE a == operator[x].account
           p == operator[x].proxy
           on == [operator[x] EXCEPT !.pc = "shadows"]
           clears == [NoWork EXCEPT !.pc = "clear"]
           after == IF operator[x].changed THEN on ELSE IF operator[x].profiled THEN clears ELSE NoWork
           refused == ~Refers(p) \/ (operator[x].profile /\ ~tlsProfile.there)
<1>1. operator[x] \in Job /\ WorkKnows(operator[x]) /\ operator[x].pc = "updateAccount" /\ UNCHANGED proxyRow
  BY JobTypes DEF RowsInv, JobKnows, UpdateAccountWrites
<1>2. on \in Job /\ WorkKnows(on) /\ on.account = a /\ on.proxy = p /\ on.pc = "shadows"
  BY ZenonT(60), <1>1, ContinueKnows DEF Elsewhere, Job
<1>3. /\ after \in Job /\ WorkKnows(after) /\ after.account \in {0, a}
      /\ after.pc \in {"idle", "clear", "shadows"}
      /\ after.pc = "shadows" <=> operator[x].changed
      /\ after.pc = "shadows" => after.account = a /\ after.proxy = p
  <2>1. clears \in Job /\ WorkKnows(clears) /\ clears.account = 0 /\ clears.pc = "clear"
    BY DEF NoWork, Job, JobPlaces, FallbackModes, WorkKnows, Fits, Used
  <2> HIDE DEF on, clears
  <2> QED BY <1>2, <2>1, NoWorkTyped, NoWorkKnows DEF NoWork
<1> HIDE DEF on, clears, after
<1>4. CASE ~AccountThere(a) BY <1>4, <1>1, <1>3, QuietStands DEF UpdateAccountWrites, after, on, clears, Turns
<1>5. CASE AccountThere(a) /\ refused BY <1>5, <1>1, EndStands DEF UpdateAccountWrites, Turns, NoWork
<1>6. CASE AccountThere(a) /\ ~refused
  <2>1. /\ accountRow' = [accountRow EXCEPT ![a].proxy = p, ![a].profile = operator[x].profile]
        /\ Assigns(x, after, {<<"account", a>>}, p)
    BY <1>6 DEF UpdateAccountWrites, after, on, clears
  <2>2. a \in AccountIds /\ p \in {0} \cup ProxyIds /\ operator[x].profile \in BOOLEAN
        /\ {<<"account", a>>} \in SUBSET References
    BY <1>1, <1>6 DEF Job, AccountThere, References
  <2>3. Turns(x, after) /\ Told(x, p, {<<"account", a>>})
    BY <1>3, <2>1, <2>2, AssignsTold
  <2>4. AccountsSound' /\ AccountsGrow
    <3>1. accountRow \in [AccountIds -> AccountRow]
      BY DEF RowsInv, RouteTypeOK
    <3>2. accountRow' \in [AccountIds -> AccountRow]
      BY <2>1, <2>2, <3>1 DEF AccountRow
    <3>3. \A b \in AccountIds :
            /\ accountRow'[b].state = accountRow[b].state /\ accountRow'[b].parent = accountRow[b].parent
            /\ accountRow'[b].proxy = accountRow[b].proxy \/ Refers(accountRow'[b].proxy)
      BY <1>6, <2>1, <2>2, <3>1 DEF AccountRow
    <3> QED BY <1>1, <3>2, <3>3, AccountsMoved, RowsInvParts
  <2>5. ProxiesSound' /\ ProxiesGrow
    BY <1>1, ProxiesStaySound, RowsInvParts
  <2>6. Stands(x)
    BY <1>3, <2>3, <2>4, <2>5, RowsStand
  <2>7. operator'[x] = after
    BY <2>3 DEF Turns
  <2> QED BY <1>1, <1>3, <1>6, <2>1, <2>3, <2>6, <2>7
<1> QED BY <1>4, <1>5, <1>6

\* All shadows of an account get a proxy, or there are none.
ShadowsMoved(rows, a, p) ==
  /\ rows \in [AccountIds -> AccountRow]
  /\ \A s \in AccountIds :
       /\ rows[s].state = accountRow[s].state /\ rows[s].parent = accountRow[s].parent
       /\ rows[s].kind = accountRow[s].kind
       /\ rows[s].proxy = IF s \in ShadowsOf(a) THEN p ELSE accountRow[s].proxy
LEMMA WithShadowsRows ==
  ASSUME AccountsSound, NEW a, NEW p \in {0} \cup ProxyIds
  PROVE  ShadowsMoved(WithShadows(a, p), a, p)
<1>1. ASSUME NEW s \in AccountIds
      PROVE  /\ WithShadows(a, p)[s] \in AccountRow
             /\ WithShadows(a, p)[s].state = accountRow[s].state
             /\ WithShadows(a, p)[s].parent = accountRow[s].parent
             /\ WithShadows(a, p)[s].kind = accountRow[s].kind
             /\ WithShadows(a, p)[s].proxy = IF s \in ShadowsOf(a) THEN p ELSE accountRow[s].proxy
  BY AccountTypes DEF WithShadows, AccountRow
<1>2. WithShadows(a, p) \in [AccountIds -> AccountRow]
  BY <1>1 DEF WithShadows
<1> QED BY <1>1, <1>2 DEF ShadowsMoved

LEMMA ShadowsWriteRows ==
  ASSUME RowsInv, NEW x \in Operators, ShadowsWrite(x)
  PROVE  /\ Stands(x) /\ UNCHANGED proxyRow /\ operator[x].pc = "shadows"
         /\ operator'[x].account = 0 /\ operator'[x].pc \in {"idle", "clear"}
         /\ operator[x].proxy \in {0} \cup ProxyIds
         /\ \/ UNCHANGED accountRow /\ clashed' = clashed \cup {operator[x].account}
            \/ /\ UNCHANGED clashed
               /\ accountRow' = WithShadows(operator[x].account, operator[x].proxy)
               /\ ShadowsOf(operator[x].account) = {} \/ Refers(operator[x].proxy)
               /\ Told(x, operator[x].proxy, {<<"account", s>> : s \in ShadowsOf(operator[x].account)})
<1> DEFINE a == operator[x].account
           p == operator[x].proxy
           after == [NoWork EXCEPT !.pc = "clear"]
<1>1. operator[x] \in Job /\ operator[x].pc = "shadows" /\ UNCHANGED proxyRow /\ p \in {0} \cup ProxyIds
  BY JobTypes DEF RowsInv, JobKnows, ShadowsWrite
<1>2. after \in Job /\ WorkKnows(after) /\ after.account = 0 /\ after.pc = "clear"
  BY DEF NoWork, Job, JobPlaces, FallbackModes, WorkKnows, Fits, Used
<1> HIDE DEF after
<1>3. CASE ShadowsOf(a) # {} /\ ~Refers(p) BY <1>3, <1>1, EndStands DEF ShadowsWrite, Turns, NoWork
<1>4. CASE ShadowsOf(a) = {} \/ Refers(p)
  <2>1. /\ accountRow' = WithShadows(a, p) /\ UNCHANGED clashed
        /\ Assigns(x, after, {<<"account", s>> : s \in ShadowsOf(a)}, p)
    BY <1>4 DEF ShadowsWrite, after
  <2>2. {<<"account", s>> : s \in ShadowsOf(a)} \in SUBSET References
    BY DEF References, ShadowsOf
  <2>3. Turns(x, after) /\ Told(x, p, {<<"account", s>> : s \in ShadowsOf(a)})
    BY <1>1, <1>2, <2>1, <2>2, AssignsTold
  <2>4. AccountsSound' /\ AccountsGrow
    <3>1. AccountsSound
      BY RowsInvParts
    <3>2. ShadowsMoved(WithShadows(a, p), a, p)
      BY ONLY <1>1, <3>1, WithShadowsRows
    <3>3. ShadowsMoved(accountRow', a, p)
      BY ONLY <2>1, <3>2
    <3>4. accountRow' \in [AccountIds -> AccountRow]
      BY ONLY <3>3 DEF ShadowsMoved
    <3>5. \A b \in AccountIds :
            /\ accountRow'[b].state = accountRow[b].state /\ accountRow'[b].parent = accountRow[b].parent
            /\ accountRow'[b].proxy = accountRow[b].proxy \/ Refers(accountRow'[b].proxy)
      BY ONLY <1>4, <3>3 DEF ShadowsMoved
    <3> QED BY <1>1, <3>1, <3>4, <3>5, AccountsMoved
  <2>5. ProxiesSound' /\ ProxiesGrow
    BY <1>1, ProxiesStaySound, RowsInvParts
  <2>6. Stands(x)
    BY <1>2, <2>3, <2>4, <2>5, RowsStand
  <2>7. operator'[x] = after
    BY <2>3 DEF Turns
  <2> QED BY <1>1, <1>2, <1>4, <2>1, <2>3, <2>6, <2>7
<1> QED BY <1>3, <1>4

LEMMA BulkUpdateWritesRows ==
  ASSUME RowsInv, NEW x \in Operators, BulkUpdateWrites(x)
  PROVE  /\ Stands(x) /\ UNCHANGED proxyRow
         /\ operator'[x].account = 0 /\ operator'[x].pc \in {"idle", "clear"}
         /\ operator[x].proxy \in {0} \cup ProxyIds /\ operator[x].item \in AccountIds
         /\ \/ UNCHANGED <<accountRow, clashed>>
            \/ /\ AccountThere(operator[x].item) /\ accountRow[operator[x].item].parent = 0
               /\ clashed' = clashed \cup Clash(x, operator[x].item) /\ Refers(operator[x].proxy)
               /\ accountRow' = [WithShadows(operator[x].item, operator[x].proxy)
                                   EXCEPT ![operator[x].item].proxy = operator[x].proxy]
               /\ Told(x, operator[x].proxy,
                       {<<"account", b>> : b \in ShadowsOf(operator[x].item) \cup {operator[x].item}})
<1> DEFINE a == operator[x].item
           p == operator[x].proxy
           after == [NoWork EXCEPT !.pc = "clear"]
<1>1. /\ operator[x] \in Job /\ operator[x].pc = "bulkUpdate" /\ UNCHANGED proxyRow /\ p \in {0} \cup ProxyIds
      /\ WorkKnows(operator[x]) /\ a \in AccountIds
  BY JobTypes DEF RowsInv, JobKnows, BulkUpdateWrites, WorkKnows, Fits
<1>2. after \in Job /\ WorkKnows(after) /\ after.account = 0 /\ after.pc = "clear"
  BY DEF NoWork, Job, JobPlaces, FallbackModes, WorkKnows, Fits, Used
<1> HIDE DEF after
<1>3. CASE ~AccountThere(a) \/ accountRow[a].parent # 0 \/ ~Refers(p)
  <2> DEFINE ends == IF AccountThere(a) /\ accountRow[a].parent = 0 THEN NoWork ELSE after
  <2>1. Works(x, ends) /\ UNCHANGED <<accountRow, clashed>>
    BY <1>3 DEF BulkUpdateWrites, after
  <2>2. ends \in Job /\ WorkKnows(ends) /\ ends.account = 0 /\ ends.pc \in {"idle", "clear"}
    BY <1>2, NoWorkTyped, NoWorkKnows DEF NoWork
  <2> HIDE DEF ends
  <2>3. Stands(x) /\ Turns(x, ends)
    BY <1>1, <2>1, <2>2, QuietStands
  <2>4. operator'[x] = ends
    BY <2>3 DEF Turns
  <2> QED BY <1>1, <2>1, <2>2, <2>3, <2>4
<1>4. CASE ~(~AccountThere(a) \/ accountRow[a].parent # 0 \/ ~Refers(p))
  <2>1. /\ accountRow' = [WithShadows(a, p) EXCEPT ![a].proxy = p] /\ clashed' = clashed \cup Clash(x, a)
        /\ Assigns(x, after, {<<"account", b>> : b \in ShadowsOf(a) \cup {a}}, p)
    BY <1>4 DEF BulkUpdateWrites, after
  <2>2. {<<"account", b>> : b \in ShadowsOf(a) \cup {a}} \in SUBSET References
    BY <1>1 DEF References, ShadowsOf
  <2>3. Turns(x, after) /\ Told(x, p, {<<"account", b>> : b \in ShadowsOf(a) \cup {a}})
    BY <1>1, <1>2, <2>1, <2>2, AssignsTold
  <2>4. AccountsSound' /\ AccountsGrow
    <3> DEFINE rows == WithShadows(a, p)
    <3>1. AccountsSound
      BY RowsInvParts
    <3>2. rows \in [AccountIds -> AccountRow]
          /\ \A s \in AccountIds :
              /\ rows[s].state = accountRow[s].state /\ rows[s].parent = accountRow[s].parent
              /\ rows[s].proxy = IF s \in ShadowsOf(a) THEN p ELSE accountRow[s].proxy
      <4>1. ShadowsMoved(rows, a, p)
        BY ONLY <1>1, <3>1, WithShadowsRows DEF rows
      <4> HIDE DEF rows
      <4> QED BY ONLY <4>1 DEF ShadowsMoved
    <3> HIDE DEF rows
    <3>3. accountRow' = [rows EXCEPT ![a].proxy = p]
      BY <2>1 DEF rows
    <3>4. accountRow' \in [AccountIds -> AccountRow]
      BY <1>1, <3>2, <3>3 DEF AccountRow
    <3>5. \A b \in AccountIds :
            /\ accountRow'[b].state = accountRow[b].state /\ accountRow'[b].parent = accountRow[b].parent
            /\ accountRow'[b].proxy = accountRow[b].proxy \/ Refers(accountRow'[b].proxy)
      BY <1>1, <1>4, <3>2, <3>3 DEF AccountRow
    <3> QED BY <1>1, <3>1, <3>4, <3>5, AccountsMoved
  <2>5. ProxiesSound' /\ ProxiesGrow
    BY <1>1, ProxiesStaySound, RowsInvParts
  <2>6. Stands(x)
    BY <1>2, <2>3, <2>4, <2>5, RowsStand
  <2>7. operator'[x] = after
    BY <2>3 DEF Turns
  <2> QED BY <1>1, <1>2, <1>4, <2>1, <2>3, <2>6, <2>7
<1> QED BY <1>3, <1>4

LEMMA DeleteAccountRows ==
  ASSUME RowsInv, NEW x \in Operators, NEW a \in AccountIds, DeleteAccount(x, a)
  PROVE  /\ RowsInv' /\ UNCHANGED <<proxyRow, operator>> /\ ProxiesGrow /\ AccountsGrow
         /\ \A b \in AccountIds :
              /\ accountRow'[b].parent = accountRow[b].parent /\ accountRow'[b].proxy = accountRow[b].proxy
              /\ accountRow'[b].kind = accountRow[b].kind /\ (AccountThere(b)' => AccountThere(b))
<1> DEFINE dead == {a} \cup ShadowsOf(a)
<1>1. accountRow' = [b \in AccountIds |-> IF b \in dead THEN [accountRow[b] EXCEPT !.state = "gone"] ELSE accountRow[b]]
      /\ UNCHANGED <<proxyRow, operator>> /\ AccountThere(a)
  BY DEF DeleteAccount
<1>2. AccountsSound
  BY RowsInvParts
<1>3. ASSUME NEW b \in AccountIds
      PROVE  /\ accountRow'[b] \in AccountRow
             /\ accountRow'[b].parent = accountRow[b].parent /\ accountRow'[b].proxy = accountRow[b].proxy
             /\ accountRow'[b].kind = accountRow[b].kind
             /\ accountRow'[b].state = IF b \in dead THEN "gone" ELSE accountRow[b].state
  BY <1>2, AccountTypes, <1>1 DEF AccountRow, Existence
<1>4. \A b \in AccountIds : AccountThere(b)' => AccountThere(b) /\ b \notin dead BY <1>3 DEF AccountThere
<1>5. AccountsSound' /\ AccountsGrow
  <2>1. accountRow' \in [AccountIds -> AccountRow]
    BY <1>1, <1>3
  <2>2. \A b \in AccountIds : AccountThere(b)' => Refers(accountRow[b].proxy)'
    BY <1>1, <1>2, <1>3, <1>4 DEF AccountsSound, Refers, ProxyThere
  <2>3. \A b \in AccountIds : AccountThere(b)' => accountRow'[b].parent = 0 \/ AccountThere(accountRow[b].parent)'
    <3> SUFFICES ASSUME NEW b \in AccountIds, AccountThere(b)', accountRow'[b].parent # 0
                 PROVE  AccountThere(accountRow[b].parent)'
      OBVIOUS
    <3> DEFINE n == accountRow[b].parent
    <3>1. AccountThere(b) /\ b \notin dead /\ n # 0 /\ n \in AccountIds /\ AccountThere(n) /\ accountRow[n].parent = 0
      BY <1>2, <1>3, <1>4, AccountTypes DEF AccountsSound, ParentsTop
    <3>2. n \notin dead
      BY <1>1, <3>1, RouteAssumption DEF ShadowsOf
    <3>3. accountRow'[n].state = "there" /\ accountRow'[b].parent = n
      BY <1>3, <3>1, <3>2 DEF AccountThere
    <3> QED BY <3>1, <3>3 DEF AccountThere
  <2>4. ParentsTop'
    BY <1>2, <1>3, <1>4, AccountTypes DEF AccountsSound, ParentsTop
  <2>5. AccountsGrow
    BY <1>3 DEF AccountsGrow
  <2> QED BY <2>1, <2>2, <2>3, <2>4, <2>5 DEF AccountsSound
<1>6. ProxiesSound' /\ ProxiesGrow
  BY <1>1, ProxiesStaySound, RowsInvParts
<1>7. RowsInv'
  BY <1>1, <1>5, <1>6, NobodyTurns
<1> QED BY <1>1, <1>3, <1>4, <1>5, <1>6, <1>7

\* A synchronisation without a proxy of its own keeps the account's.
LEMMA SyncProxyRows ==
  ASSUME RowsInv, NEW x \in Operators, SyncProxy(x)
  PROVE  /\ Stands(x) /\ UNCHANGED accountRow
         /\ \A q \in ProxyIds : proxyRow'[q].backup = proxyRow[q].backup
         /\ \A q \in ProxyIds : ProxyThere(q)' => ProxyThere(q) \/ proxyRow[q].state = "unused"
         /\ operator'[x].account = operator[x].account /\ operator'[x].kind = operator[x].kind
         /\ operator'[x].changed = operator[x].changed /\ operator[x].pc = "syncProxy"
         /\ \/ operator'[x].pc = "clear"
            \/ operator[x].account = 0 /\ operator'[x].pc = "insertAccount"
            \/ /\ operator[x].account # 0 /\ operator'[x].pc = "syncAccount"
               /\ operator[x].changed \/ operator'[x].proxy = accountRow[operator[x].account].proxy
<1> DEFINE a == operator[x].account
           url == operator[x].url
           same == {p \in ProxyIds : ProxyThere(p) /\ proxyRow[p].url = url}
           onward == IF a = 0 THEN "insertAccount" ELSE "syncAccount"
           own == IF a = 0 THEN 0 ELSE accountRow[a].proxy
<1>1. operator[x] \in Job /\ WorkKnows(operator[x]) /\ operator[x].pc = "syncProxy" /\ UNCHANGED accountRow
      /\ ProxiesSound /\ AccountsSound
  BY JobTypes, RowsInvParts DEF RowsInv, JobKnows, SyncProxy
<1>2. onward \in Elsewhere /\ a \in {0} \cup AccountIds /\ url \in {Nobody} \cup ProxyUrls
  BY <1>1 DEF Elsewhere, Job
<1> DEFINE base == [operator[x] EXCEPT !.pc = onward]
<1>3. /\ base \in Job /\ WorkKnows(base) /\ base.pc = onward /\ base.account = a /\ base.kind = operator[x].kind
      /\ base.changed = operator[x].changed
  BY <1>1, <1>2, ContinueKnows DEF Job
<1>4. ASSUME NEW p \in {0} \cup ProxyIds
      PROVE  /\ [operator[x] EXCEPT !.pc = onward, !.proxy = p] = [base EXCEPT !.proxy = p]
             /\ [base EXCEPT !.proxy = p] \in Job
             /\ Used(p) => WorkKnows([base EXCEPT !.proxy = p])
  <2>1. [operator[x] EXCEPT !.pc = onward, !.proxy = p] = [base EXCEPT !.proxy = p]
    OBVIOUS
  <2> HIDE DEF base, onward
  <2>2. [base EXCEPT !.proxy = p] \in Job
    BY <1>3 DEF Job
  <2>3. Used(p) => WorkKnows([base EXCEPT !.proxy = p])
    BY <1>2, <1>3 DEF WorkKnows, Fits, Job, Elsewhere
  <2> QED BY <2>1, <2>2, <2>3
<1>5. ASSUME NEW p \in {0} \cup ProxyIds
      PROVE  /\ [base EXCEPT !.proxy = p].pc = onward /\ [base EXCEPT !.proxy = p].proxy = p
             /\ [base EXCEPT !.proxy = p].account = a /\ [base EXCEPT !.proxy = p].kind = operator[x].kind
             /\ [base EXCEPT !.proxy = p].changed = operator[x].changed
  BY <1>3 DEF Job
<1> HIDE DEF base
<1>6. CASE a # 0 /\ ~AccountThere(a)
  <2>1. Continues(x, "clear") /\ UNCHANGED proxyRow
    BY <1>6 DEF SyncProxy
  <2>2. Stands(x) /\ Turns(x, [operator[x] EXCEPT !.pc = "clear"])
    BY <1>1, <2>1, ContinueStands DEF Elsewhere
  <2> QED BY <1>1, <2>1, <2>2 DEF Turns, Job, ProxyThere
<1>7. CASE ~(a # 0 /\ ~AccountThere(a)) /\ (~operator[x].changed \/ url = Nobody)
  <2>1. own \in {0} \cup ProxyIds /\ Used(own)
    BY SMTT(30), <1>1, <1>2, <1>7, AccountTypes, ReferredUsed DEF AccountsSound, Used
  <2>2. Works(x, [operator[x] EXCEPT !.pc = onward, !.proxy = own]) /\ UNCHANGED proxyRow
    BY <1>7 DEF SyncProxy
  <2> DEFINE work == [base EXCEPT !.proxy = own]
  <2> HIDE DEF own
  <2>3. work \in Job /\ WorkKnows(work) /\ Works(x, work) /\ work.proxy = own
    BY <1>4, <1>5, <2>1, <2>2
  <2>4. work.pc = onward /\ work.account = a /\ work.kind = operator[x].kind /\ work.changed = operator[x].changed
    BY <1>5, <2>1
  <2> HIDE DEF work
  <2>5. Stands(x) /\ Turns(x, work)
    BY <1>1, <2>2, <2>3, QuietStands
  <2>6. operator'[x] = work
    BY <2>5 DEF Turns
  <2> QED BY <1>1, <2>2, <2>3, <2>4, <2>5, <2>6 DEF ProxyThere, own
<1>8. CASE ~(a # 0 /\ ~AccountThere(a)) /\ ~(~operator[x].changed \/ url = Nobody) /\ same # {}
  <2>1. PICK p \in same : Works(x, [operator[x] EXCEPT !.pc = onward, !.proxy = p]) /\ UNCHANGED proxyRow
    BY <1>8 DEF SyncProxy
  <2>2. p \in {0} \cup ProxyIds /\ Used(p)
    BY <2>1 DEF Used, ProxyThere
  <2> DEFINE work == [base EXCEPT !.proxy = p]
  <2>3. work \in Job /\ WorkKnows(work) /\ Works(x, work)
    BY <1>4, <2>1, <2>2
  <2>4. work.pc = onward /\ work.account = a /\ work.kind = operator[x].kind /\ work.changed = operator[x].changed
    BY <1>5, <2>2
  <2> HIDE DEF work
  <2>5. Stands(x) /\ Turns(x, work)
    BY <1>1, <2>1, <2>3, QuietStands
  <2>6. operator'[x] = work
    BY <2>5 DEF Turns
  <2> QED BY SMTT(30), <1>1, <1>8, <2>1, <2>3, <2>4, <2>5, <2>6 DEF ProxyThere
<1>9. CASE ~(a # 0 /\ ~AccountThere(a)) /\ ~(~operator[x].changed \/ url = Nobody) /\ same = {}
  <2>1. PICK p \in NextProxy : /\ proxyRow' = [proxyRow EXCEPT ![p] = NewProxy(url, TRUE, "none", 0)]
                               /\ Works(x, [operator[x] EXCEPT !.pc = onward, !.proxy = p])
    BY <1>9 DEF SyncProxy
  <2>2. p \in ProxyIds /\ proxyRow[p].state = "unused"
    BY NextProxyUnused
  <2> DEFINE work == [base EXCEPT !.proxy = p]
             row == NewProxy(url, TRUE, "none", 0)
  <2>3. work \in Job /\ Works(x, work) /\ work.proxy = p
    BY <1>4, <1>5, <2>1, <2>2
  <2>4. work.pc = onward /\ work.account = a /\ work.kind = operator[x].kind /\ work.changed = operator[x].changed
    BY <1>5, <2>2
  <2>5. row \in ProxyRow /\ row.state = "there" /\ row.backup = 0
    BY <1>2, <1>9 DEF NewProxy, ProxyRow, Existence, FallbackModes
  <2>6. work.known = operator[x].known /\ work.backup = operator[x].backup /\ work.edits = operator[x].edits
    BY <1>1, <2>2 DEF base, Job
  <2> HIDE DEF work, row
  <2>7. Turns(x, work)
    BY <2>3, WorksTurns DEF RowsInv
  <2>8. ProxiesSound' /\ ProxiesGrow /\ \A q \in {0} \cup ProxyIds : Refers(q) => Refers(q)'
    BY <1>1, <2>1, <2>2, <2>5, ProxyWritten DEF row, Refers
  <2>9. AccountsSound' /\ AccountsGrow
    BY <1>1, <2>8, AccountsStaySound
  <2>10. JobKnows(x)'
    <3>1. PICK w : w = work
      OBVIOUS
    <3>2. proxyRow'[p].state # "unused"
      BY <1>1, <2>1, <2>2, <2>5 DEF ProxiesSound, row
    <3>3. \A q \in {0} \cup ProxyIds : Used(q) => Used(q)'
      BY <2>8 DEF ProxiesGrow, Used
    <3>4. /\ operator[x].backup \in {0} \cup ProxyIds /\ operator[x].known \in [ProxyUrls -> {0} \cup ProxyIds]
      BY <1>1 DEF Job
    <3>5. Used(operator[x].backup) /\ (\A u \in ProxyUrls : Used(operator[x].known[u])) /\ ~operator[x].edits
      BY <1>1 DEF WorkKnows, Fits
    <3>6. Used(w.backup)' /\ Used(w.proxy)'
      BY <2>3, <2>6, <3>1, <3>2, <3>3, <3>4, <3>5 DEF Used
    <3>7. \A u \in ProxyUrls : Used(w.known[u])'
      BY <2>6, <3>1, <3>3, <3>4, <3>5
    <3>8. w.account # 0 => accountRow'[w.account].state # "unused" /\ accountRow'[w.account].parent = 0
      BY <1>1, <2>4, <3>1 DEF WorkKnows
    <3>9. WorkKnows(w)'
      BY <1>2, <2>4, <2>6, <3>1, <3>5, <3>6, <3>7, <3>8 DEF WorkKnows, Fits, Elsewhere
    <3>10. operator'[x] = w
      BY <2>7, <3>1 DEF Turns
    <3> QED BY <3>9, <3>10 DEF JobKnows, WorkKnows, Fits, Used
  <2>11. Stands(x)
    BY <2>7, <2>8, <2>9, <2>10, RowsStandAfter
  <2>12. \A q \in ProxyIds : proxyRow'[q].backup = proxyRow[q].backup
    BY <1>1, <2>1, <2>2, <2>5 DEF ProxiesSound, GoneHaveNone, row
  <2>13. \A q \in ProxyIds : q # p => proxyRow'[q] = proxyRow[q]
    BY <2>1
  <2>14. operator'[x] = work
    BY <2>7 DEF Turns
  <2> QED BY SMTT(30), <1>1, <1>9, <2>2, <2>4, <2>11, <2>12, <2>13, <2>14 DEF ProxyThere
<1> QED BY SMTT(30), <1>6, <1>7, <1>8, <1>9

LEMMA SyncAccountRows ==
  ASSUME RowsInv, NEW x \in Operators, SyncAccount(x)
  PROVE  /\ Stands(x) /\ UNCHANGED proxyRow /\ operator[x].pc = "syncAccount"
         /\ operator'[x].account = operator[x].account /\ operator'[x].proxy = operator[x].proxy
         /\ operator[x].proxy \in {0} \cup ProxyIds
         /\ operator'[x].pc \in {"clear", "shadows"}
         /\ \/ UNCHANGED accountRow /\ (operator'[x].pc = "shadows" => ~AccountThere(operator[x].account))
            \/ /\ AccountThere(operator[x].account) /\ Refers(operator[x].proxy)
               /\ operator[x].account \in AccountIds
               /\ accountRow' = [accountRow EXCEPT ![operator[x].account].proxy = operator[x].proxy,
                                                   ![operator[x].account].kind = operator[x].kind]
               /\ Told(x, operator[x].proxy, {<<"account", operator[x].account>>})
               /\ operator'[x].pc = IF operator[x].kind = "oauth" /\ operator[x].changed THEN "shadows" ELSE "clear"
<1> DEFINE a == operator[x].account
           p == operator[x].proxy
           onward == IF operator[x].kind = "oauth" /\ operator[x].changed THEN "shadows" ELSE "clear"
           after == [operator[x] EXCEPT !.pc = onward]
<1>1. /\ operator[x] \in Job /\ operator[x].pc = "syncAccount" /\ UNCHANGED proxyRow
      /\ p \in {0} \cup ProxyIds /\ operator[x].kind \in {"oauth", "key"} /\ a \in {0} \cup AccountIds
  BY JobTypes DEF RowsInv, SyncAccount
<1>2. onward \in Elsewhere /\ onward \in {"clear", "shadows"}
  BY DEF Elsewhere
<1>3. after \in Job /\ WorkKnows(after) /\ after.pc = onward /\ after.account = a /\ after.proxy = p
  <2>1. after \in Job /\ WorkKnows(after)
    BY <1>1, <1>2, ContinueKnows
  <2> HIDE DEF onward
  <2> QED BY <1>1, <2>1 DEF Job
<1>4. CASE ~AccountThere(a) BY <1>4, <1>1, <1>2, ContinueStands, <1>3 DEF SyncAccount, Turns
<1>5. CASE AccountThere(a) /\ ~Refers(p)
  <2>1. Continues(x, "clear") /\ UNCHANGED accountRow
    BY <1>5 DEF SyncAccount
  <2>2. Stands(x) /\ Turns(x, [operator[x] EXCEPT !.pc = "clear"])
    BY <1>1, <2>1, ContinueStands DEF Elsewhere
  <2> QED BY <1>1, <2>1, <2>2 DEF Turns, Job
<1>6. CASE AccountThere(a) /\ Refers(p)
  <2>1. /\ accountRow' = [accountRow EXCEPT ![a].proxy = p, ![a].kind = operator[x].kind]
        /\ Assigns(x, after, {<<"account", a>>}, p)
    BY <1>6 DEF SyncAccount
  <2> HIDE DEF after
  <2>2. a \in AccountIds /\ {<<"account", a>>} \in SUBSET References
    BY <1>1, <1>6 DEF AccountThere, References
  <2>3. Turns(x, after) /\ Told(x, p, {<<"account", a>>})
    BY <1>1, <1>3, <2>1, <2>2, AssignsTold
  <2>4. AccountsSound' /\ AccountsGrow
    <3>1. accountRow \in [AccountIds -> AccountRow]
      BY DEF RowsInv, RouteTypeOK
    <3>2. accountRow' = [accountRow EXCEPT ![a] = [accountRow[a] EXCEPT !.proxy = p, !.kind = operator[x].kind]]
      BY <2>1, <2>2, <3>1
    <3>3. [accountRow[a] EXCEPT !.proxy = p, !.kind = operator[x].kind] \in AccountRow
      <4> DEFINE row == accountRow[a]
                 kind == operator[x].kind
      <4>1. row \in AccountRow /\ kind \in {"oauth", "key"} /\ p \in {0} \cup ProxyIds
        BY <1>1, <2>2, <3>1
      <4> HIDE DEF row, kind, p
      <4>2. [row EXCEPT !.proxy = p, !.kind = kind] \in AccountRow
        BY <4>1 DEF AccountRow
      <4> QED BY <4>2 DEF row, kind
    <3>4. accountRow' \in [AccountIds -> AccountRow]
      BY <2>2, <3>1, <3>2, <3>3
    <3>5. \A b \in AccountIds :
            /\ accountRow'[b].state = accountRow[b].state /\ accountRow'[b].parent = accountRow[b].parent
            /\ accountRow'[b].proxy = accountRow[b].proxy \/ Refers(accountRow'[b].proxy)
      BY <1>6, <2>2, <3>1, <3>2 DEF AccountRow
    <3> QED BY <1>1, <3>4, <3>5, AccountsMoved, RowsInvParts
  <2>5. ProxiesSound' /\ ProxiesGrow
    BY <1>1, ProxiesStaySound, RowsInvParts
  <2>6. Stands(x)
    BY <1>3, <2>3, <2>4, <2>5, RowsStand
  <2>7. operator'[x] = after
    BY <2>3 DEF Turns
  <2> QED BY <1>1, <1>2, <1>3, <1>6, <2>1, <2>2, <2>3, <2>6, <2>7
<1> QED BY <1>4, <1>5, <1>6

-----------------------------------------------------------------------------
(*                       Where a request goes next                         *)

Lands(x, places) == operator'[x].pc \in places /\ operator'[x].account \in {0, operator[x].account}

LEMMA WorksAs ==
  ASSUME JobsTyped, NEW x \in Operators, NEW work, Works(x, work)
  PROVE  operator'[x] = work
  BY DEF Works, JobsTyped

LEMMA EndsLands ==
  ASSUME JobsTyped, NEW x \in Operators, EndsRequest(x)
  PROVE  Lands(x, {"idle"}) /\ operator'[x] = NoWork
  BY WorksAs DEF EndsRequest, Lands, NoWork

LEMMA ContinuesLands ==
  ASSUME JobsTyped, NEW x \in Operators, NEW pc, Continues(x, pc)
  PROVE  Lands(x, {pc})
  BY JobTypes DEF Continues, Lands, JobsTyped, Job

LEMMA UpdateProxyChecksLands ==
  ASSUME RowsInv, NEW x \in Operators, NEW p \in ProxyIds, NEW usable \in BOOLEAN, NEW mode \in FallbackModes,
         NEW backup \in {0} \cup ProxyIds, NEW url \in ProxyUrls, UpdateProxyChecks(x, p, usable, mode, backup, url)
  PROVE  /\ Lands(x, {"hung", "updateProxy"})
         /\ operator'[x].pc = "updateProxy" => operator'[x].proxy \notin Chain(operator'[x].backup)
<1>1. JobsTyped
  BY DEF RowsInv
<1>2. CASE Endless(p, mode, backup) BY <1>1, <1>2, ContinuesLands DEF UpdateProxyChecks, Lands
<1>3. CASE ~Endless(p, mode, backup)
  <2>1. operator'[x] = [NoWork EXCEPT !.pc = "updateProxy", !.proxy = p, !.usable = usable, !.mode = mode,
                                      !.backup = backup, !.url = url]
    BY <1>1, <1>3, WorksAs DEF UpdateProxyChecks
  <2>2. operator'[x].pc = "updateProxy" /\ operator'[x].account = 0 /\ operator'[x].proxy = p
        /\ operator'[x].backup = backup
    BY <2>1 DEF NoWork
  <2>3. p \notin Chain(backup)
    BY <1>3, ChainClosed, ProxyTypes, RowsInvParts, RouteAssumption DEF UpdateProxyChecks, Chain, Backed, ValidFallback,
       NoCycle
  <2> QED BY <2>2, <2>3 DEF Lands
<1> QED BY <1>2, <1>3

LEMMA UpdateProxyWritesLands ==
  ASSUME RowsInv, NEW x \in Operators, UpdateProxyWrites(x)
  PROVE  Lands(x, {"idle", "clear"})
<1> DEFINE p == operator[x].proxy
           backup == operator[x].backup
           work == [operator[x] EXCEPT !.pc = "clear"]
<1>1. JobsTyped /\ operator[x] \in Job
  BY JobTypes DEF RowsInv
<1>2. EndsRequest(x) \/ Continues(x, "clear") \/ WritesFallback(x, p, operator[x].mode, backup, work)
  BY DEF UpdateProxyWrites
<1>3. CASE EndsRequest(x) \/ Continues(x, "clear")
  BY <1>1, <1>3, EndsLands, ContinuesLands DEF Lands
<1>4. CASE WritesFallback(x, p, operator[x].mode, backup, work) BY <1>4, <1>1 DEF WritesFallback, Shifted, Lands, Job
<1> QED BY <1>2, <1>3, <1>4

LEMMA CreateProxyLands ==
  ASSUME RowsInv, NEW x \in Operators
  PROVE  /\ \A mode, backup, url : CreateProxyChecks(x, mode, backup, url) => Lands(x, {"createProxy"})
         /\ CreateProxyWrites(x) => Lands(x, {"idle"})
<1>1. JobsTyped
  BY DEF RowsInv
<1>2. ASSUME NEW mode, NEW backup, NEW url, CreateProxyChecks(x, mode, backup, url)
      PROVE  Lands(x, {"createProxy"})
  <2>1. operator'[x] = [NoWork EXCEPT !.pc = "createProxy", !.mode = mode, !.backup = backup, !.url = url]
    BY <1>1, <1>2, WorksAs DEF CreateProxyChecks
  <2> QED BY <2>1 DEF Lands, NoWork
<1>3. ASSUME CreateProxyWrites(x)
      PROVE  Lands(x, {"idle"})
  <2>1. operator'[x] = NoWork
    BY <1>1, <1>3, EndsLands DEF CreateProxyWrites, Assigns
  <2> QED BY <2>1 DEF Lands, NoWork
<1> QED BY <1>2, <1>3

LEMMA DeleteProxyLands ==
  ASSUME RowsInv, NEW x \in Operators
  PROVE  /\ \A p : DeleteProxyCounts(x, p) => /\ Lands(x, {"deleteRow"}) /\ operator'[x].proxy = p
                                              /\ operator'[x].late = {}
         /\ DeleteProxyRow(x) => Lands(x, {"idle", "clear"})
<1>1. JobsTyped
  BY DEF RowsInv
<1>2. ASSUME NEW p, DeleteProxyCounts(x, p)
      PROVE  Lands(x, {"deleteRow"}) /\ operator'[x].proxy = p /\ operator'[x].late = {}
  <2>1. operator'[x] = [NoWork EXCEPT !.pc = "deleteRow", !.proxy = p]
    BY <1>1, <1>2, WorksAs DEF DeleteProxyCounts
  <2> QED BY <2>1 DEF Lands, NoWork
<1>3. ASSUME DeleteProxyRow(x)
      PROVE  Lands(x, {"idle", "clear"})
  BY <1>3, <1>1, EndsLands, ContinuesLands DEF DeleteProxyRow, Lands
<1> QED BY <1>2, <1>3

LEMMA ImportReadsLands ==
  ASSUME RowsInv, NEW x \in Operators, NEW package, ImportReads(x, package)
  PROVE  Lands(x, {"importProxy"})
<1>1. operator'[x] = [NoWork EXCEPT !.pc = "importProxy", !.item = 1, !.known = KnownUrls, !.package = package]
  BY WorksAs DEF ImportReads, RowsInv
<1> QED BY <1>1 DEF Lands, NoWork

LEMMA EditsProfileLands ==
  ASSUME RowsInv, NEW x \in Operators, NEW there, EditsProfile(x, there)
  PROVE  Lands(x, {"clear"}) /\ operator'[x].edits
<1>1. operator'[x] = [NoWork EXCEPT !.pc = "clear", !.edits = TRUE]
  BY WorksAs DEF EditsProfile, RowsInv
<1> QED BY <1>1 DEF Lands, NoWork

\* The requests about accounts.
LEMMA AccountLands ==
  ASSUME RowsInv, NEW x \in Operators, AccountStep(x), RowsInv'
  PROVE  operator'[x].pc \in {"idle", "clear", "insertAccount", "updateAccount", "shadows", "bulkUpdate",
                              "syncProxy", "syncAccount"}
<1>1. CASE InsertAccount(x) \/ ImportAccount(x)
  BY <1>1, InsertAccountRows, ImportAccountRows DEF NoWork
<1>2. CASE UpdateAccountWrites(x) \/ ShadowsWrite(x) \/ BulkUpdateWrites(x)
  BY <1>2, UpdateAccountWritesRows, ShadowsWriteRows, BulkUpdateWritesRows
<1>3. CASE SyncProxy(x) \/ SyncAccount(x)
  BY <1>3, SyncProxyRows, SyncAccountRows
<1>4. ASSUME NEW p \in {0} \cup ProxyIds, NEW kind \in {"oauth", "key"}, NEW profile \in BOOLEAN,
             CreateAccount(x, kind, p, profile)
      PROVE  operator'[x].pc = "insertAccount"
  BY <1>4, CreateAccountRows
<1>5. ASSUME NEW p \in {0} \cup ProxyIds, NEW a \in AccountIds, NEW changed \in BOOLEAN,
             UpdateAccountReads(x, a, changed, p) \/ BulkUpdateChecks(x, a, p)
      PROVE  operator'[x].pc \in {"updateAccount", "bulkUpdate"}
  BY <1>5, UpdateAccountReadsRows, BulkUpdateChecksRows
<1>6. ASSUME NEW a \in AccountIds, DuplicateAccount(x, a) \/ CreateShadow(x, a)
      PROVE  operator'[x].pc = "insertAccount"
  BY <1>6, DuplicateAccountRows, CreateShadowRows
<1>7. ASSUME NEW a \in AccountIds, DeleteAccount(x, a)
      PROVE  operator'[x].pc = "idle"
  BY <1>7 DEF DeleteAccount, Asked
<1>8. ASSUME NEW id \in CrsIds, NEW kind \in {"oauth", "key"}, NEW proxies \in BOOLEAN,
             NEW url \in {Nobody} \cup ProxyUrls, SyncFinds(x, id, kind, proxies, url)
      PROVE  operator'[x].pc = "syncProxy"
  BY <1>8, SyncFindsRows
<1> QED BY <1>1, <1>2, <1>3, <1>4, <1>5, <1>6, <1>7, <1>8 DEF AccountStep

-----------------------------------------------------------------------------
(*                          The rows stay sound                            *)

LEMMA InitRows ==
  ASSUME RouteInit
  PROVE  RowsInv
<1>1. PICK start \in RouteStarts : proxyRow = start.proxies /\ accountRow = start.accounts
  BY DEF RouteInit
<1>2. SoundStart(proxyRow, accountRow)
  BY <1>1, StartAssumption
<1>3. ProxiesSound
  BY <1>2 DEF SoundStart, ProxiesSound, GoneHaveNone, ProxyThere, Refers, ReferenceIn
<1>4. AccountsSound
  BY <1>2 DEF SoundStart, AccountsSound, ParentsTop, ProxyThere, AccountThere, Refers, ReferenceIn
<1>5. operator \in [Operators -> Job] /\ \A x \in Operators : operator[x] = NoWork
  BY NoWorkTyped DEF RouteInit
<1>6. \A x \in Operators : JobKnows(x)
  BY <1>5, NoWorkKnows DEF JobKnows
<1> QED BY <1>3, <1>4, <1>5, <1>6, RowsInvParts DEF JobsTyped

LEMMA ProxyStepStands ==
  ASSUME RowsInv, NEW x \in Operators, ProxyStep(x)
  PROVE  Stands(x)
<1>1. CASE UpdateProxyWrites(x)
  BY <1>1, UpdateProxyWritesRows
<1>2. CASE CreateProxyWrites(x)
  BY <1>2, CreateProxyWritesRows
<1>3. CASE DeleteProxyRow(x)
  BY <1>3, DeleteProxyRowRows
<1>4. CASE ClearClients(x)
  BY <1>4, ClearClientsRows
<1>5. CASE ImportProxy(x)
  BY <1>5, ImportProxyRows
<1>6. CASE ImportCheck(x)
  BY <1>6, ImportCheckRows
<1>7. CASE ImportFallback(x)
  BY <1>7, ImportFallbackRows
<1>8. CASE UpdateProfile(x)
  BY <1>8, UpdateProfileRows
<1>9. CASE DeleteProfile(x)
  BY <1>9, DeleteProfileRows
<1>10. CASE RequestDropped(x)
  BY <1>10, RequestDroppedRows
<1>11. CASE \E p \in ProxyIds : DeleteProxyCounts(x, p)
  BY <1>11, DeleteProxyCountsRows
<1>12. CASE \E mode \in FallbackModes, backup \in {0} \cup ProxyIds, url \in ProxyUrls :
              CreateProxyChecks(x, mode, backup, url)
  BY <1>12, CreateProxyChecksRows
<1>13. CASE \E mode \in FallbackModes, backup \in {0} \cup ProxyIds, url \in ProxyUrls, p \in ProxyIds, usable \in BOOLEAN :
              UpdateProxyChecks(x, p, usable, mode, backup, url)
  BY <1>13, UpdateProxyChecksRows
<1>14. CASE \E package \in Packages : ImportReads(x, package)
  BY <1>14, ImportReadsRows
<1> QED BY <1>1, <1>2, <1>3, <1>4, <1>5, <1>6, <1>7, <1>8, <1>9, <1>10, <1>11, <1>12, <1>13, <1>14 DEF ProxyStep

LEMMA AccountStepStands ==
  ASSUME RowsInv, NEW x \in Operators, AccountStep(x)
  PROVE  Stands(x) \/ \E a \in AccountIds : DeleteAccount(x, a)
<1>1. CASE InsertAccount(x)
  BY <1>1, InsertAccountRows
<1>2. CASE ImportAccount(x)
  BY <1>2, ImportAccountRows
<1>3. CASE UpdateAccountWrites(x)
  BY <1>3, UpdateAccountWritesRows
<1>4. CASE ShadowsWrite(x)
  BY <1>4, ShadowsWriteRows
<1>5. CASE BulkUpdateWrites(x)
  BY <1>5, BulkUpdateWritesRows
<1>6. CASE SyncProxy(x)
  BY <1>6, SyncProxyRows
<1>7. CASE SyncAccount(x)
  BY <1>7, SyncAccountRows
<1>8. CASE \E p \in {0} \cup ProxyIds, kind \in {"oauth", "key"}, profile \in BOOLEAN : CreateAccount(x, kind, p, profile)
  BY <1>8, CreateAccountRows
<1>9. CASE \E p \in {0} \cup ProxyIds, a \in AccountIds, changed \in BOOLEAN : UpdateAccountReads(x, a, changed, p)
  BY <1>9, UpdateAccountReadsRows
<1>10. CASE \E p \in {0} \cup ProxyIds, a \in AccountIds : BulkUpdateChecks(x, a, p)
  BY <1>10, BulkUpdateChecksRows
<1>11. CASE \E a \in AccountIds : DuplicateAccount(x, a)
  BY <1>11, DuplicateAccountRows
<1>12. CASE \E a \in AccountIds : CreateShadow(x, a)
  BY <1>12, CreateShadowRows
<1>13. CASE \E id \in CrsIds, kind \in {"oauth", "key"}, proxies \in BOOLEAN, url \in {Nobody} \cup ProxyUrls :
              SyncFinds(x, id, kind, proxies, url)
  BY <1>13, SyncFindsRows
<1> QED BY <1>1, <1>2, <1>3, <1>4, <1>5, <1>6, <1>7, <1>8, <1>9, <1>10, <1>11, <1>12, <1>13 DEF AccountStep

\* A step of a gateway call.
LookupStep ==
  \E c \in Lookups : FindClient(c) \/ ReadProfile(c) \/ InsertClient(c) \/ \E a \in AccountIds : CallResolves(c, a)

LEMMA IdleRows ==
  ASSUME RowsInv, UNCHANGED <<proxyRow, accountRow, operator>>
  PROVE  RowsInv'
BY SMTT(30), ProxiesStaySound, RowsInvParts, AccountsStaySound, NobodyTurns

LEMMA LookupStepKeeps ==
  ASSUME LookupStep
  PROVE  UNCHANGED <<proxyRow, accountRow, operator, tlsProfile, snatched, crossed, clashed, uncleared>>
  BY DEF LookupStep, FindClient, ReadProfile, InsertClient, CallResolves, UnchangedHistory

\* Whose step it is.
RouteMove ==
  \/ \E x \in Operators : ProxyStep(x) \/ AccountStep(x)
  \/ LookupStep \/ (\E p \in ProxyIds : ProxyExpires(p)) \/ RestartRoutes

LEMMA Moves == RouteNext => RouteMove
  BY DEF RouteNext, ProxyNext, RouteMove, LookupStep

LEMMA RowsStep ==
  ASSUME RowsInv, [RouteNext]_routeVars
  PROVE  RowsInv'
<1>1. CASE \E x \in Operators : ProxyStep(x)
  BY <1>1, ProxyStepStands DEF Stands
<1>2. CASE \E x \in Operators : AccountStep(x)
  BY <1>2, AccountStepStands, DeleteAccountRows DEF Stands
<1>3. CASE LookupStep \/ UNCHANGED routeVars
  BY <1>3, LookupStepKeeps, IdleRows DEF routeVars
<1>4. CASE \E p \in ProxyIds : ProxyExpires(p)
  BY <1>4, ProxyExpiresRows
<1>5. CASE RestartRoutes
  BY <1>5, RestartRows
<1> QED BY <1>1, <1>2, <1>3, <1>4, <1>5, Moves DEF RouteMove

-----------------------------------------------------------------------------
(*                               Fallbacks                                 *)

LEMMA RowsBacked ==
  ASSUME RowsInv
  PROVE  Backed(proxyRow)
  BY ProxyTypes, RowsInvParts DEF Backed

LEMMA CyclesAre == NoFallbackCycle <=> (~crossed => \A p \in ProxyIds : ~OnCycle(p))
  BY DEF NoFallbackCycle

LEMMA AcyclicHasNone ==
  ASSUME RowsInv, Acyclic(proxyRow)
  PROVE  \A p \in ProxyIds : ~OnCycle(p)
  BY DEF Acyclic, OnCycle, Chain

\* A step that writes no fallback.
LEMMA FallbacksStay ==
  ASSUME RowsInv, FallbacksInv, \A q \in ProxyIds : proxyRow'[q].backup \in {0, proxyRow[q].backup},
         crossed' = crossed
  PROVE  /\ ~crossed' => Acyclic(proxyRow')
         /\ \A y \in Operators : Alike(operator[y], operator'[y]) => FallbackKnown(y)'
<1>1. ~crossed' => Acyclic(proxyRow')
  BY RowsBacked, AcyclicShrinks DEF FallbacksInv
<1>2. ASSUME NEW y \in Operators, Alike(operator[y], operator'[y]),
             operator'[y].pc \in {"updateProxy", "importFallback"}, ~operator'[y].shifted
      PROVE  operator'[y].proxy \notin ChainIn(proxyRow', operator'[y].backup)
  BY <1>2, JobTypes, RowsBacked, ChainShrinks DEF Alike, FallbacksInv, FallbackKnown, Chain, RowsInv
<1> QED BY <1>1, <1>2 DEF FallbackKnown, Chain

LEMMA FallbacksKept ==
  ASSUME RowsInv, FallbacksInv, NEW x \in Operators, OthersKept(x), crossed' = crossed,
         \A q \in ProxyIds : proxyRow'[q].backup \in {0, proxyRow[q].backup}, FallbackKnown(x)'
  PROVE  FallbacksInv'
BY FallbacksStay DEF OthersKept, FallbacksInv

LEMMA FallbacksIdle ==
  ASSUME RowsInv, FallbacksInv, UNCHANGED <<operator, crossed>>,
         \A q \in ProxyIds : proxyRow'[q].backup \in {0, proxyRow[q].backup}
  PROVE  FallbacksInv'
BY FallbacksStay DEF Alike, FallbacksInv

\* A fallback is written by whoever checked it: in between nobody wrote one,
\* or crossed tells.
LEMMA FallbackWritten ==
  ASSUME RowsInv, FallbacksInv, NEW x \in Operators, operator[x].pc \in {"updateProxy", "importFallback"},
         NEW work \in Job, work.pc \notin {"updateProxy", "importFallback"}, NEW mode,
         operator[x].proxy \in ProxyIds, WritesFallback(x, operator[x].proxy, mode, operator[x].backup, work),
         proxyRow'[operator[x].proxy].backup = operator[x].backup,
         \A q \in ProxyIds \ {operator[x].proxy} : proxyRow'[q].backup = proxyRow[q].backup
  PROVE  FallbacksInv'
<1> DEFINE p == operator[x].proxy
           backup == operator[x].backup
<1>1. backup \in {0} \cup ProxyIds /\ operator[x].shifted \in BOOLEAN
  BY JobTypes DEF RowsInv
<1>2. /\ operator'[x] = work
      /\ \A y \in Operators \ {x} : operator'[y].pc \in {"updateProxy", "importFallback"} => operator'[y].shifted
  BY <1>1, WritesFallbackTurns DEF RowsInv, Turns
<1>3. \A y \in Operators : FallbackKnown(y)'
  BY <1>2 DEF FallbackKnown
<1>4. ASSUME ~crossed'
      PROVE  Acyclic(proxyRow')
  BY <1>4, <1>1, RowsBacked, AcyclicGrows DEF WritesFallback, FallbacksInv, FallbackKnown, Chain
<1> QED BY <1>3, <1>4 DEF FallbacksInv

LEMMA UpdateProxyWritesFallbacks ==
  ASSUME RowsInv, FallbacksInv, NEW x \in Operators, UpdateProxyWrites(x)
  PROVE  FallbacksInv'
<1> DEFINE p == operator[x].proxy
           backup == operator[x].backup
<1>1. Stands(x) /\ Lands(x, {"idle", "clear"}) /\ operator[x].pc = "updateProxy"
  BY UpdateProxyWritesRows, UpdateProxyWritesLands DEF UpdateProxyWrites
<1>2. CASE ~ProxyThere(p) \/ ~Refers(backup) BY <1>1, <1>2, FallbacksKept DEF UpdateProxyWrites, Lands, FallbackKnown, Stands
<1>3. CASE ProxyThere(p) /\ Refers(backup)
  <2> DEFINE work == [operator[x] EXCEPT !.pc = "clear"]
             row == [state |-> "there", url |-> operator[x].url, usable |-> operator[x].usable,
                     mode |-> operator[x].mode, backup |-> backup]
  <2>1. proxyRow' = [proxyRow EXCEPT ![p] = row] /\ WritesFallback(x, p, operator[x].mode, backup, work)
    BY <1>3 DEF UpdateProxyWrites
  <2>2. p \in ProxyIds /\ row.backup = backup /\ work \in Job /\ work.pc = "clear"
    BY <1>3, JobTypes DEF RowsInv, ProxyThere, Job, JobPlaces
  <2> HIDE DEF row, work
  <2>3. proxyRow'[p].backup = backup /\ \A q \in ProxyIds \ {p} : proxyRow'[q].backup = proxyRow[q].backup
    BY <2>1, <2>2, RowsInvParts DEF ProxiesSound
  <2> QED BY <1>1, <2>1, <2>2, <2>3, FallbackWritten
<1> QED BY <1>2, <1>3

LEMMA WritesFallbackAs ==
  ASSUME NEW x \in Operators, NEW p, NEW mode, NEW backup, NEW work, WritesFallback(x, p, mode, backup, work)
  PROVE  operator'[x] = work
  BY DEF WritesFallback, Shifted

LEMMA ImportFallbackFallbacks ==
  ASSUME RowsInv, FallbacksInv, NEW x \in Operators, ImportFallback(x)
  PROVE  FallbacksInv'
<1> DEFINE p == operator[x].proxy
           backup == operator[x].backup
<1>1. /\ Stands(x) /\ operator'[x].pc \in {"idle", "importCheck", "clear", "importAccount"}
      /\ operator[x].pc = "importFallback"
  BY ImportFallbackRows DEF ImportFallback
<1>2. CASE ~ProxyThere(p) \/ ~Refers(backup) BY <1>1, <1>2, FallbacksKept DEF ImportFallback, FallbackKnown, Stands
<1>3. CASE ProxyThere(p) /\ Refers(backup)
  <2>1. PICK work :
          /\ proxyRow' = [proxyRow EXCEPT ![p].mode = operator[x].mode, ![p].backup = backup]
          /\ WritesFallback(x, p, operator[x].mode, backup, work)
    BY <1>3 DEF ImportFallback
  <2>2. work = operator'[x] /\ work \in Job
    BY <1>1, <2>1, WritesFallbackAs DEF Stands, RowsInv, JobsTyped
  <2>3. p \in ProxyIds
    BY <1>3, JobTypes DEF RowsInv, ProxyThere
  <2>4. proxyRow'[p].backup = backup /\ \A q \in ProxyIds \ {p} : proxyRow'[q].backup = proxyRow[q].backup
    BY <2>1, <2>3, ProxyTypes, RowsInvParts DEF ProxiesSound, ProxyRow
  <2> QED BY <1>1, <2>1, <2>2, <2>3, <2>4, FallbackWritten
<1> QED BY <1>2, <1>3

\* A new row closes no circle: nothing falls back to it yet.
LEMMA CreateProxyWritesFallbacks ==
  ASSUME RowsInv, FallbacksInv, NEW x \in Operators, CreateProxyWrites(x)
  PROVE  FallbacksInv'
<1> DEFINE backup == operator[x].backup
<1>1. /\ Stands(x) /\ Lands(x, {"idle"}) /\ crossed' = crossed
      /\ operator[x].pc = "createProxy"
  BY CreateProxyWritesRows, CreateProxyLands DEF CreateProxyWrites, UnchangedHistory
<1>2. CASE ~Refers(backup) \/ NextProxy = {} BY <1>1, <1>2, FallbacksKept DEF CreateProxyWrites, Lands, FallbackKnown, Stands
<1>3. CASE Refers(backup) /\ NextProxy # {}
  <2>1. PICK p \in NextProxy :
          proxyRow' = [proxyRow EXCEPT ![p] = NewProxy(operator[x].url, TRUE, operator[x].mode, backup)]
    BY <1>3 DEF CreateProxyWrites
  <2>2. p \in ProxyIds /\ proxyRow[p].state = "unused" /\ backup \in {0} \cup ProxyIds /\ ProxiesSound
    BY NextProxyUnused, JobTypes, RowsInvParts DEF RowsInv
  <2>3. proxyRow'[p].backup = backup /\ \A q \in ProxyIds \ {p} : proxyRow'[q].backup = proxyRow[q].backup
    BY <2>1, <2>2 DEF ProxiesSound, NewProxy
  <2>4. \A r \in ProxyIds : proxyRow[r].backup # p
    BY <2>2, ProxyTypes DEF ProxiesSound, ProxyThere, Refers, GoneHaveNone
  <2>5. backup # p
    BY <1>3, <2>2, ProxyTypes DEF Refers, ProxyThere
  <2>6. p \notin ChainIn(proxyRow, backup)
    <3>1. Backed(proxyRow) BY RowsBacked
    <3>2. \A r \in ProxyIds \ {p} : proxyRow'[r].backup = proxyRow[r].backup BY <2>3
    <3> HIDE DEF backup
    <3> QED BY <2>2, <2>4, <2>5, <3>1, <3>2, ChainOfFresh
  <2>7. ~crossed' => Acyclic(proxyRow')
    BY <1>1, <2>2, <2>3, <2>6, RowsBacked, AcyclicGrows DEF FallbacksInv
  <2>8. ASSUME NEW y \in Operators \ {x}, operator'[y].pc \in {"updateProxy", "importFallback"}, ~operator'[y].shifted
        PROVE  operator'[y].proxy \notin ChainIn(proxyRow', operator'[y].backup)
    <3>1. Alike(operator[y], operator'[y]) /\ operator[y].backup \in {0} \cup ProxyIds /\ Used(operator[y].backup)
      BY <1>1, JobTypes DEF Stands, OthersKept, RowsInv, JobKnows, WorkKnows
    <3>2. operator[y].proxy \notin ChainIn(proxyRow, operator[y].backup)
      BY <2>8, <3>1 DEF Alike, FallbacksInv, FallbackKnown, Chain
    <3>3. operator[y].backup # p
      BY <2>2, <3>1, ProxyTypes DEF Used
    <3>4. ChainIn(proxyRow', operator[y].backup) \subseteq ChainIn(proxyRow, operator[y].backup)
      <4>1. Backed(proxyRow) BY RowsBacked
      <4>2. \A r \in ProxyIds \ {p} : proxyRow'[r].backup = proxyRow[r].backup BY <2>3
      <4>3. p \in ProxyIds /\ operator[y].backup \in {0} \cup ProxyIds BY <2>2, <3>1
      <4> QED BY ONLY <2>4, <3>3, <4>1, <4>2, <4>3, ChainOfFresh
    <3> QED BY <3>1, <3>2, <3>4 DEF Alike
  <2>9. FallbackKnown(x)'
    BY <1>1 DEF Lands, FallbackKnown
  <2> QED BY <2>7, <2>8, <2>9 DEF FallbacksInv, FallbackKnown, Chain
<1> QED BY <1>2, <1>3

\* What a step leaves of the fallbacks.
BackupsKept == crossed' = crossed /\ \A q \in ProxyIds : proxyRow'[q].backup \in {0, proxyRow[q].backup}

LEMMA AccountStepBackups ==
  ASSUME RowsInv, NEW x \in Operators, AccountStep(x)
  PROVE  BackupsKept
<1>1. CASE SyncProxy(x)
  BY <1>1, SyncProxyRows DEF SyncProxy, UnchangedHistory, BackupsKept
<1>2. CASE ~SyncProxy(x)
  <2>1. UNCHANGED <<proxyRow, crossed>>
    BY <1>2 DEF AccountStep, InsertAccount, ImportAccount, UpdateAccountWrites, ShadowsWrite, BulkUpdateWrites,
       SyncAccount, CreateAccount, UpdateAccountReads, BulkUpdateChecks, DuplicateAccount, CreateShadow,
       DeleteAccount, SyncFinds, WorksOn, UnchangedHistory
  <2> QED BY SMTT(30), <2>1 DEF BackupsKept
<1> QED BY SMTT(30), <1>1, <1>2

LEMMA DeleteProxyRowBackups ==
  ASSUME RowsInv, NEW x \in Operators, DeleteProxyRow(x)
  PROVE  BackupsKept
<1>1. ASSUME NEW q \in ProxyIds
      PROVE  proxyRow'[q].backup \in {0, proxyRow[q].backup}
  <2>1. proxyRow[q] \in ProxyRow
    BY ProxyTypes, RowsInvParts
  <2>2. CASE UNCHANGED proxyRow
    BY <2>2
  <2>3. CASE proxyRow'[q] \in {[proxyRow[q] EXCEPT !.state = "gone", !.backup = 0], [proxyRow[q] EXCEPT !.backup = 0],
                               proxyRow[q]}
    BY <2>1, <2>3 DEF ProxyRow
  <2> QED BY <2>2, <2>3 DEF DeleteProxyRow
<1> QED BY <1>1 DEF DeleteProxyRow, BackupsKept

LEMMA ProxyStepFallbacks ==
  ASSUME RowsInv, FallbacksInv, NEW x \in Operators, ProxyStep(x)
  PROVE  FallbacksInv'
<1>0. Stands(x)
  BY ProxyStepStands
<1> SUFFICES ASSUME ~UpdateProxyWrites(x), ~CreateProxyWrites(x), ~ImportFallback(x)
             PROVE  BackupsKept /\ FallbackKnown(x)'
  BY <1>0, FallbacksKept, UpdateProxyWritesFallbacks, CreateProxyWritesFallbacks, ImportFallbackFallbacks
     DEF Stands, BackupsKept
<1>1. CASE DeleteProxyRow(x)
  BY <1>1, DeleteProxyRowBackups, DeleteProxyLands DEF Lands, FallbackKnown
<1>2. CASE ClearClients(x) \/ RequestDropped(x)
  BY SMTT(30), <1>2, RequestDroppedRows, ClearClientsRows
     DEF ClearClients, RequestDropped, UnchangedHistory, BackupsKept, Turns, NoWork, FallbackKnown
<1>3. CASE ImportProxy(x)
  BY <1>3, ImportProxyRows DEF ImportProxy, UnchangedHistory, BackupsKept, FallbackKnown
<1>4. CASE ImportCheck(x)
  BY <1>4, ImportCheckRows DEF ImportCheck, UnchangedHistory, BackupsKept, FallbackKnown, Chain
<1>5. CASE UpdateProfile(x) \/ DeleteProfile(x)
  <2>1. PICK there \in BOOLEAN : EditsProfile(x, there)
    BY <1>5 DEF UpdateProfile, DeleteProfile
  <2> QED BY <2>1, EditsProfileLands DEF EditsProfile, UnchangedHistory, BackupsKept, Lands, FallbackKnown
<1>6. CASE \E p \in ProxyIds : DeleteProxyCounts(x, p)
  BY <1>6, DeleteProxyLands DEF DeleteProxyCounts, UnchangedHistory, BackupsKept, Lands, FallbackKnown
<1>7. CASE \E mode \in FallbackModes, backup \in {0} \cup ProxyIds, url \in ProxyUrls :
              CreateProxyChecks(x, mode, backup, url)
  BY <1>7, CreateProxyLands DEF CreateProxyChecks, UnchangedHistory, BackupsKept, Lands, FallbackKnown
<1>8. CASE \E mode \in FallbackModes, backup \in {0} \cup ProxyIds, url \in ProxyUrls, p \in ProxyIds, usable \in BOOLEAN :
              UpdateProxyChecks(x, p, usable, mode, backup, url)
  <2>1. PICK mode \in FallbackModes, backup \in {0} \cup ProxyIds, url \in ProxyUrls, p \in ProxyIds, usable \in BOOLEAN :
              UpdateProxyChecks(x, p, usable, mode, backup, url)
    BY <1>8
  <2>2. UNCHANGED <<proxyRow, crossed>>
    BY <2>1 DEF UpdateProxyChecks, UnchangedHistory
  <2> QED BY <2>1, <2>2, UpdateProxyChecksLands DEF BackupsKept, Lands, FallbackKnown, Chain
<1>9. CASE \E package \in Packages : ImportReads(x, package)
  BY <1>9, ImportReadsLands DEF ImportReads, UnchangedHistory, BackupsKept, Lands, FallbackKnown
<1> QED BY <1>1, <1>2, <1>3, <1>4, <1>5, <1>6, <1>7, <1>8, <1>9 DEF ProxyStep

LEMMA FallbacksStep ==
  ASSUME RowsInv, FallbacksInv, [RouteNext]_routeVars
  PROVE  FallbacksInv'
<1>1. CASE \E x \in Operators : ProxyStep(x)
  BY <1>1, ProxyStepFallbacks
<1>2. CASE \E x \in Operators : AccountStep(x)
  <2>1. PICK x \in Operators : AccountStep(x)
    BY <1>2
  <2>2. BackupsKept
    BY <2>1, AccountStepBackups
  <2>3. CASE Stands(x)
    BY <2>1, <2>2, <2>3, AccountLands, FallbacksKept DEF BackupsKept, Stands, FallbackKnown
  <2>4. CASE \E a \in AccountIds : DeleteAccount(x, a)
    BY <2>2, <2>4, FallbacksIdle DEF DeleteAccount, BackupsKept
  <2> QED BY <2>1, <2>3, <2>4, AccountStepStands
<1>3. CASE LookupStep \/ UNCHANGED routeVars
  BY <1>3, LookupStepKeeps, FallbacksIdle DEF routeVars
<1>4. CASE \E p \in ProxyIds : ProxyExpires(p)
  BY <1>4, ProxyExpiresRows, FallbacksIdle DEF ProxyExpires, UnchangedHistory
<1>5. CASE RestartRoutes BY <1>5, RestartRows DEF RestartRoutes, NoWork, FallbackKnown, FallbacksInv
<1> QED BY <1>1, <1>2, <1>3, <1>4, <1>5, Moves DEF RouteMove

LEMMA InitFallbacks ==
  ASSUME RouteInit
  PROVE  FallbacksInv
BY StartAssumption DEF RouteInit, NoWork, FallbackKnown, SoundStart, Acyclic, FallbacksInv

-----------------------------------------------------------------------------
(*                               Deletions                                 *)

\* The references a step adds are these, to p.
AccountsReferTo(p, refs) ==
  \A a \in AccountIds : AccountThere(a)' =>
    \/ AccountThere(a) /\ accountRow'[a].proxy = accountRow[a].proxy
    \/ accountRow'[a].proxy = 0
    \/ accountRow'[a].proxy = p /\ <<"account", a>> \in refs
ProxiesReferTo(p, refs) ==
  \A r \in ProxyIds : ProxyThere(r)' =>
    \/ ProxyThere(r) /\ proxyRow'[r].backup = proxyRow[r].backup
    \/ proxyRow'[r].backup = 0
    \/ proxyRow'[r].backup = p /\ <<"proxy", r>> \in refs

LEMMA ReferencesGrow ==
  ASSUME NEW p, NEW refs, AccountsReferTo(p, refs), ProxiesReferTo(p, refs), NEW q \in ProxyIds, q # 0
  PROVE  ReferencesTo(q)' \subseteq ReferencesTo(q) \cup (IF q = p THEN refs ELSE {})
BY DEF AccountsReferTo, ReferencesTo, ProxiesReferTo

LEMMA AccountsReferAsBefore ==
  ASSUME NEW p, NEW refs, UNCHANGED accountRow
  PROVE  AccountsReferTo(p, refs)
  BY DEF AccountsReferTo, AccountThere

LEMMA ProxiesReferAsBefore ==
  ASSUME NEW p, NEW refs, UNCHANGED proxyRow
  PROVE  ProxiesReferTo(p, refs)
  BY DEF ProxiesReferTo, ProxyThere

\* Backups as they were, but for new rows without one.
LEMMA ProxiesReferNoMore ==
  ASSUME RowsInv, NEW p, NEW refs, \A q \in ProxyIds : proxyRow'[q].backup = proxyRow[q].backup,
         \A q \in ProxyIds : ProxyThere(q)' => ProxyThere(q) \/ proxyRow[q].state = "unused"
  PROVE  ProxiesReferTo(p, refs)
  BY RowsInvParts DEF ProxiesReferTo, ProxiesSound, GoneHaveNone

LEMMA ToldNothing ==
  ASSUME NEW x, NEW p
  PROVE  Told(x, 0, {}) /\ Told(x, p, {})
  BY DEF Told

\* Deletions in progress hear of every new reference.
LEMMA OthersHear ==
  ASSUME RowsInv, NEW p, NEW refs, AccountsReferTo(p, refs), ProxiesReferTo(p, refs), ProxiesGrow,
         NEW y \in Operators, DeletionKnows(y), Alike(operator[y], operator'[y]),
         p # 0 /\ operator[y].pc = "deleteRow" /\ operator[y].proxy = p => refs \subseteq operator'[y].late
  PROVE  DeletionKnows(y)'
<1> SUFFICES ASSUME operator'[y].pc = "deleteRow", ProxyThere(operator[y].proxy)'
             PROVE  ReferencesTo(operator[y].proxy)' \subseteq operator'[y].late
  BY DEF DeletionKnows
<1>1. operator[y].pc = "deleteRow" /\ operator'[y].proxy = operator[y].proxy /\ operator[y].late \subseteq operator'[y].late
  BY DEF Alike
<1>2. PICK q \in ProxyIds : q = operator[y].proxy /\ q # 0 /\ proxyRow[q].state \in Existence /\ proxyRow[q].state # "unused"
  BY <1>1, JobTypes, ProxyTypes, RowsInvParts DEF RowsInv, JobKnows, WorkKnows, Fits, Used
<1>3. ProxyThere(q)
  BY <1>1, <1>2 DEF ProxiesGrow, ProxyThere, Existence
<1>4. ReferencesTo(q) \subseteq operator'[y].late
  BY <1>1, <1>2, <1>3 DEF DeletionKnows
<1>5. q = p => refs \subseteq operator'[y].late
  BY <1>1, <1>2
<1>6. ReferencesTo(q)' \subseteq operator'[y].late
  BY <1>2, <1>4, <1>5, ReferencesGrow
<1> QED BY <1>1, <1>2, <1>6

LEMMA DeletionsKept ==
  ASSUME RowsInv, DeletionsInv, NEW x \in Operators, Stands(x), snatched' = snatched, DeletionKnows(x)',
         NEW p, NEW refs, AccountsReferTo(p, refs), ProxiesReferTo(p, refs), Told(x, p, refs)
  PROVE  DeletionsInv'
BY OthersHear DEF Stands, OthersKept, DeletionsInv, Told, NothingSnatched

\* A deletion hears of a fallback that is written meanwhile.
LEMMA WritesFallbackTold ==
  ASSUME RowsInv, NEW x \in Operators, JobsTyped', NEW p \in ProxyIds, NEW mode, NEW backup \in {0} \cup ProxyIds,
         NEW work, WritesFallback(x, p, mode, backup, work)
  PROVE  Told(x, backup, {<<"proxy", p>>})
BY WritesFallbackAs, WritesFallbackTurns DEF JobsTyped, RowsInv, Told

LEMMA FallbackRefers ==
  ASSUME RowsInv, NEW p \in ProxyIds, NEW backup, proxyRow'[p].backup = backup,
         \A q \in ProxyIds \ {p} : proxyRow'[q] = proxyRow[q]
  PROVE  ProxiesReferTo(backup, {<<"proxy", p>>})
  BY DEF ProxiesReferTo, ProxyThere

LEMMA UpdateProxyWritesDeletions ==
  ASSUME RowsInv, DeletionsInv, NEW x \in Operators, UpdateProxyWrites(x)
  PROVE  DeletionsInv'
<1> DEFINE p == operator[x].proxy
           backup == operator[x].backup
<1>1. Stands(x) /\ Lands(x, {"idle", "clear"}) /\ UNCHANGED <<accountRow, snatched>>
  BY UpdateProxyWritesRows, UpdateProxyWritesLands DEF UpdateProxyWrites
<1>2. DeletionKnows(x)'
  BY <1>1 DEF Lands, DeletionKnows
<1>3. CASE ~ProxyThere(p) \/ ~Refers(backup)
  <2>1. UNCHANGED proxyRow
    BY <1>3 DEF UpdateProxyWrites
  <2> QED BY <1>1, <1>2, <2>1, DeletionsKept, AccountsReferAsBefore, ProxiesReferAsBefore, ToldNothing
<1>4. CASE ProxyThere(p) /\ Refers(backup)
  <2> DEFINE work == [operator[x] EXCEPT !.pc = "clear"]
             row == [state |-> "there", url |-> operator[x].url, usable |-> operator[x].usable,
                     mode |-> operator[x].mode, backup |-> backup]
  <2>1. proxyRow' = [proxyRow EXCEPT ![p] = row] /\ WritesFallback(x, p, operator[x].mode, backup, work)
    BY <1>4 DEF UpdateProxyWrites
  <2>2. p \in ProxyIds /\ row.backup = backup /\ backup \in {0} \cup ProxyIds
    BY <1>4, JobTypes DEF RowsInv, ProxyThere
  <2> HIDE DEF row, work
  <2>3. proxyRow'[p].backup = backup /\ \A q \in ProxyIds \ {p} : proxyRow'[q] = proxyRow[q]
    BY <2>1, <2>2, RowsInvParts DEF ProxiesSound
  <2>4. Told(x, backup, {<<"proxy", p>>})
    BY <1>1, <2>1, <2>2, WritesFallbackTold DEF Stands, RowsInv
  <2>5. AccountsReferTo(backup, {<<"proxy", p>>}) /\ ProxiesReferTo(backup, {<<"proxy", p>>})
    BY <1>1, <2>2, <2>3, AccountsReferAsBefore, FallbackRefers
  <2> QED BY <1>1, <1>2, <2>4, <2>5, DeletionsKept
<1> QED BY <1>3, <1>4

LEMMA ImportFallbackDeletions ==
  ASSUME RowsInv, DeletionsInv, NEW x \in Operators, ImportFallback(x)
  PROVE  DeletionsInv'
<1> DEFINE p == operator[x].proxy
           backup == operator[x].backup
<1>1. /\ Stands(x) /\ operator'[x].pc \in {"idle", "importCheck", "clear", "importAccount"}
      /\ UNCHANGED <<accountRow, snatched>>
  BY ImportFallbackRows DEF ImportFallback
<1>2. DeletionKnows(x)'
  BY <1>1 DEF DeletionKnows
<1>3. CASE ~ProxyThere(p) \/ ~Refers(backup)
  <2>1. UNCHANGED proxyRow
    BY <1>3 DEF ImportFallback
  <2> QED BY <1>1, <1>2, <2>1, DeletionsKept, AccountsReferAsBefore, ProxiesReferAsBefore, ToldNothing
<1>4. CASE ProxyThere(p) /\ Refers(backup)
  <2>1. PICK work :
          /\ proxyRow' = [proxyRow EXCEPT ![p].mode = operator[x].mode, ![p].backup = backup]
          /\ WritesFallback(x, p, operator[x].mode, backup, work)
    BY <1>4 DEF ImportFallback
  <2>2. p \in ProxyIds /\ backup \in {0} \cup ProxyIds
    BY <1>4, JobTypes DEF RowsInv, ProxyThere
  <2>3. proxyRow'[p].backup = backup /\ \A q \in ProxyIds \ {p} : proxyRow'[q] = proxyRow[q]
    BY <2>1, <2>2, ProxyTypes, RowsInvParts DEF ProxiesSound, ProxyRow
  <2>4. Told(x, backup, {<<"proxy", p>>})
    BY <1>1, <2>1, <2>2, WritesFallbackTold DEF Stands, RowsInv
  <2>5. AccountsReferTo(backup, {<<"proxy", p>>}) /\ ProxiesReferTo(backup, {<<"proxy", p>>})
    BY <1>1, <2>2, <2>3, AccountsReferAsBefore, FallbackRefers
  <2> QED BY <1>1, <1>2, <2>4, <2>5, DeletionsKept
<1> QED BY <1>3, <1>4

LEMMA CreateProxyWritesDeletions ==
  ASSUME RowsInv, DeletionsInv, NEW x \in Operators, CreateProxyWrites(x)
  PROVE  DeletionsInv'
<1> DEFINE backup == operator[x].backup
<1>1. Stands(x) /\ Lands(x, {"idle"}) /\ UNCHANGED <<accountRow, snatched>>
  BY CreateProxyWritesRows, CreateProxyLands DEF CreateProxyWrites, UnchangedHistory
<1>2. DeletionKnows(x)'
  BY <1>1 DEF Lands, DeletionKnows
<1>3. CASE ~Refers(backup) \/ NextProxy = {}
  <2>1. UNCHANGED proxyRow
    BY <1>3 DEF CreateProxyWrites
  <2> QED BY <1>1, <1>2, <2>1, DeletionsKept, AccountsReferAsBefore, ProxiesReferAsBefore, ToldNothing
<1>4. CASE Refers(backup) /\ NextProxy # {}
  <2>1. PICK p \in NextProxy :
          /\ proxyRow' = [proxyRow EXCEPT ![p] = NewProxy(operator[x].url, TRUE, operator[x].mode, backup)]
          /\ Assigns(x, NoWork, {<<"proxy", p>>}, backup)
    BY <1>4 DEF CreateProxyWrites
  <2>2. p \in ProxyIds /\ backup \in {0} \cup ProxyIds /\ {<<"proxy", p>>} \in SUBSET References
    BY NextProxyUnused, JobTypes DEF RowsInv, References
  <2>3. proxyRow'[p].backup = backup /\ \A q \in ProxyIds \ {p} : proxyRow'[q] = proxyRow[q]
    BY <2>1, <2>2, RowsInvParts DEF ProxiesSound, NewProxy
  <2>4. Told(x, backup, {<<"proxy", p>>})
    BY <2>1, <2>2, AssignsTold, NoWorkTyped
  <2>5. AccountsReferTo(backup, {<<"proxy", p>>}) /\ ProxiesReferTo(backup, {<<"proxy", p>>})
    BY <1>1, <2>2, <2>3, AccountsReferAsBefore, FallbackRefers
  <2> QED BY <1>1, <1>2, <2>4, <2>5, DeletionsKept
<1> QED BY <1>3, <1>4

\* What the deletion has not counted came late.
LEMMA DeleteProxyRowDeletions ==
  ASSUME RowsInv, DeletionsInv, NEW x \in Operators, DeleteProxyRow(x)
  PROVE  DeletionsInv'
<1> DEFINE p == operator[x].proxy
<1>1. Stands(x) /\ Lands(x, {"idle", "clear"}) /\ operator[x].pc = "deleteRow"
  BY DeleteProxyRowRows, DeleteProxyLands DEF DeleteProxyRow
<1>2. DeletionKnows(x)'
  BY <1>1 DEF Lands, DeletionKnows
<1>3. CASE ~ProxyThere(p)
  <2>1. UNCHANGED <<proxyRow, accountRow, snatched>>
    BY <1>3 DEF DeleteProxyRow
  <2> QED BY <1>1, <1>2, <2>1, DeletionsKept, AccountsReferAsBefore, ProxiesReferAsBefore, ToldNothing
<1>4. CASE ProxyThere(p)
  <2>1. snatched' = snatched
    BY <1>1, <1>4 DEF DeleteProxyRow, DeletionsInv, DeletionKnows
  <2>2. AccountsReferTo(0, {})
    <3> SUFFICES ASSUME NEW a \in AccountIds, AccountThere(a)', accountRow'[a].proxy # 0
                 PROVE  AccountThere(a) /\ accountRow'[a].proxy = accountRow[a].proxy
      BY DEF AccountsReferTo
    <3>1. accountRow[a] \in AccountRow
      BY AccountTypes, RowsInvParts
    <3>2. accountRow'[a] = IF accountRow[a].proxy = p THEN [accountRow[a] EXCEPT !.proxy = 0] ELSE accountRow[a]
      BY <1>4 DEF DeleteProxyRow
    <3> QED BY <3>1, <3>2 DEF AccountRow, AccountThere
  <2>3. ProxiesReferTo(0, {})
    <3> SUFFICES ASSUME NEW r \in ProxyIds, ProxyThere(r)', proxyRow'[r].backup # 0
                 PROVE  ProxyThere(r) /\ proxyRow'[r].backup = proxyRow[r].backup
      BY DEF ProxiesReferTo
    <3>1. proxyRow[r] \in ProxyRow
      BY ProxyTypes, RowsInvParts
    <3>2. proxyRow'[r] \in {[proxyRow[r] EXCEPT !.state = "gone", !.backup = 0], [proxyRow[r] EXCEPT !.backup = 0],
                            proxyRow[r]}
      BY <1>4 DEF DeleteProxyRow
    <3> QED BY <3>1, <3>2 DEF ProxyRow, ProxyThere
  <2> QED BY <1>1, <1>2, <2>1, <2>2, <2>3, DeletionsKept, ToldNothing
<1> QED BY SMTT(30), <1>3, <1>4

LEMMA DeleteProxyCountsDeletions ==
  ASSUME RowsInv, DeletionsInv, NEW x \in Operators, NEW p \in ProxyIds, DeleteProxyCounts(x, p)
  PROVE  DeletionsInv'
<1>1. /\ Stands(x) /\ operator'[x].proxy = p /\ operator'[x].late = {} /\ UNCHANGED <<proxyRow, accountRow, snatched>>
      /\ ReferencesTo(p) = {}
  BY DeleteProxyCountsRows, DeleteProxyLands DEF DeleteProxyCounts, UnchangedHistory, UsageOf
<1>2. ReferencesTo(p)' = {}
  BY <1>1 DEF ReferencesTo, AccountThere, ProxyThere
<1>3. DeletionKnows(x)'
  BY <1>1, <1>2 DEF DeletionKnows
<1> QED BY <1>1, <1>3, DeletionsKept, AccountsReferAsBefore, ProxiesReferAsBefore, ToldNothing

LEMMA ProxyStepDeletions ==
  ASSUME RowsInv, DeletionsInv, NEW x \in Operators, ProxyStep(x)
  PROVE  DeletionsInv'
<1>0. Stands(x)
  BY ProxyStepStands
<1> SUFFICES ASSUME ~UpdateProxyWrites(x), ~CreateProxyWrites(x), ~ImportFallback(x), ~DeleteProxyRow(x),
                    ~\E p \in ProxyIds : DeleteProxyCounts(x, p)
             PROVE  /\ snatched' = snatched /\ operator'[x].pc # "deleteRow"
                    /\ AccountsReferTo(0, {}) /\ ProxiesReferTo(0, {})
  BY <1>0, DeletionsKept, ToldNothing, UpdateProxyWritesDeletions, CreateProxyWritesDeletions,
     ImportFallbackDeletions, DeleteProxyRowDeletions, DeleteProxyCountsDeletions DEF DeletionKnows
<1> DEFINE Quiet == UNCHANGED <<proxyRow, accountRow, snatched>>
<1>1. Quiet => snatched' = snatched /\ AccountsReferTo(0, {}) /\ ProxiesReferTo(0, {})
  BY AccountsReferAsBefore, ProxiesReferAsBefore
<1>2. CASE ClearClients(x) \/ RequestDropped(x)
  BY SMTT(30), <1>2, RequestDroppedRows, ClearClientsRows, <1>1 DEF ClearClients, RequestDropped, UnchangedHistory, Turns, NoWork
<1>3. CASE ImportProxy(x)
  BY <1>3, ImportProxyRows, AccountsReferAsBefore, ProxiesReferNoMore DEF ImportProxy, UnchangedHistory
<1>4. CASE ImportCheck(x) BY <1>4, <1>1, ImportCheckRows DEF ImportCheck, UnchangedHistory
<1>5. CASE UpdateProfile(x) BY <1>5, EditsProfileLands, <1>1 DEF UpdateProfile, EditsProfile, UnchangedHistory, Lands
<1>6. CASE DeleteProfile(x)
  BY <1>6, EditsProfileLands, DeleteProfileRows, ProxiesReferAsBefore DEF DeleteProfile, EditsProfile, UnchangedHistory,
     Lands, AccountsReferTo, AccountThere
<1>7. CASE \E mode \in FallbackModes, backup \in {0} \cup ProxyIds, url \in ProxyUrls :
              CreateProxyChecks(x, mode, backup, url)
  BY <1>7, CreateProxyLands, <1>1 DEF CreateProxyChecks, UnchangedHistory, Lands
<1>8. CASE \E mode \in FallbackModes, backup \in {0} \cup ProxyIds, url \in ProxyUrls, p \in ProxyIds, usable \in BOOLEAN :
              UpdateProxyChecks(x, p, usable, mode, backup, url)
  <2>1. Quiet /\ operator'[x].pc \in {"hung", "updateProxy"}
    BY ZenonT(60), <1>8, UpdateProxyChecksLands DEF UpdateProxyChecks, UnchangedHistory, Lands
  <2> QED BY SMTT(30), <1>1, <2>1
<1>9. CASE \E package \in Packages : ImportReads(x, package)
  BY <1>9, ImportReadsLands, <1>1 DEF ImportReads, UnchangedHistory, Lands
<1> QED BY <1>2, <1>3, <1>4, <1>5, <1>6, <1>7, <1>8, <1>9 DEF ProxyStep

LEMMA AccountsRefer ==
  ASSUME NEW p, NEW refs,
         \A b \in AccountIds :
           \/ accountRow'[b].state = accountRow[b].state /\ accountRow'[b].proxy = accountRow[b].proxy
           \/ accountRow'[b].proxy = p /\ <<"account", b>> \in refs
  PROVE  AccountsReferTo(p, refs)
  BY DEF AccountsReferTo, AccountThere

\* Accounts are given the proxy that deletions are told of.
AccountsTold(x) ==
  \E p \in {0} \cup ProxyIds, refs \in SUBSET References : AccountsReferTo(p, refs) /\ Told(x, p, refs)

LEMMA InsertAccountTold ==
  ASSUME RowsInv, NEW x \in Operators, InsertAccount(x)
  PROVE  AccountsTold(x)
<1>1. CASE UNCHANGED accountRow
  BY <1>1, AccountsReferAsBefore, ToldNothing DEF AccountsTold
<1>2. CASE ~UNCHANGED accountRow
  <2>1. PICK a \in AccountIds :
          /\ accountRow' = [accountRow EXCEPT ![a] = NewAccount(operator[x])]
          /\ Told(x, operator[x].proxy, {<<"account", a>>}) /\ operator[x].proxy \in {0} \cup ProxyIds
    BY <1>2, InsertAccountRows
  <2>2. AccountsReferTo(operator[x].proxy, {<<"account", a>>})
    BY <2>1, AccountsRefer, RowsInvParts DEF NewAccount, AccountsSound
  <2>3. {<<"account", a>>} \in SUBSET References
    BY DEF References
  <2> QED BY <2>1, <2>2, <2>3 DEF AccountsTold
<1> QED BY <1>1, <1>2

LEMMA ImportAccountTold ==
  ASSUME RowsInv, NEW x \in Operators, ImportAccount(x)
  PROVE  AccountsTold(x)
<1>1. CASE UNCHANGED accountRow
  BY <1>1, AccountsReferAsBefore, ToldNothing DEF AccountsTold
<1>2. CASE ~UNCHANGED accountRow
  <2>1. PICK a \in AccountIds, p \in {0} \cup ProxyIds :
          /\ accountRow' = [accountRow EXCEPT ![a] = NewAccount([NoWork EXCEPT !.proxy = p])]
          /\ Told(x, p, {<<"account", a>>})
    BY <1>2, ImportAccountRows
  <2>2. NewAccount([NoWork EXCEPT !.proxy = p]).proxy = p
    BY DEF NewAccount, NoWork
  <2>3. AccountsReferTo(p, {<<"account", a>>})
    BY <2>1, <2>2, AccountsRefer, RowsInvParts DEF AccountsSound
  <2> QED BY <2>1, <2>3 DEF AccountsTold, References
<1> QED BY <1>1, <1>2

LEMMA UpdateAccountWritesTold ==
  ASSUME RowsInv, NEW x \in Operators, UpdateAccountWrites(x)
  PROVE  AccountsTold(x)
<1> DEFINE a == operator[x].account
           p == operator[x].proxy
<1>1. CASE UNCHANGED accountRow
  BY <1>1, AccountsReferAsBefore, ToldNothing DEF AccountsTold
<1>2. CASE ~UNCHANGED accountRow
  <2>1. /\ accountRow' = [accountRow EXCEPT ![a].proxy = p, ![a].profile = operator[x].profile]
        /\ Told(x, p, {<<"account", a>>})
        /\ AccountThere(a)
    BY <1>2, UpdateAccountWritesRows
  <2>2. a \in AccountIds /\ p \in {0} \cup ProxyIds
    BY <2>1, JobTypes DEF RowsInv, AccountThere
  <2>3. AccountsReferTo(p, {<<"account", a>>})
    BY <2>1, <2>2, AccountsRefer, AccountTypes, RowsInvParts DEF AccountsSound, AccountRow
  <2> QED BY <2>1, <2>2, <2>3 DEF AccountsTold, References
<1> QED BY <1>1, <1>2

LEMMA SyncAccountTold ==
  ASSUME RowsInv, NEW x \in Operators, SyncAccount(x)
  PROVE  AccountsTold(x)
<1> DEFINE a == operator[x].account
           p == operator[x].proxy
<1>1. CASE UNCHANGED accountRow
  BY <1>1, AccountsReferAsBefore, ToldNothing DEF AccountsTold
<1>2. CASE ~UNCHANGED accountRow
  <2>1. /\ accountRow' = [accountRow EXCEPT ![a].proxy = p, ![a].kind = operator[x].kind]
        /\ Told(x, p, {<<"account", a>>}) /\ a \in AccountIds /\ p \in {0} \cup ProxyIds
    BY <1>2, SyncAccountRows
  <2>2. ASSUME NEW b \in AccountIds
        PROVE  \/ accountRow'[b].state = accountRow[b].state /\ accountRow'[b].proxy = accountRow[b].proxy
               \/ accountRow'[b].proxy = p /\ b = a
    BY <2>1, AccountTypes, RowsInvParts DEF AccountsSound, AccountRow
  <2>3. AccountsReferTo(p, {<<"account", a>>})
    BY <2>2, AccountsRefer
  <2> QED BY <2>1, <2>3 DEF AccountsTold, References
<1> QED BY <1>1, <1>2

LEMMA ShadowsWriteTold ==
  ASSUME RowsInv, NEW x \in Operators, ShadowsWrite(x)
  PROVE  AccountsTold(x)
<1> DEFINE a == operator[x].account
           p == operator[x].proxy
           refs == {<<"account", s>> : s \in ShadowsOf(a)}
<1>1. CASE UNCHANGED accountRow
  BY <1>1, AccountsReferAsBefore, ToldNothing DEF AccountsTold
<1>2. CASE ~UNCHANGED accountRow
  <2>1. accountRow' = WithShadows(a, p) /\ Told(x, p, refs) /\ p \in {0} \cup ProxyIds
    BY <1>2, ShadowsWriteRows
  <2>2. AccountsReferTo(p, refs)
    <3>1. ASSUME NEW s \in AccountIds
          PROVE  \/ accountRow'[s].state = accountRow[s].state /\ accountRow'[s].proxy = accountRow[s].proxy
                 \/ accountRow'[s].proxy = p /\ <<"account", s>> \in refs
      <4>1. /\ WithShadows(a, p)[s].state = accountRow[s].state
            /\ WithShadows(a, p)[s].proxy = IF s \in ShadowsOf(a) THEN p ELSE accountRow[s].proxy
        <5>1. AccountsSound
          BY RowsInvParts
        <5>2. ShadowsMoved(WithShadows(a, p), a, p)
          BY ONLY <2>1, <5>1, WithShadowsRows
        <5> QED BY ONLY <3>1, <5>2 DEF ShadowsMoved
      <4>2. s \in ShadowsOf(a) => <<"account", s>> \in refs
        OBVIOUS
      <4> HIDE DEF refs
      <4> QED BY <2>1, <4>1, <4>2
    <3> QED BY <3>1, AccountsRefer
  <2>3. refs \in SUBSET References
    BY DEF References, ShadowsOf
  <2> QED BY <2>1, <2>2, <2>3 DEF AccountsTold
<1> QED BY <1>1, <1>2

LEMMA BulkUpdateWritesTold ==
  ASSUME RowsInv, NEW x \in Operators, BulkUpdateWrites(x)
  PROVE  AccountsTold(x)
<1> DEFINE a == operator[x].item
           p == operator[x].proxy
           refs == {<<"account", b>> : b \in ShadowsOf(a) \cup {a}}
<1>1. CASE UNCHANGED accountRow
  BY <1>1, AccountsReferAsBefore, ToldNothing DEF AccountsTold
<1>2. CASE ~UNCHANGED accountRow
  <2>1. /\ accountRow' = [WithShadows(a, p) EXCEPT ![a].proxy = p] /\ Told(x, p, refs)
        /\ p \in {0} \cup ProxyIds /\ a \in AccountIds
    BY <1>2, BulkUpdateWritesRows
  <2>2. ASSUME NEW b \in AccountIds
        PROVE  \/ accountRow'[b].state = accountRow[b].state /\ accountRow'[b].proxy = accountRow[b].proxy
               \/ accountRow'[b].proxy = p /\ <<"account", b>> \in refs
    <3>1. /\ WithShadows(a, p) \in [AccountIds -> AccountRow] /\ WithShadows(a, p)[b].state = accountRow[b].state
          /\ WithShadows(a, p)[b].proxy = IF b \in ShadowsOf(a) THEN p ELSE accountRow[b].proxy
      BY RowsInvParts, <2>1, WithShadowsRows, <2>2 DEF ShadowsMoved
    <3>2. CASE b = a BY <2>1, <3>1, <3>2 DEF AccountRow
    <3>3. CASE b # a
      BY <2>1, <3>1, <3>3
    <3> QED BY <3>2, <3>3
  <2>3. AccountsReferTo(p, refs)
    BY <2>2, AccountsRefer
  <2>4. refs \in SUBSET References
    BY <2>1 DEF References, ShadowsOf
  <2> QED BY <2>1, <2>3, <2>4 DEF AccountsTold
<1> QED BY <1>1, <1>2

LEMMA DeletionsIdle ==
  ASSUME RowsInv, DeletionsInv, UNCHANGED <<operator, snatched>>, ProxiesGrow,
         AccountsReferTo(0, {}), ProxiesReferTo(0, {})
  PROVE  DeletionsInv'
BY OthersHear DEF Alike, DeletionsInv, NothingSnatched

LEMMA AccountStepDeletions ==
  ASSUME RowsInv, DeletionsInv, NEW x \in Operators, AccountStep(x), Stands(x)
  PROVE  DeletionsInv'
<1>1. snatched' = snatched /\ DeletionKnows(x)'
  <2>1. snatched' = snatched
    BY ZenonT(60) DEF AccountStep, InsertAccount, ImportAccount, UpdateAccountWrites, ShadowsWrite, BulkUpdateWrites,
       SyncProxy, SyncAccount, CreateAccount, UpdateAccountReads, BulkUpdateChecks, DuplicateAccount,
       CreateShadow, DeleteAccount, SyncFinds, WorksOn, UnchangedHistory
  <2> QED BY SMTT(30), <2>1, AccountLands DEF Stands, DeletionKnows
<1> SUFFICES AccountsTold(x) /\ \A p, refs : ProxiesReferTo(p, refs)
  BY <1>1, DeletionsKept DEF AccountsTold
<1>2. CASE SyncProxy(x)
  BY <1>2, SyncProxyRows, AccountsReferAsBefore, ProxiesReferNoMore, ToldNothing DEF AccountsTold
<1>3. CASE ~SyncProxy(x)
  <2>1. UNCHANGED proxyRow
    BY <1>3 DEF AccountStep, InsertAccount, ImportAccount, UpdateAccountWrites, ShadowsWrite, BulkUpdateWrites,
       SyncAccount, CreateAccount, UpdateAccountReads, BulkUpdateChecks, DuplicateAccount, CreateShadow,
       DeleteAccount, SyncFinds, WorksOn, UnchangedHistory
  <2> SUFFICES AccountsTold(x)
    BY <2>1, ProxiesReferAsBefore
  <2>2. CASE UNCHANGED accountRow
    BY <2>2, AccountsReferAsBefore, ToldNothing DEF AccountsTold
  <2>3. CASE \E a \in AccountIds : DeleteAccount(x, a)
    BY <2>3, DeleteAccountRows, ToldNothing DEF AccountsReferTo, AccountsTold
  <2>4. CASE ~UNCHANGED accountRow /\ ~\E a \in AccountIds : DeleteAccount(x, a)
    <3>1. \/ InsertAccount(x) \/ ImportAccount(x) \/ UpdateAccountWrites(x) \/ ShadowsWrite(x)
          \/ BulkUpdateWrites(x) \/ SyncAccount(x)
      BY <1>3, <2>4 DEF AccountStep, CreateAccount, UpdateAccountReads, BulkUpdateChecks, DuplicateAccount,
         CreateShadow, SyncFinds, WorksOn
    <3> QED BY SMTT(30), <3>1, InsertAccountTold, ImportAccountTold, UpdateAccountWritesTold, ShadowsWriteTold,
               BulkUpdateWritesTold, SyncAccountTold
  <2> QED BY SMTT(30), <2>2, <2>3, <2>4
<1> QED BY <1>2, <1>3

LEMMA DeletionsStep ==
  ASSUME RowsInv, DeletionsInv, [RouteNext]_routeVars
  PROVE  DeletionsInv'
<1>1. CASE \E x \in Operators : ProxyStep(x)
  BY <1>1, ProxyStepDeletions
<1>2. CASE \E x \in Operators : AccountStep(x)
  <2>1. PICK x \in Operators : AccountStep(x)
    BY <1>2
  <2>2. CASE \E a \in AccountIds : DeleteAccount(x, a)
    BY <2>2, DeleteAccountRows, DeletionsIdle, ProxiesReferAsBefore DEF AccountsReferTo, DeleteAccount, UnchangedHistory
  <2> QED BY <2>1, <2>2, AccountStepStands, AccountStepDeletions
<1>3. CASE LookupStep \/ UNCHANGED routeVars
  <2>1. UNCHANGED <<proxyRow, accountRow, operator, snatched>>
    BY <1>3, LookupStepKeeps DEF routeVars
  <2> QED BY <2>1, DeletionsIdle, ProxiesStaySound, RowsInvParts, AccountsReferAsBefore, ProxiesReferAsBefore
<1>4. CASE \E p \in ProxyIds : ProxyExpires(p)
  BY <1>4, ProxyExpiresRows, DeletionsIdle, AccountsReferAsBefore DEF ProxyExpires, UnchangedHistory, ProxiesGrow,
     ProxiesReferTo, ProxyThere
<1>5. CASE RestartRoutes
  BY <1>5, RestartRows DEF RestartRoutes, NoWork, DeletionKnows, DeletionsInv, NothingSnatched
<1> QED BY <1>1, <1>2, <1>3, <1>4, <1>5, Moves DEF RouteMove

LEMMA InitDeletions ==
  ASSUME RouteInit
  PROVE  DeletionsInv
  BY DEF RouteInit, NoWork, DeletionKnows, DeletionsInv, NothingSnatched

-----------------------------------------------------------------------------
(*                                Shadows                                  *)

\* What a step leaves of an account that another request works on.
AccountKept(a) ==
  AccountThere(a)' =>
    /\ AccountThere(a) /\ accountRow'[a].kind = accountRow[a].kind /\ ShadowsOf(a)' \subseteq ShadowsOf(a)
    /\ \A q \in {0} \cup ProxyIds : accountRow[a].proxy = q /\ Refers(q)' => accountRow'[a].proxy = q

\* Proxies that were there and are there still were there all along.
LEMMA RefersBefore ==
  ASSUME ProxiesSound, ProxiesGrow, NEW q \in {0} \cup ProxyIds, Used(q), Refers(q)'
  PROVE  Refers(q)
  BY ProxyTypes DEF ProxiesGrow, Used, Refers, ProxyThere, Existence

LEMMA OtherKnowsShadows ==
  ASSUME RowsInv, NEW y \in Operators, ShadowKnows(y), Alike(operator[y], operator'[y]), ProxiesGrow,
         clashed \subseteq clashed',
         \A a \in AccountIds : Working(y, a) /\ a \notin clashed' => AccountKept(a)
  PROVE  ShadowKnows(y)'
<1> DEFINE new == operator'[y]
<1>1. new.pc \in {"updateAccount", "syncAccount", "shadows"} => new.account # 0
  BY DEF ShadowKnows, Alike
<1>2. ASSUME new.account # 0, new.account \notin clashed', AccountThere(operator[y].account)'
      PROVE  KnowsAccount(operator[y], operator[y].account)'
  <2>1. PICK a \in AccountIds : a = operator[y].account /\ a = new.account /\ a # 0 /\ a \notin clashed /\ a \notin clashed'
    BY <1>2, JobTypes DEF RowsInv, Alike
  <2>2. PICK q \in {0} \cup ProxyIds : q = operator[y].proxy /\ q = new.proxy /\ Used(q)
    BY JobTypes DEF RowsInv, Alike, JobKnows, WorkKnows
  <2>3. CASE new.pc \in {"idle", "hung"}
    BY <2>3 DEF KnowsAccount
  <2>4. CASE new.pc \notin {"idle", "hung"}
    <3>1. Working(y, a) /\ AccountThere(a)'
      BY <1>2, <2>1, <2>4 DEF Working, Alike
    <3>2. AccountThere(a) /\ AccountKept(a)
      BY <2>1, <3>1 DEF AccountKept
    <3>3. KnowsAccount(operator[y], a)
      BY <2>1, <3>2 DEF ShadowKnows
    <3>4. /\ new.pc \in {"insertAccount", "shadows"} \/ (new.pc \in {"updateAccount", "syncAccount"} /\ ~new.changed)
          /\ Refers(q)'
          => accountRow'[a].proxy = q
      <4>1. Refers(q)' => Refers(q)
        BY <2>2, RefersBefore, RowsInvParts
      <4> QED BY <2>2, <3>1, <3>2, <3>3, <4>1 DEF KnowsAccount, AccountKept, Alike
    <3>5. new.pc = "insertAccount" => accountRow'[a].kind = "oauth"
      BY <3>1, <3>2, <3>3 DEF KnowsAccount, AccountKept, Alike
    <3>6. new.pc \in {"syncProxy", "syncAccount"} /\ new.kind # "oauth" => ShadowsOf(a)' = {}
      BY <3>1, <3>2, <3>3 DEF KnowsAccount, AccountKept, Alike
    <3> QED BY <2>1, <2>2, <3>4, <3>5, <3>6 DEF KnowsAccount
  <2> QED BY <2>3, <2>4
<1> QED BY <1>1, <1>2 DEF ShadowKnows

LEMMA OneEachKept ==
  ASSUME OneEach, NEW x \in Operators, OthersKept(x), clashed \subseteq clashed',
         \A a \in AccountIds : Working(x, a)' /\ ~Working(x, a) => Clash(x, a) \subseteq clashed'
  PROVE  OneEach'
<1> SUFFICES ASSUME NEW u \in Operators, NEW v \in Operators, NEW a \in AccountIds, u # v, Working(u, a)', Working(v, a)',
                    a \notin clashed'
             PROVE  FALSE
  BY DEF OneEach
<1>1. \A y \in Operators \ {x} : Working(y, a)' => Working(y, a)
  BY DEF OthersKept, Alike, Working
<1>2. CASE u # x /\ v # x
  BY <1>1, <1>2 DEF OneEach
<1>3. CASE u = x \/ v = x BY <1>3, <1>1 DEF OneEach, Clash, Working
<1> QED BY <1>2, <1>3

\* A step that gives no account a parent, a kind or a proxy of its own.
Calm ==
  /\ \A a \in AccountIds : /\ AccountThere(a)' => AccountThere(a)
                           /\ accountRow'[a].parent = accountRow[a].parent /\ accountRow'[a].kind = accountRow[a].kind
  /\ \A a \in AccountIds, q \in {0} \cup ProxyIds :
       accountRow[a].proxy = q /\ Refers(q)' => accountRow'[a].proxy = q
  /\ \A a, b \in AccountIds : accountRow[a].proxy = accountRow[b].proxy => accountRow'[a].proxy = accountRow'[b].proxy

LEMMA QuietIsCalm ==
  ASSUME UNCHANGED accountRow
  PROVE  Calm
  BY DEF Calm, AccountThere

LEMMA CalmKeeps ==
  ASSUME Calm, NEW a \in AccountIds
  PROVE  AccountKept(a)
  BY DEF Calm, AccountKept, ShadowsOf

\* What is to be shown of each shadow.
Follows(s, a) == (accountRow[s].proxy = accountRow[a].proxy \/ WritingShadows(a)) /\ accountRow[a].kind = "oauth"

LEMMA EachFollows ==
  ASSUME RowsInv',
         \A s, a \in AccountIds :
           a = accountRow'[s].parent /\ a # 0 /\ AccountThere(s)' /\ a \notin clashed' => Follows(s, a)'
  PROVE  ShadowFollowsParent'
BY DEF RowsInv, RouteTypeOK, AccountRow, ShadowFollowsParent, Follows

LEMMA EachFollowed ==
  ASSUME ShadowFollowsParent, NEW s \in AccountIds, NEW a \in AccountIds, a = accountRow[s].parent, a # 0,
         AccountThere(s), a \notin clashed
  PROVE  Follows(s, a)
  BY DEF ShadowFollowsParent, Follows

\* A shadow that followed its parent still does.
LEMMA CalmFollows ==
  ASSUME RowsInv', ShadowFollowsParent, Calm, clashed \subseteq clashed',
         \A a \in AccountIds : WritingShadows(a) /\ a \notin clashed' => WritingShadows(a)'
  PROVE  ShadowFollowsParent'
<1>1. ASSUME NEW s \in AccountIds, NEW a \in AccountIds, a = accountRow'[s].parent, a # 0, AccountThere(s)', a \notin clashed'
      PROVE  Follows(s, a)'
  BY <1>1, EachFollowed DEF Calm, Follows
<1> QED BY <1>1, EachFollows

LEMMA CalmStands ==
  ASSUME RowsInv, ShadowsInv, NEW x \in Operators, Stands(x), Calm, clashed \subseteq clashed', ShadowKnows(x)',
         operator[x].pc = "shadows" => operator[x].account \in clashed',
         \A a \in AccountIds : Working(x, a)' /\ ~Working(x, a) => Clash(x, a) \subseteq clashed'
  PROVE  ShadowsInv'
<1>1. OneEach'
  BY OneEachKept DEF Stands, ShadowsInv
<1>2. \A y \in Operators \ {x} : ShadowKnows(y)'
  BY CalmKeeps, OtherKnowsShadows DEF Stands, OthersKept, ShadowsInv
<1>3. ASSUME NEW a \in AccountIds, WritingShadows(a), a \notin clashed'
      PROVE  WritingShadows(a)'
  BY <1>3 DEF WritingShadows, Stands, OthersKept, Alike
<1>4. ShadowFollowsParent'
  BY <1>3, CalmFollows DEF Stands, ShadowsInv
<1> QED BY <1>1, <1>2, <1>4 DEF ShadowsInv

\* A request takes up no account that it did not work on before.
TakesNone(x) == \A a \in AccountIds : Working(x, a)' => Working(x, a)

LEMMA LandsTakesNone ==
  ASSUME NEW x, operator'[x].pc \in {"idle", "hung"} \/ operator'[x].account = 0
                \/ (operator[x].pc \notin {"idle", "hung"} /\ operator'[x].account = operator[x].account)
  PROVE  TakesNone(x)
  BY DEF TakesNone, Working

AwayFromAccounts == {"idle", "hung", "updateProxy", "createProxy", "deleteRow", "clear", "importProxy", "importCheck",
                     "importFallback", "importAccount"}

LEMMA AwayKnows ==
  ASSUME NEW x, operator'[x].pc \in AwayFromAccounts
  PROVE  ShadowKnows(x)'
  BY DEF AwayFromAccounts, ShadowKnows, KnowsAccount

LEMMA ProxyStepTakesNone ==
  ASSUME RowsInv, NEW x \in Operators, ProxyStep(x)
  PROVE  TakesNone(x) /\ operator'[x].pc \in AwayFromAccounts
<1>1. CASE UpdateProxyWrites(x)
  BY SMTT(30), <1>1, UpdateProxyWritesLands, LandsTakesNone DEF Lands, UpdateProxyWrites, AwayFromAccounts
<1>2. CASE CreateProxyWrites(x)
  BY <1>2, CreateProxyLands, LandsTakesNone DEF Lands, AwayFromAccounts
<1>3. CASE DeleteProxyRow(x)
  BY <1>3, DeleteProxyLands, LandsTakesNone DEF Lands, DeleteProxyRow, AwayFromAccounts
<1>4. CASE ClearClients(x) \/ RequestDropped(x)
  BY <1>4, RequestDroppedRows, ClearClientsRows, LandsTakesNone DEF Turns, NoWork, AwayFromAccounts
<1>5. CASE ImportProxy(x)
  BY <1>5, ImportProxyRows, LandsTakesNone DEF ImportProxy, AwayFromAccounts
<1>6. CASE ImportCheck(x)
  BY <1>6, ImportCheckRows, LandsTakesNone DEF ImportCheck, AwayFromAccounts
<1>7. CASE ImportFallback(x)
  BY <1>7, ImportFallbackRows, LandsTakesNone DEF ImportFallback, AwayFromAccounts
<1>8. CASE UpdateProfile(x) \/ DeleteProfile(x)
  <2>1. operator'[x].pc = "clear" /\ operator'[x].account = 0
    <3>1. PICK there \in BOOLEAN : EditsProfile(x, there)
      BY <1>8 DEF UpdateProfile, DeleteProfile
    <3> QED BY ZenonT(60), <3>1, EditsProfileTurns DEF Turns, NoWork
  <2> QED BY <2>1, LandsTakesNone DEF AwayFromAccounts
<1>9. CASE \E p \in ProxyIds : DeleteProxyCounts(x, p)
  <2>1. operator'[x].pc = "deleteRow" /\ operator'[x].account = 0
    <3>1. PICK p \in ProxyIds : operator'[x] = [NoWork EXCEPT !.pc = "deleteRow", !.proxy = p]
      BY <1>9, DeleteProxyCountsRows DEF Turns
    <3> QED BY <3>1 DEF NoWork
  <2> QED BY <2>1, LandsTakesNone DEF AwayFromAccounts
<1>10. CASE \E mode \in FallbackModes, backup \in {0} \cup ProxyIds, url \in ProxyUrls :
              CreateProxyChecks(x, mode, backup, url)
  BY <1>10, LandsTakesNone DEF RowsInv, JobsTyped, CreateProxyChecks, Works, NoWork, AwayFromAccounts
<1>11. CASE \E mode \in FallbackModes, backup \in {0} \cup ProxyIds, url \in ProxyUrls, p \in ProxyIds, usable \in BOOLEAN :
              UpdateProxyChecks(x, p, usable, mode, backup, url)
  <2>1. PICK mode \in FallbackModes, backup \in {0} \cup ProxyIds, url \in ProxyUrls, p \in ProxyIds, usable \in BOOLEAN :
              UpdateProxyChecks(x, p, usable, mode, backup, url)
    BY <1>11
  <2>2. operator'[x].pc = "hung" \/ (operator'[x].pc = "updateProxy" /\ operator'[x].account = 0)
    <3>1. CASE Endless(p, mode, backup)
      BY <2>1, <3>1, ContinuesLands DEF RowsInv, UpdateProxyChecks, Lands
    <3>2. CASE ~Endless(p, mode, backup)
      <4>1. operator'[x] = [NoWork EXCEPT !.pc = "updateProxy", !.proxy = p, !.usable = usable, !.mode = mode,
                                          !.backup = backup, !.url = url]
        BY <2>1, <3>2, WorksAs DEF RowsInv, UpdateProxyChecks
      <4> QED BY <4>1 DEF NoWork
    <3> QED BY <3>1, <3>2
  <2> QED BY <2>2, LandsTakesNone DEF AwayFromAccounts
<1>12. CASE \E package \in Packages : ImportReads(x, package)
  BY <1>12, LandsTakesNone DEF RowsInv, JobsTyped, ImportReads, Works, NoWork, AwayFromAccounts
<1> QED BY <1>1, <1>2, <1>3, <1>4, <1>5, <1>6, <1>7, <1>8, <1>9, <1>10, <1>11, <1>12 DEF ProxyStep

LEMMA DeleteProxyRowCalm ==
  ASSUME RowsInv, NEW x \in Operators, DeleteProxyRow(x)
  PROVE  Calm
<1> DEFINE p == operator[x].proxy
<1>1. CASE ~ProxyThere(p)
  BY <1>1, QuietIsCalm DEF DeleteProxyRow
<1>2. CASE ProxyThere(p)
  <2>1. p \in ProxyIds /\ p # 0
    BY <1>2, JobTypes DEF RowsInv, ProxyThere
  <2>2. proxyRow'[p].state = "gone"
    <3>1. proxyRow'[p] = [proxyRow[p] EXCEPT !.state = "gone", !.backup = 0]
      BY <1>2, <2>1 DEF DeleteProxyRow
    <3>2. proxyRow[p] \in ProxyRow
      BY <2>1, ProxyTypes, RowsInvParts
    <3> QED BY <3>1, <3>2 DEF ProxyRow
  <2>3. ASSUME NEW a \in AccountIds
        PROVE  /\ accountRow'[a].state = accountRow[a].state /\ accountRow'[a].parent = accountRow[a].parent
               /\ accountRow'[a].kind = accountRow[a].kind
               /\ accountRow'[a].proxy = IF accountRow[a].proxy = p THEN 0 ELSE accountRow[a].proxy
    <3>1. accountRow[a] \in AccountRow
      BY AccountTypes, RowsInvParts
    <3>2. accountRow'[a] = IF accountRow[a].proxy = p THEN [accountRow[a] EXCEPT !.proxy = 0] ELSE accountRow[a]
      BY <1>2 DEF DeleteProxyRow
    <3> QED BY <3>1, <3>2 DEF AccountRow
  <2>4. \A q : q = p => ~Refers(q)'
    BY <2>1, <2>2 DEF Refers, ProxyThere
  <2> HIDE DEF p
  <2> QED BY <2>3, <2>4 DEF Calm, AccountThere
<1> QED BY <1>1, <1>2

LEMMA ProxyStepShadows ==
  ASSUME RowsInv, ShadowsInv, NEW x \in Operators, ProxyStep(x)
  PROVE  ShadowsInv'
<1>1. Stands(x) /\ TakesNone(x) /\ ShadowKnows(x)'
  BY ProxyStepStands, ProxyStepTakesNone, AwayKnows
<1>2. Calm
  <2>1. CASE DeleteProxyRow(x)
    BY <2>1, DeleteProxyRowCalm
  <2>2. CASE DeleteProfile(x) BY <2>2, DeleteProfileRows DEF Calm, AccountThere
  <2>3. CASE ~DeleteProxyRow(x) /\ ~DeleteProfile(x)
    <3>1. UNCHANGED accountRow
      BY ZenonT(60), <2>3 DEF ProxyStep, UpdateProxyWrites, CreateProxyWrites, ClearClients, ImportProxy, ImportCheck,
         ImportFallback, UpdateProfile, RequestDropped, DeleteProxyCounts, CreateProxyChecks,
         UpdateProxyChecks, ImportReads
    <3> QED BY SMTT(30), <3>1, QuietIsCalm
  <2> QED BY <2>1, <2>2, <2>3
<1>3. clashed \subseteq clashed' /\ (operator[x].pc = "shadows" => operator[x].account \in clashed')
  <2>1. CASE RequestDropped(x)
    BY <2>1 DEF RequestDropped, Halfway
  <2>2. CASE ~RequestDropped(x)
    BY ZenonT(60), <2>2 DEF ProxyStep, UpdateProxyWrites, CreateProxyWrites, ClearClients, ImportProxy, ImportCheck,
       ImportFallback, UpdateProfile, DeleteProfile, EditsProfile, DeleteProxyRow, DeleteProxyCounts,
       CreateProxyChecks, UpdateProxyChecks, ImportReads, Asked, UnchangedHistory
  <2> QED BY <2>1, <2>2
<1> QED BY <1>1, <1>2, <1>3, CalmStands DEF TakesNone

\* A request begins with the account it names.
LEMMA BeginsShadows ==
  ASSUME RowsInv, ShadowsInv, NEW x \in Operators, Stands(x), UNCHANGED accountRow, operator[x].pc = "idle",
         clashed' = clashed \cup Clash(x, operator'[x].account), ShadowKnows(x)'
  PROVE  ShadowsInv'
BY CalmStands, QuietIsCalm DEF Working

LEMMA CreateShadowShadows ==
  ASSUME RowsInv, ShadowsInv, NEW x \in Operators, NEW a \in AccountIds, CreateShadow(x, a)
  PROVE  ShadowsInv'
BY ZenonT(60), CreateShadowRows, BeginsShadows DEF ShadowKnows, KnowsAccount, CreateShadow, Asked

LEMMA UpdateAccountReadsShadows ==
  ASSUME RowsInv, ShadowsInv, NEW x \in Operators, NEW a \in AccountIds, NEW changed \in BOOLEAN,
         NEW p \in {0} \cup ProxyIds, UpdateAccountReads(x, a, changed, p)
  PROVE  ShadowsInv'
<1>1. /\ Stands(x) /\ UNCHANGED <<proxyRow, accountRow>> /\ clashed' = clashed \cup Clash(x, a)
      /\ operator'[x].account = a /\ operator'[x].pc = "updateAccount"
      /\ operator'[x].proxy = p /\ operator'[x].changed = changed /\ (changed \/ p = accountRow[a].proxy) /\ a # 0
  BY UpdateAccountReadsRows, RouteAssumption
<1>2. ShadowKnows(x)'
  BY <1>1 DEF ShadowKnows, KnowsAccount
<1> QED BY <1>1, <1>2, BeginsShadows DEF UpdateAccountReads, Asked

LEMMA SyncFindsShadows ==
  ASSUME RowsInv, ShadowsInv, NEW x \in Operators, NEW id \in CrsIds, NEW kind \in {"oauth", "key"},
         NEW proxies \in BOOLEAN, NEW url \in {Nobody} \cup ProxyUrls, SyncFinds(x, id, kind, proxies, url)
  PROVE  ShadowsInv'
BY SyncFindsRows, BeginsShadows DEF ShadowsOf, AccountThere, ShadowKnows, KnowsAccount, SyncFinds, Asked

LEMMA NamelessShadows ==
  ASSUME RowsInv, ShadowsInv, NEW x \in Operators,
         \/ \E kind \in {"oauth", "key"}, p \in {0} \cup ProxyIds, profile \in BOOLEAN : CreateAccount(x, kind, p, profile)
         \/ \E a \in AccountIds : DuplicateAccount(x, a)
         \/ \E a \in AccountIds, p \in {0} \cup ProxyIds : BulkUpdateChecks(x, a, p)
  PROVE  ShadowsInv'
<1>1. /\ Stands(x) /\ UNCHANGED <<proxyRow, accountRow>> /\ clashed' = clashed \cup Clash(x, 0)
      /\ operator'[x].account = 0 /\ operator'[x].pc \in {"insertAccount", "bulkUpdate"} /\ operator[x].pc = "idle"
  BY ZenonT(60), CreateAccountRows, DuplicateAccountRows, BulkUpdateChecksRows
     DEF CreateAccount, DuplicateAccount, BulkUpdateChecks, Asked
<1>2. ShadowKnows(x)'
  BY <1>1 DEF ShadowKnows
<1> QED BY SMTT(30), <1>1, <1>2, BeginsShadows

LEMMA SyncProxyShadows ==
  ASSUME RowsInv, ShadowsInv, NEW x \in Operators, SyncProxy(x)
  PROVE  ShadowsInv'
<1>1. /\ Stands(x) /\ UNCHANGED accountRow /\ clashed' = clashed
      /\ operator'[x].account = operator[x].account /\ operator'[x].kind = operator[x].kind
      /\ operator'[x].changed = operator[x].changed /\ operator[x].pc = "syncProxy"
      /\ \/ operator'[x].pc = "clear"
         \/ operator[x].account = 0 /\ operator'[x].pc = "insertAccount"
         \/ /\ operator[x].account # 0 /\ operator'[x].pc = "syncAccount"
            /\ operator[x].changed \/ operator'[x].proxy = accountRow[operator[x].account].proxy
  BY SyncProxyRows DEF SyncProxy, UnchangedHistory
<1>2. PICK a \in {0} \cup AccountIds : a = operator[x].account
  BY JobTypes DEF RowsInv
<1>3. ShadowsOf(a)' = ShadowsOf(a) /\ (AccountThere(a)' = AccountThere(a))
  BY <1>1 DEF ShadowsOf, AccountThere
<1>4. ShadowKnows(x)'
  BY <1>1, <1>2, <1>3 DEF ShadowKnows, KnowsAccount, ShadowsInv
<1>5. TakesNone(x)
  BY <1>1, LandsTakesNone
<1> QED BY <1>1, <1>4, <1>5, CalmStands, QuietIsCalm DEF TakesNone

LEMMA WriteStands ==
  ASSUME RowsInv, ShadowsInv, NEW x \in Operators, Stands(x), clashed \subseteq clashed', ShadowKnows(x)',
         TakesNone(x),
         \A y \in Operators \ {x}, a \in AccountIds : Working(y, a) /\ a \notin clashed' => AccountKept(a),
         \A s, a \in AccountIds :
           a = accountRow'[s].parent /\ a # 0 /\ AccountThere(s)' /\ a \notin clashed' => Follows(s, a)'
  PROVE  ShadowsInv'
BY OneEachKept, OtherKnowsShadows, EachFollows DEF Stands, ShadowsInv, TakesNone, OthersKept

LEMMA WorkedAlone ==
  ASSUME ShadowsInv, clashed \subseteq clashed', NEW x \in Operators, NEW y \in Operators \ {x}, NEW a \in AccountIds,
         Working(y, a), a \notin clashed'
  PROVE  ~Working(x, a)
  BY DEF ShadowsInv, OneEach

LEMMA OthersWrite ==
  ASSUME NEW x \in Operators, OthersKept(x), NEW a, WritingShadows(a),
         operator[x].pc # "shadows" \/ operator[x].account # a
  PROVE  WritingShadows(a)'
  BY DEF WritingShadows, OthersKept, Alike

\* What a request that works on an account knows of it.
LEMMA WorkersAccount ==
  ASSUME RowsInv, NEW y \in Operators, NEW a \in AccountIds, Working(y, a)
  PROVE  accountRow[a].state # "unused" /\ accountRow[a].parent = 0 /\ a # 0
  BY DEF RowsInv, JobKnows, WorkKnows, Working

\* A new account has no shadow, and the proxy its parent has.
LEMMA AccountMadeShadows ==
  ASSUME RowsInv, ShadowsInv, NEW x \in Operators, Stands(x), clashed' = clashed, ShadowKnows(x)', TakesNone(x),
         operator[x].pc # "shadows", UNCHANGED proxyRow,
         NEW b \in AccountIds, accountRow[b].state = "unused", NEW row, accountRow' = [accountRow EXCEPT ![b] = row],
         row.parent # 0 => /\ Working(x, row.parent) /\ AccountThere(row.parent)
                           /\ row.parent \notin clashed =>
                                row.proxy = accountRow[row.parent].proxy /\ accountRow[row.parent].kind = "oauth"
  PROVE  ShadowsInv'
<1>1. accountRow'[b] = row /\ \A a \in AccountIds \ {b} : accountRow'[a] = accountRow[a]
  BY RowsInvParts DEF AccountsSound
<1>2. ASSUME NEW y \in Operators \ {x}, NEW a \in AccountIds, Working(y, a), a \notin clashed'
      PROVE  AccountKept(a)
  <2>1. a # b /\ ~Working(x, a) /\ a # 0
    BY <1>2, WorkersAccount, WorkedAlone
  <2>2. ShadowsOf(a)' \subseteq ShadowsOf(a) BY <1>1, <2>1 DEF ShadowsOf, AccountThere
  <2> QED BY <1>1, <2>1, <2>2 DEF AccountKept, AccountThere
<1>3. ASSUME NEW s \in AccountIds, NEW a \in AccountIds, a = accountRow'[s].parent, a # 0, AccountThere(s)', a \notin clashed'
      PROVE  Follows(s, a)'
  <2>1. CASE s = b BY <1>1, <1>3, <2>1 DEF AccountThere, Follows
  <2>2. CASE s # b
    <3>1. accountRow'[s] = accountRow[s] /\ AccountThere(s) /\ a = accountRow[s].parent
      BY <1>1, <1>3, <2>2 DEF AccountThere
    <3>2. AccountThere(a)
      BY <1>3, <3>1, RowsInvParts DEF AccountsSound
    <3>3. accountRow'[a] = accountRow[a]
      BY <1>1, <3>2 DEF AccountThere
    <3>4. Follows(s, a)
      BY <1>3, <3>1, EachFollowed DEF ShadowsInv
    <3> QED BY <3>1, <3>3, <3>4, OthersWrite DEF Follows, Stands
  <2> QED BY <2>1, <2>2
<1> QED BY <1>2, <1>3, WriteStands

LEMMA InsertAccountShadows ==
  ASSUME RowsInv, ShadowsInv, NEW x \in Operators, InsertAccount(x)
  PROVE  ShadowsInv'
<1>1. /\ Stands(x) /\ UNCHANGED proxyRow /\ operator'[x].account = 0 /\ operator'[x].pc \in {"idle", "clear"}
      /\ operator[x].pc = "insertAccount" /\ clashed' = clashed
  BY InsertAccountRows DEF InsertAccount, UnchangedHistory
<1>2. ShadowKnows(x)' /\ TakesNone(x)
  BY <1>1, AwayKnows, LandsTakesNone DEF AwayFromAccounts
<1>3. CASE UNCHANGED accountRow
  BY <1>1, <1>2, <1>3, CalmStands, QuietIsCalm DEF TakesNone
<1>4. CASE ~UNCHANGED accountRow
  <2>1. PICK b \in AccountIds :
          /\ accountRow[b].state = "unused" /\ accountRow' = [accountRow EXCEPT ![b] = NewAccount(operator[x])]
          /\ Insertable(operator[x])
    BY <1>4, InsertAccountRows
  <2> DEFINE row == NewAccount(operator[x])
  <2>2. row.parent = operator[x].account /\ row.proxy = operator[x].proxy
    BY DEF NewAccount
  <2>3. row.parent # 0 => Working(x, row.parent) /\ AccountThere(row.parent)
    BY <1>1, <2>1, <2>2 DEF Working, Insertable
  <2>4. row.parent # 0 /\ row.parent \notin clashed =>
          row.proxy = accountRow[row.parent].proxy /\ accountRow[row.parent].kind = "oauth"
    BY <1>1, <2>1, <2>2, <2>3 DEF ShadowsInv, ShadowKnows, KnowsAccount, Insertable
  <2> HIDE DEF row
  <2> QED BY <1>1, <1>2, <2>1, <2>3, <2>4, AccountMadeShadows DEF row
<1> QED BY <1>3, <1>4

LEMMA ImportAccountShadows ==
  ASSUME RowsInv, ShadowsInv, NEW x \in Operators, ImportAccount(x)
  PROVE  ShadowsInv'
<1>1. /\ Stands(x) /\ UNCHANGED proxyRow /\ operator'[x] = NoWork
      /\ operator[x].pc = "importAccount" /\ clashed' = clashed
  BY ImportAccountRows DEF ImportAccount, UnchangedHistory
<1>2. ShadowKnows(x)' /\ TakesNone(x)
  BY <1>1, AwayKnows, LandsTakesNone DEF AwayFromAccounts, NoWork
<1>3. CASE UNCHANGED accountRow
  BY <1>1, <1>2, <1>3, CalmStands, QuietIsCalm DEF TakesNone
<1>4. CASE ~UNCHANGED accountRow
  <2>1. PICK b \in AccountIds, p \in {0} \cup ProxyIds :
          /\ accountRow[b].state = "unused"
          /\ accountRow' = [accountRow EXCEPT ![b] = NewAccount([NoWork EXCEPT !.proxy = p])]
    BY <1>4, ImportAccountRows
  <2> DEFINE row == NewAccount([NoWork EXCEPT !.proxy = p])
  <2>2. row.parent = 0
    BY DEF NewAccount, NoWork
  <2> HIDE DEF row
  <2> QED BY <1>1, <1>2, <2>1, <2>2, AccountMadeShadows DEF row
<1> QED BY <1>3, <1>4

\* An account's row is written: its shadows' are next, or nothing has changed
\* for them.
LEMMA AccountWrittenShadows ==
  ASSUME RowsInv, ShadowsInv, NEW x \in Operators, Stands(x), clashed' = clashed, ShadowKnows(x)', TakesNone(x),
         operator[x].pc # "shadows", UNCHANGED proxyRow,
         NEW b \in AccountIds, Working(x, b), AccountThere(b), \A a \in AccountIds \ {b} : accountRow'[a] = accountRow[a],
         accountRow'[b].parent = accountRow[b].parent,
         b \notin clashed => /\ accountRow'[b].kind = "oauth" \/ ShadowsOf(b) = {}
                             /\ \/ WritingShadows(b)' \/ accountRow'[b].proxy = accountRow[b].proxy
                                \/ ShadowsOf(b) = {}
  PROVE  ShadowsInv'
<1>1. accountRow[b].parent = 0
  BY WorkersAccount
<1>2. ASSUME NEW y \in Operators \ {x}, NEW a \in AccountIds, Working(y, a), a \notin clashed'
      PROVE  AccountKept(a)
  <2>1. a # b /\ a # 0
    BY <1>2, WorkersAccount, WorkedAlone
  <2>2. ShadowsOf(a)' \subseteq ShadowsOf(a) BY <1>1, <2>1 DEF ShadowsOf, AccountThere
  <2> QED BY <2>1, <2>2 DEF AccountKept, AccountThere
<1>3. ASSUME NEW s \in AccountIds, NEW a \in AccountIds, a = accountRow'[s].parent, a # 0, AccountThere(s)', a \notin clashed'
      PROVE  Follows(s, a)'
  <2>1. s # b
    BY <1>1, <1>3
  <2>2. accountRow'[s] = accountRow[s] /\ AccountThere(s) /\ a = accountRow[s].parent
    BY <1>3, <2>1 DEF AccountThere
  <2>3. Follows(s, a)
    BY <1>3, <2>2, EachFollowed DEF ShadowsInv
  <2>4. WritingShadows(a) => WritingShadows(a)'
    BY OthersWrite DEF Stands
  <2>5. CASE a = b BY <2>2, <2>5, <1>3, <2>3, <2>4 DEF ShadowsOf, Follows
  <2>6. CASE a # b
    BY <2>2, <2>3, <2>4, <2>6 DEF Follows
  <2> QED BY <2>5, <2>6
<1> QED BY <1>2, <1>3, WriteStands

LEMMA UpdateAccountWritesShadows ==
  ASSUME RowsInv, ShadowsInv, NEW x \in Operators, UpdateAccountWrites(x)
  PROVE  ShadowsInv'
<1>1. /\ Stands(x) /\ UNCHANGED proxyRow /\ operator[x].pc = "updateAccount" /\ clashed' = clashed
      /\ operator'[x].account \in {0, operator[x].account}
      /\ operator'[x].pc \in {"idle", "clear", "shadows"}
      /\ operator'[x].pc = "shadows" => operator'[x].account = operator[x].account
                                        /\ operator'[x].proxy = operator[x].proxy
  BY UpdateAccountWritesRows DEF UpdateAccountWrites, UnchangedHistory
<1>2. TakesNone(x)
  BY <1>1, LandsTakesNone
<1>3. PICK b \in AccountIds, p \in {0} \cup ProxyIds : b = operator[x].account /\ p = operator[x].proxy /\ Working(x, b)
  BY <1>1, JobTypes DEF ShadowsInv, ShadowKnows, RowsInv, Working
<1>4. CASE UNCHANGED accountRow /\ (operator'[x].pc = "shadows" => ~AccountThere(b))
  <2>1. operator'[x].pc = "shadows" => ~AccountThere(b)'
    BY <1>4 DEF AccountThere
  <2>2. ShadowKnows(x)'
    BY <1>1, <1>3, <2>1 DEF ShadowKnows, KnowsAccount, Working
  <2> QED BY <1>1, <1>2, <1>4, <2>2, CalmStands, QuietIsCalm DEF TakesNone
<1>5. CASE /\ AccountThere(b) /\ Refers(p) /\ (operator'[x].pc = "shadows" <=> operator[x].changed)
           /\ accountRow' = [accountRow EXCEPT ![b].proxy = p, ![b].profile = operator[x].profile]
  <2>2. /\ accountRow'[b] = [accountRow[b] EXCEPT !.proxy = p, !.profile = operator[x].profile]
        /\ \A a \in AccountIds \ {b} : accountRow'[a] = accountRow[a]
    BY <1>5, RowsInvParts DEF AccountsSound
  <2>3. /\ accountRow'[b].proxy = p /\ accountRow'[b].kind = accountRow[b].kind
        /\ accountRow'[b].parent = accountRow[b].parent
    BY <2>2, AccountTypes, RowsInvParts DEF AccountRow
  <2>4. ShadowKnows(x)'
    BY <1>1, <1>3, <2>3 DEF ShadowKnows, KnowsAccount, Working
  <2>5. ASSUME b \notin clashed
        PROVE  /\ accountRow'[b].kind = "oauth" \/ ShadowsOf(b) = {}
               /\ WritingShadows(b)' \/ accountRow'[b].proxy = accountRow[b].proxy
    <3>1. accountRow[b].kind = "oauth" \/ ShadowsOf(b) = {}
      BY <1>3, <2>5 DEF ShadowsOf, ShadowsInv, ShadowFollowsParent, Working
    <3>2. operator[x].changed => WritingShadows(b)'
      BY <1>1, <1>3, <1>5 DEF WritingShadows
    <3>3. ~operator[x].changed => p = accountRow[b].proxy
      BY <1>1, <1>3, <1>5, <2>5 DEF ShadowsInv, ShadowKnows, KnowsAccount, Working
    <3> QED BY <2>3, <3>1, <3>2, <3>3
  <2> QED BY <1>1, <1>2, <1>3, <1>5, <2>2, <2>3, <2>4, <2>5, AccountWrittenShadows
<1> QED BY <1>3, <1>4, <1>5, UpdateAccountWritesRows

LEMMA SyncAccountShadows ==
  ASSUME RowsInv, ShadowsInv, NEW x \in Operators, SyncAccount(x)
  PROVE  ShadowsInv'
<1>1. /\ Stands(x) /\ UNCHANGED proxyRow /\ operator[x].pc = "syncAccount" /\ clashed' = clashed
      /\ operator'[x].account = operator[x].account /\ operator'[x].proxy = operator[x].proxy
      /\ operator'[x].pc \in {"clear", "shadows"}
  BY SyncAccountRows DEF SyncAccount, UnchangedHistory
<1>2. TakesNone(x)
  BY <1>1, LandsTakesNone
<1>3. PICK b \in AccountIds, p \in {0} \cup ProxyIds : b = operator[x].account /\ p = operator[x].proxy /\ Working(x, b)
  BY <1>1, JobTypes DEF ShadowsInv, ShadowKnows, RowsInv, Working
<1>4. CASE UNCHANGED accountRow /\ (operator'[x].pc = "shadows" => ~AccountThere(b))
  <2>1. operator'[x].pc = "shadows" => ~AccountThere(b)'
    BY <1>4 DEF AccountThere
  <2>2. ShadowKnows(x)'
    BY SMTT(30), <1>1, <1>3, <2>1 DEF ShadowKnows, KnowsAccount, Working
  <2> QED BY <1>1, <1>2, <1>4, <2>2, CalmStands, QuietIsCalm DEF TakesNone
<1>5. CASE /\ AccountThere(b) /\ Refers(p) /\ accountRow' = [accountRow EXCEPT ![b].proxy = p, ![b].kind = operator[x].kind]
           /\ operator'[x].pc = IF operator[x].kind = "oauth" /\ operator[x].changed THEN "shadows" ELSE "clear"
  <2>2. /\ accountRow'[b] = [accountRow[b] EXCEPT !.proxy = p, !.kind = operator[x].kind]
        /\ \A a \in AccountIds \ {b} : accountRow'[a] = accountRow[a]
    BY <1>5, RowsInvParts DEF AccountsSound, AccountRow
  <2>3. /\ accountRow'[b].proxy = p /\ accountRow'[b].kind = operator[x].kind
        /\ accountRow'[b].parent = accountRow[b].parent
    BY <2>2, AccountTypes, RowsInvParts DEF AccountRow
  <2>4. ShadowKnows(x)'
    BY <1>1, <1>3, <2>3 DEF ShadowKnows, KnowsAccount, Working
  <2>5. ASSUME b \notin clashed
        PROVE  /\ accountRow'[b].kind = "oauth" \/ ShadowsOf(b) = {}
               /\ \/ WritingShadows(b)' \/ accountRow'[b].proxy = accountRow[b].proxy
                  \/ ShadowsOf(b) = {}
    BY <1>3, <1>5, <2>5, <1>1, <2>3 DEF ShadowsInv, ShadowKnows, Working, KnowsAccount, WritingShadows
  <2> QED BY <1>1, <1>2, <1>3, <1>5, <2>2, <2>3, <2>4, <2>5, AccountWrittenShadows
<1> QED BY <1>3, <1>4, <1>5, SyncAccountRows

\* The shadows of an account that nobody else works on get its proxy.
LEMMA ShadowsWriteShadows ==
  ASSUME RowsInv, ShadowsInv, NEW x \in Operators, ShadowsWrite(x)
  PROVE  ShadowsInv'
<1>1. /\ Stands(x) /\ UNCHANGED proxyRow /\ operator[x].pc = "shadows"
      /\ operator'[x].account = 0 /\ operator'[x].pc \in {"idle", "clear"}
  BY ShadowsWriteRows
<1>2. TakesNone(x) /\ ShadowKnows(x)'
  BY <1>1, LandsTakesNone, AwayKnows DEF AwayFromAccounts
<1>3. PICK b \in AccountIds, p \in {0} \cup ProxyIds : b = operator[x].account /\ p = operator[x].proxy /\ Working(x, b)
  BY <1>1, JobTypes DEF ShadowsInv, ShadowKnows, RowsInv, Working
<1>4. CASE UNCHANGED accountRow /\ clashed' = clashed \cup {b}
  BY <1>1, <1>2, <1>3, <1>4, CalmStands, QuietIsCalm DEF TakesNone
<1>5. CASE UNCHANGED clashed /\ accountRow' = WithShadows(b, p) /\ (ShadowsOf(b) = {} \/ Refers(p))
  <2>1. accountRow[b].parent = 0 /\ b # 0
    BY <1>3, WorkersAccount
  <2>2. ASSUME NEW s \in AccountIds
        PROVE  /\ accountRow'[s].state = accountRow[s].state /\ accountRow'[s].parent = accountRow[s].parent
               /\ accountRow'[s].kind = accountRow[s].kind
               /\ accountRow'[s].proxy = IF s \in ShadowsOf(b) THEN p ELSE accountRow[s].proxy
    BY RowsInvParts, <1>5, WithShadowsRows, <2>2 DEF ShadowsMoved
  <2>3. ASSUME NEW a \in AccountIds, accountRow[a].parent = 0
        PROVE  accountRow'[a].proxy = accountRow[a].proxy /\ AccountKept(a)
    BY <2>1, <2>2, <2>3 DEF ShadowsOf, AccountThere, AccountKept
  <2>4. ASSUME NEW y \in Operators \ {x}, NEW a \in AccountIds, Working(y, a), a \notin clashed'
        PROVE  AccountKept(a)
    BY <2>3, <2>4, WorkersAccount
  <2>5. ASSUME NEW s \in AccountIds, NEW a \in AccountIds, a = accountRow'[s].parent, a # 0, AccountThere(s)', a \notin clashed'
        PROVE  Follows(s, a)'
    <3>1. AccountThere(s) /\ a = accountRow[s].parent /\ a \notin clashed
      BY <1>5, <2>2, <2>5 DEF AccountThere
    <3>2. Follows(s, a)
      BY <2>5, <3>1, EachFollowed DEF ShadowsInv
    <3>3. accountRow[a].parent = 0 /\ AccountThere(a)
      BY <2>5, <3>1, RowsInvParts DEF AccountsSound, ParentsTop
    <3>4. accountRow'[a].proxy = accountRow[a].proxy /\ accountRow'[a].kind = accountRow[a].kind
      BY <2>2, <2>3, <3>3
    <3>5. CASE a = b
      <4>1. s \in ShadowsOf(b)
        BY <3>1, <3>5 DEF ShadowsOf
      <4>2. accountRow[b].proxy = p
        BY <1>1, <1>3, <1>5, <3>1, <3>3, <3>5, <4>1 DEF ShadowsInv, ShadowKnows, KnowsAccount, Working
      <4>3. accountRow'[s].proxy = p
        BY <2>2, <4>1
      <4> QED BY <3>2, <3>4, <3>5, <4>2, <4>3 DEF Follows
    <3>6. CASE a # b
      <4>1. accountRow'[s].proxy = accountRow[s].proxy
        BY <2>2, <3>1, <3>6 DEF ShadowsOf
      <4>2. WritingShadows(a) => WritingShadows(a)'
        BY <1>1, <1>3, <3>6, OthersWrite DEF Stands
      <4> QED BY <3>2, <3>4, <4>1, <4>2 DEF Follows
    <3> QED BY <3>5, <3>6
  <2> QED BY <1>1, <1>2, <1>5, <2>4, <2>5, WriteStands
<1> QED BY <1>3, <1>4, <1>5, ShadowsWriteRows

\* A bulk update writes an account and its shadows at once.
LEMMA BulkUpdateWritesShadows ==
  ASSUME RowsInv, ShadowsInv, NEW x \in Operators, BulkUpdateWrites(x)
  PROVE  ShadowsInv'
<1>1. /\ Stands(x) /\ UNCHANGED proxyRow /\ operator[x].pc = "bulkUpdate"
      /\ operator'[x].account = 0 /\ operator'[x].pc \in {"idle", "clear"}
  BY BulkUpdateWritesRows DEF BulkUpdateWrites
<1>2. TakesNone(x) /\ ShadowKnows(x)'
  BY <1>1, LandsTakesNone, AwayKnows DEF AwayFromAccounts
<1>3. PICK b \in AccountIds, p \in {0} \cup ProxyIds : b = operator[x].item /\ p = operator[x].proxy
  BY BulkUpdateWritesRows
<1>4. CASE UNCHANGED <<accountRow, clashed>>
  BY <1>1, <1>2, <1>4, CalmStands, QuietIsCalm DEF TakesNone
<1>5. CASE /\ AccountThere(b) /\ accountRow[b].parent = 0 /\ clashed' = clashed \cup Clash(x, b)
           /\ accountRow' = [WithShadows(b, p) EXCEPT ![b].proxy = p]
  <2>1. b # 0
    BY RouteAssumption
  <2>2. ASSUME NEW s \in AccountIds
        PROVE  /\ accountRow'[s].state = accountRow[s].state /\ accountRow'[s].parent = accountRow[s].parent
               /\ accountRow'[s].kind = accountRow[s].kind
               /\ accountRow'[s].proxy = IF s = b \/ s \in ShadowsOf(b) THEN p ELSE accountRow[s].proxy
    <3>1. /\ WithShadows(b, p) \in [AccountIds -> AccountRow]
          /\ WithShadows(b, p)[s].state = accountRow[s].state /\ WithShadows(b, p)[s].parent = accountRow[s].parent
          /\ WithShadows(b, p)[s].kind = accountRow[s].kind
          /\ WithShadows(b, p)[s].proxy = IF s \in ShadowsOf(b) THEN p ELSE accountRow[s].proxy
      BY RowsInvParts, WithShadowsRows, <2>2 DEF ShadowsMoved
    <3>2. CASE s = b BY <1>5, <3>1, <3>2 DEF AccountRow
    <3>3. CASE s # b
      BY <1>5, <3>1, <3>3
    <3> QED BY <3>2, <3>3
  <2>3. ASSUME NEW a \in AccountIds, accountRow[a].parent = 0, a # b
        PROVE  accountRow'[a].proxy = accountRow[a].proxy /\ AccountKept(a)
    BY <2>1, <2>2, <2>3 DEF ShadowsOf, AccountThere, AccountKept
  <2>4. ASSUME NEW y \in Operators \ {x}, NEW a \in AccountIds, Working(y, a), a \notin clashed'
        PROVE  AccountKept(a)
    BY <1>5, <2>4, <2>3, WorkersAccount DEF Clash, Working
  <2>5. ASSUME NEW s \in AccountIds, NEW a \in AccountIds, a = accountRow'[s].parent, a # 0, AccountThere(s)', a \notin clashed'
        PROVE  Follows(s, a)'
    <3>1. AccountThere(s) /\ a = accountRow[s].parent /\ a \notin clashed
      BY <1>5, <2>2, <2>5 DEF AccountThere
    <3>2. Follows(s, a)
      BY <2>5, <3>1, EachFollowed DEF ShadowsInv
    <3>3. accountRow[a].parent = 0 /\ AccountThere(a) /\ s # b
      BY <1>5, <2>5, <3>1, RowsInvParts DEF AccountsSound, ParentsTop
    <3>4. CASE a = b BY <3>1, <3>4, <2>2, <3>2 DEF ShadowsOf, Follows
    <3>5. CASE a # b
      <4>1. accountRow'[s].proxy = accountRow[s].proxy /\ accountRow'[a].proxy = accountRow[a].proxy
        BY <2>2, <2>3, <3>1, <3>3, <3>5 DEF ShadowsOf
      <4>2. WritingShadows(a) => WritingShadows(a)'
        BY <1>1, OthersWrite DEF Stands
      <4> QED BY <2>2, <3>2, <4>1, <4>2 DEF Follows
    <3> QED BY <3>4, <3>5
  <2> QED BY <1>1, <1>2, <1>5, <2>4, <2>5, WriteStands
<1> QED BY <1>3, <1>4, <1>5, BulkUpdateWritesRows

LEMMA ShadowsIdle ==
  ASSUME RowsInv, RowsInv', ShadowsInv, UNCHANGED <<operator, clashed>>, ProxiesGrow, Calm
  PROVE  ShadowsInv'
BY CalmKeeps, OtherKnowsShadows, CalmFollows DEF ShadowsInv, OneEach, Working, Alike, WritingShadows

LEMMA DeleteAccountShadows ==
  ASSUME RowsInv, ShadowsInv, NEW x \in Operators, NEW a \in AccountIds, DeleteAccount(x, a)
  PROVE  ShadowsInv'
BY DeleteAccountRows, ShadowsIdle DEF DeleteAccount, UnchangedHistory, Calm

LEMMA AccountStepShadows ==
  ASSUME RowsInv, ShadowsInv, NEW x \in Operators, AccountStep(x)
  PROVE  ShadowsInv'
<1>1. CASE InsertAccount(x) \/ ImportAccount(x) \/ UpdateAccountWrites(x)
  BY <1>1, InsertAccountShadows, ImportAccountShadows, UpdateAccountWritesShadows
<1>2. CASE ShadowsWrite(x) \/ BulkUpdateWrites(x) \/ SyncProxy(x) \/ SyncAccount(x)
  BY <1>2, ShadowsWriteShadows, BulkUpdateWritesShadows, SyncProxyShadows, SyncAccountShadows
<1>3. CASE \E p \in {0} \cup ProxyIds, kind \in {"oauth", "key"}, profile \in BOOLEAN : CreateAccount(x, kind, p, profile)
  BY <1>3, NamelessShadows
<1>4. CASE \E p \in {0} \cup ProxyIds, a \in AccountIds, changed \in BOOLEAN : UpdateAccountReads(x, a, changed, p)
  BY <1>4, UpdateAccountReadsShadows
<1>5. CASE \E p \in {0} \cup ProxyIds, a \in AccountIds : BulkUpdateChecks(x, a, p)
  BY <1>5, NamelessShadows
<1>6. CASE \E a \in AccountIds : DuplicateAccount(x, a) \/ CreateShadow(x, a) \/ DeleteAccount(x, a)
  BY <1>6, NamelessShadows, CreateShadowShadows, DeleteAccountShadows
<1>7. CASE \E id \in CrsIds, kind \in {"oauth", "key"}, proxies \in BOOLEAN, url \in {Nobody} \cup ProxyUrls :
             SyncFinds(x, id, kind, proxies, url)
  BY <1>7, SyncFindsShadows
<1> QED BY <1>1, <1>2, <1>3, <1>4, <1>5, <1>6, <1>7 DEF AccountStep

LEMMA ShadowsStep ==
  ASSUME RowsInv, ShadowsInv, [RouteNext]_routeVars
  PROVE  ShadowsInv'
<1>0. RowsInv'
  BY RowsStep
<1>1. CASE \E x \in Operators : ProxyStep(x)
  BY <1>1, ProxyStepShadows
<1>2. CASE \E x \in Operators : AccountStep(x)
  BY <1>2, AccountStepShadows
<1>3. CASE LookupStep \/ UNCHANGED routeVars
  <2>1. UNCHANGED <<proxyRow, accountRow, operator, clashed>>
    BY <1>3, LookupStepKeeps DEF routeVars
  <2> QED BY <1>0, <2>1, ShadowsIdle, QuietIsCalm, ProxiesStaySound, RowsInvParts
<1>4. CASE \E p \in ProxyIds : ProxyExpires(p)
  BY <1>4, ProxyExpiresRows, <1>0, ShadowsIdle, QuietIsCalm DEF ProxyExpires, UnchangedHistory, ProxiesGrow
<1>5. CASE RestartRoutes
  <2>1. UNCHANGED <<proxyRow, accountRow>> /\ \A y \in Operators : operator'[y] = NoWork
    BY <1>5, RestartRows DEF RestartRoutes
  <2>2. /\ clashed \subseteq clashed'
        /\ \A y \in Operators : operator[y].pc = "shadows" => operator[y].account \in clashed'
    BY <1>5 DEF RestartRoutes, Halfway
  <2>3. OneEach' /\ \A y \in Operators : ShadowKnows(y)'
    BY <2>1 DEF NoWork, OneEach, Working, ShadowKnows, KnowsAccount
  <2>4. \A a \in AccountIds : WritingShadows(a) /\ a \notin clashed' => WritingShadows(a)'
    BY <2>2 DEF WritingShadows
  <2>5. ShadowFollowsParent'
    BY <1>0, <2>1, <2>2, <2>4, CalmFollows, QuietIsCalm DEF ShadowsInv
  <2> QED BY <2>3, <2>5 DEF ShadowsInv
<1> QED BY <1>1, <1>2, <1>3, <1>4, <1>5, Moves DEF RouteMove

LEMMA InitShadows ==
  ASSUME RouteInit
  PROVE  ShadowsInv
<1>1. SoundStart(proxyRow, accountRow) /\ \A x \in Operators : operator[x] = NoWork
  BY StartAssumption DEF RouteInit
<1>2. OneEach /\ \A x \in Operators : ShadowKnows(x)
  BY <1>1 DEF NoWork, OneEach, Working, ShadowKnows, KnowsAccount
<1>3. ShadowFollowsParent
  BY <1>1 DEF SoundStart, ShadowFollowsParent, AccountThere
<1> QED BY <1>2, <1>3 DEF ShadowsInv

-----------------------------------------------------------------------------
(*                                Clients                                  *)

Editing == \E x \in Operators : operator[x].edits

\* A step that leaves clients, profile and calls alone.
LEMMA ClientsKept ==
  ASSUME ClientsInv, UNCHANGED <<tlsProfile, tlsClients, lookup>>, uncleared => uncleared',
         Editing => Editing' \/ uncleared'
  PROVE  ClientsInv'
BY DEF ClientsInv, ClientsFresh, Editing, ClientsTyped, ClientsBounded, LookupKnows

\* Only a request that is about to clear the clients has edited the profile.
LEMMA OthersEdit ==
  ASSUME RowsInv, NEW x \in Operators, OthersKept(x), operator[x].pc # "clear"
  PROVE  Editing => Editing'
<1>1. ~operator[x].edits
  BY DEF RowsInv, JobKnows, WorkKnows, Fits
<1> QED BY <1>1 DEF Editing, OthersKept, Alike

LEMMA EditsProfileClients ==
  ASSUME RowsInv, ClientsInv, NEW x \in Operators, NEW there \in BOOLEAN, EditsProfile(x, there)
  PROVE  ClientsInv'
<1>1. operator'[x].edits /\ UNCHANGED tlsClients
  BY EditsProfileLands DEF EditsProfile
<1>2. ClientsFresh' /\ ClientsBounded'
  BY <1>1 DEF ClientsInv, ClientsFresh, ClientsBounded
<1>3. tlsProfile' \in [there : BOOLEAN, edition : Nat]
  BY DEF EditsProfile, ClientsInv, ClientsTyped
<1>4. ASSUME NEW c \in Lookups
      PROVE  lookup'[c] \in LookupState /\ LookupKnows(c)'
  <2>1. lookup[c] \in LookupState /\ LookupKnows(c)
    BY DEF ClientsInv, ClientsTyped
  <2>2. CASE lookup[c].pc = "insert" /\ lookup[c].profile BY <2>2, <2>1 DEF EditsProfile, LookupState, LookupKnows
  <2>3. CASE ~(lookup[c].pc = "insert" /\ lookup[c].profile) BY <2>3, <2>1 DEF EditsProfile, LookupKnows
  <2> QED BY <2>2, <2>3
<1>5. lookup' \in [Lookups -> LookupState] BY <1>4 DEF EditsProfile
<1> QED BY <1>1, <1>2, <1>3, <1>4, <1>5 DEF ClientsInv, ClientsTyped

LEMMA ProxyStepClients ==
  ASSUME RowsInv, ClientsInv, NEW x \in Operators, ProxyStep(x)
  PROVE  ClientsInv'
<1>1. OthersKept(x)
  BY ProxyStepStands DEF Stands
<1>2. CASE ClearClients(x)
  BY <1>2, FS_EmptySet, RouteAssumption DEF ClearClients, ClientsInv, ClientsTyped, ClientsFresh, ClientsBounded,
     LookupKnows
<1>3. CASE RequestDropped(x) BY <1>3, <1>1, ClientsKept DEF RequestDropped, UnchangedClients, Editing, OthersKept, Alike
<1>4. CASE UpdateProfile(x) \/ DeleteProfile(x)
  BY <1>4, EditsProfileClients DEF UpdateProfile, DeleteProfile
<1>5. CASE ~ClearClients(x) /\ ~RequestDropped(x) /\ ~UpdateProfile(x) /\ ~DeleteProfile(x)
  <2>1. UNCHANGED <<tlsProfile, tlsClients, lookup, uncleared>> /\ operator[x].pc # "clear"
    BY ZenonT(60), <1>5 DEF ProxyStep, UpdateProxyWrites, CreateProxyWrites, ImportProxy, ImportCheck, ImportFallback,
       DeleteProxyRow, DeleteProxyCounts, CreateProxyChecks, UpdateProxyChecks, ImportReads, Asked,
       UnchangedHistory, UnchangedClients
  <2> QED BY <1>1, <2>1, OthersEdit, ClientsKept
<1> QED BY <1>2, <1>3, <1>4, <1>5

LEMMA AccountStepClients ==
  ASSUME RowsInv, ClientsInv, NEW x \in Operators, AccountStep(x)
  PROVE  ClientsInv'
<1>1. UNCHANGED <<tlsProfile, tlsClients, lookup, uncleared>> /\ operator[x].pc # "clear"
  BY DEF AccountStep, InsertAccount, ImportAccount, UpdateAccountWrites, ShadowsWrite, BulkUpdateWrites,
     SyncProxy, SyncAccount, CreateAccount, UpdateAccountReads, BulkUpdateChecks, DuplicateAccount,
     CreateShadow, DeleteAccount, SyncFinds, WorksOn, Asked, UnchangedHistory, UnchangedClients
<1>2. CASE Stands(x)
  BY <1>1, <1>2, OthersEdit, ClientsKept DEF Stands
<1>3. CASE \E a \in AccountIds : DeleteAccount(x, a)
  BY <1>1, <1>3, ClientsKept DEF DeleteAccount, Editing
<1> QED BY <1>2, <1>3, AccountStepStands

LEMMA RouteTypes ==
  ASSUME RowsInv, NEW p \in {0} \cup ProxyIds
  PROVE  RouteOf(p) \in {"direct", "unavailable"} \cup ProxyUrls
BY ProxyTypes, RowsInvParts DEF RouteOf

\* A step of a call changes its own place.
LEMMA LookupSteps ==
  ASSUME ClientsInv, NEW c \in Lookups, NEW new \in LookupState, lookup' = [lookup EXCEPT ![c] = new],
         new.pc = "read" => new.profile,
         new.pc = "insert" /\ new.profile => tlsProfile.there /\ new.edition = tlsProfile.edition,
         UNCHANGED <<operator, tlsProfile, uncleared>>
  PROVE  /\ lookup' \in [Lookups -> LookupState] /\ \A d \in Lookups : LookupKnows(d)'
         /\ tlsClients' = tlsClients => ClientsInv'
BY DEF ClientsInv, ClientsTyped, LookupKnows, ClientsFresh, ClientsBounded

LEMMA NoLookupTyped == NoLookup \in LookupState /\ NoLookup.pc = "idle"
  BY DEF NoLookup, LookupState

LEMMA CallResolvesClients ==
  ASSUME RowsInv, ClientsInv, NEW c \in Lookups, NEW a \in AccountIds, CallResolves(c, a)
  PROVE  ClientsInv'
<1> DEFINE row == accountRow[Resolved(a)]
           want == [NoLookup EXCEPT !.pc = "find", !.profile = row.profile, !.route = RouteOf(row.proxy)]
<1>1. /\ lookup' = [lookup EXCEPT ![c] = want] /\ UNCHANGED <<operator, tlsProfile, tlsClients, uncleared>>
  BY DEF CallResolves, UnchangedHistory
<1>2. Resolved(a) \in AccountIds
  BY AccountTypes, RowsInvParts DEF Resolved
<1>3. row.profile \in BOOLEAN /\ row.proxy \in {0} \cup ProxyIds
  BY <1>2, AccountTypes, RowsInvParts
<1>4. RouteOf(row.proxy) \in {"direct", "unavailable"} \cup ProxyUrls
  BY <1>3, RouteTypes
<1>5. want \in LookupState /\ want.pc = "find"
  <2> HIDE DEF row
  <2> QED BY <1>3, <1>4 DEF NoLookup, LookupState
<1> HIDE DEF want
<1> QED BY <1>1, <1>5, LookupSteps

LEMMA FindClientClients ==
  ASSUME ClientsInv, NEW c \in Lookups, FindClient(c)
  PROVE  ClientsInv'
BY NoLookupTyped, LookupSteps DEF ClientsInv, ClientsTyped, FindClient, LookupState, UnchangedHistory

LEMMA ReadProfileClients ==
  ASSUME ClientsInv, NEW c \in Lookups, ReadProfile(c)
  PROVE  ClientsInv'
BY NoLookupTyped, LookupSteps DEF ClientsInv, ClientsTyped, ReadProfile, LookupState, UnchangedHistory

\* A client is added where there is none for its profile and route, in a cache
\* that is not full.
LEMMA InsertClientClients ==
  ASSUME ClientsInv, NEW c \in Lookups, InsertClient(c)
  PROVE  ClientsInv'
<1> DEFINE built == [profile |-> lookup[c].profile, route |-> lookup[c].route, edition |-> lookup[c].edition,
                     overtaken |-> lookup[c].overtaken]
<1>1. /\ lookup' = [lookup EXCEPT ![c] = NoLookup] /\ UNCHANGED <<operator, tlsProfile, uncleared>>
      /\ lookup[c].pc = "insert"
      /\ tlsClients' = IF CachedFor(lookup[c]) # {} THEN tlsClients
                       ELSE IF Cardinality(tlsClients) >= ClientLimit THEN {built}
                       ELSE tlsClients \cup {built}
  BY DEF InsertClient, UnchangedHistory
<1>2. /\ lookup' \in [Lookups -> LookupState] /\ \A d \in Lookups : LookupKnows(d)'
      /\ tlsClients' = tlsClients => ClientsInv'
  BY <1>1, NoLookupTyped, LookupSteps
<1>3. /\ lookup[c] \in LookupState /\ tlsClients \subseteq ClientState /\ IsFiniteSet(tlsClients)
      /\ Cardinality(tlsClients) \in Nat /\ ClientLimit \in Nat \ {0}
  BY FS_CardinalityType, RouteAssumption DEF ClientsInv, ClientsTyped
<1>4. built \in ClientState /\ Key(built) = Key(lookup[c])
  BY <1>3 DEF LookupState, ClientState, Key
<1>5. built.profile => built.overtaken \/ (tlsProfile.there /\ built.edition = tlsProfile.edition)
  BY <1>1 DEF ClientsInv, LookupKnows
<1> HIDE DEF built
<1>6. CASE CachedFor(lookup[c]) # {}
  BY <1>1, <1>2, <1>6
<1>7. CASE CachedFor(lookup[c]) = {}
  <2>1. tlsClients' \subseteq tlsClients \cup {built}
    BY <1>1, <1>7
  <2>2. ClientsFresh'
    BY <1>1, <1>5, <2>1 DEF ClientsInv, ClientsFresh
  <2>3. \A k, l \in tlsClients \cup {built} : Key(k) = Key(l) => k = l
    BY <1>4, <1>7 DEF CachedFor, ClientsInv, ClientsBounded
  <2>4. IsFiniteSet(tlsClients') /\ Cardinality(tlsClients') <= ClientLimit
    <3>1. CASE Cardinality(tlsClients) >= ClientLimit
      <4>1. IsFiniteSet({built}) /\ Cardinality({built}) = 1
        BY FS_Singleton
      <4> QED BY <1>1, <1>3, <1>7, <3>1, <4>1
    <3>2. CASE ~(Cardinality(tlsClients) >= ClientLimit)
      <4>1. /\ IsFiniteSet(tlsClients \cup {built})
            /\ Cardinality(tlsClients \cup {built}) \in {Cardinality(tlsClients), Cardinality(tlsClients) + 1}
        BY <1>3, FS_AddElement
      <4> QED BY <1>1, <1>3, <1>7, <3>2, <4>1
    <3> QED BY <3>1, <3>2
  <2>5. ClientsBounded'
    BY <2>1, <2>3, <2>4 DEF ClientsBounded
  <2>6. ClientsTyped'
    BY <1>1, <1>2, <1>3, <1>4, <2>1, <2>4 DEF ClientsTyped, ClientsInv
  <2> QED BY <1>2, <2>2, <2>5, <2>6 DEF ClientsInv
<1> QED BY <1>6, <1>7

LEMMA ClientsStep ==
  ASSUME RowsInv, ClientsInv, [RouteNext]_routeVars
  PROVE  ClientsInv'
<1>1. CASE \E x \in Operators : ProxyStep(x)
  BY <1>1, ProxyStepClients
<1>2. CASE \E x \in Operators : AccountStep(x)
  BY <1>2, AccountStepClients
<1>3. CASE LookupStep
  BY <1>3, CallResolvesClients, FindClientClients, ReadProfileClients, InsertClientClients DEF LookupStep
<1>4. CASE \E p \in ProxyIds : ProxyExpires(p)
  BY <1>4, ClientsKept DEF ProxyExpires, UnchangedClients, UnchangedHistory, Editing
<1>5. CASE RestartRoutes
  BY <1>5, NoLookupTyped, FS_EmptySet, RouteAssumption DEF RestartRoutes, LookupKnows, ClientsInv, ClientsTyped,
     ClientsFresh, ClientsBounded
<1>6. CASE UNCHANGED routeVars
  BY <1>6, ClientsKept DEF routeVars, Editing
<1> QED BY <1>1, <1>2, <1>3, <1>4, <1>5, <1>6, Moves DEF RouteMove

LEMMA InitClients ==
  ASSUME RouteInit
  PROVE  ClientsInv
BY NoLookupTyped, FS_EmptySet, RouteAssumption DEF RouteInit, LookupKnows, ClientsInv, ClientsTyped, ClientsFresh,
   ClientsBounded

-----------------------------------------------------------------------------
(*                               All of it                                 *)

LEMMA RoutesInvSafe == RoutesInv => RoutesSafe
<1> SUFFICES ASSUME RoutesInv
             PROVE  RoutesSafe
  OBVIOUS
<1>1. RowsInv /\ FallbacksInv /\ DeletionsInv /\ ShadowsInv /\ ClientsInv
  BY DEF RoutesInv
<1>2. NoFallbackCycle
  BY <1>1, AcyclicHasNone, CyclesAre DEF FallbacksInv
<1> QED BY <1>1, <1>2 DEF RoutesSafe, RowsInv, DeletionsInv, ShadowsInv, ClientsInv

\* Whatever administrators ask for at once, however calls look for clients
\* meanwhile, and wherever handlers are dropped (proxies.rs, admin.rs,
\* account_tools.rs, account_data.rs, crs_sync.rs, state.rs): rows refer only to
\* what is there, no deletion takes a reference it should have counted,
\* fallbacks lead in no circle, shadows follow their parents, and cached clients
\* are fresh, one per profile and route and no more than the limit - but for
\* what the histories name, two requests at once or a request cut short.
THEOREM RoutesCorrect == RouteSpec => []RoutesSafe
<1>1. RouteInit => RoutesInv
  BY InitRows, InitFallbacks, InitDeletions, InitShadows, InitClients DEF RoutesInv
<1>2. RoutesInv /\ [RouteNext]_routeVars => RoutesInv'
  BY RowsStep, FallbacksStep, DeletionsStep, ShadowsStep, ClientsStep DEF RoutesInv
<1>3. RoutesInv => RoutesSafe
  BY RoutesInvSafe
<1> QED BY <1>1, <1>2, <1>3, PTL DEF RouteSpec

-----------------------------------------------------------------------------
(*                  Calls and the accounts they are given                  *)

SelectingSteps == {"level", "try", "acquire", "resolve"}
ReferringSteps == {"acquire"} \cup HoldingSteps

\* What a request's record satisfies: rows of its own group, a semaphore and
\* an account when it refers to one, and candidates it has not asked yet.
ReqOK(r, q) ==
  /\ DOMAIN q.rows \subseteq Member[GroupOf[r]]
  /\ q.pc \in ReferringSteps =>
       q.sem \in SemIds /\ q.account \in Accounts /\ q.account \in DOMAIN q.rows
  /\ q.pc \notin ReferringSteps => q.sem = NoSem
  /\ q.pc \in SelectingSteps =>
       q.ahead \subseteq DOMAIN q.rows \ q.tried /\ q.level \subseteq DOMAIN q.rows \ q.tried
  /\ q.pc \in {"acquire", "resolve"} => q.account \notin q.tried
  /\ q.pc \in {"new", "rows", "store"} => q.level = {}
  /\ Cardinality(q.tried) = q.attempt

SnapOK == \A g \in Groups : snap[g] # NoRows => DOMAIN snap[g] \subseteq Member[g]

TypeInv == TypeOK /\ SnapOK /\ (\A r \in Requests : ReqOK(r, req[r]))

-----------------------------------------------------------------------------
(* Facts about the operators *)

\* Rows are functions from accounts to limits.
LEMMA RowsFacts ==
  ASSUME NEW f \in Rows
  PROVE  DOMAIN f \subseteq Accounts /\ \A a \in DOMAIN f : f[a] \in Limits
BY DEF Rows

LEMMA NoneIsRows == None \in Rows /\ DOMAIN None = {}
BY DEF None, Rows

\* The rows a query returns.
LEMMA LoadedRowsType ==
  ASSUME TypeOK, NEW g \in Groups
  PROVE  LoadedRows(g) \in Rows /\ DOMAIN LoadedRows(g) \subseteq Member[g]
<1>1. Selectable(g) \subseteq Accounts /\ Selectable(g) \subseteq Member[g]
  BY MemberAssumption DEF Selectable
<1>2. LoadedRows(g) \in [Selectable(g) -> Limits]
  BY <1>1 DEF LoadedRows, TypeOK
<1> QED BY <1>1, <1>2 DEF Rows, LoadedRows

LEMMA NewRequestType == NewRequest \in Request
BY NoneIsRows, LimitsAssumption DEF NewRequest, Request, Steps, HoldingSteps, NoSem, NoAccount

\* A finite nonempty set of candidates has a positive size.
LEMMA LevelSize ==
  ASSUME NEW S, S \subseteq Accounts, S # {}
  PROVE  IsFiniteSet(S) /\ Cardinality(S) \in Nat \ {0}
BY FS_Subset, AccountsAssumption, FS_CardinalityType, FS_EmptySet

-----------------------------------------------------------------------------
(* Types *)

LEMMA InitType == Init => TypeInv
<1> SUFFICES ASSUME Init PROVE TypeInv OBVIOUS
<1> USE NoneIsRows, NewRequestType
<1>1. TypeOK
  BY Limit0Assumption, GroupOfAssumption, BoundsAssumption DEF Init, TypeOK
<1>2. SnapOK BY DEF Init, SnapOK
<1>3. \A r \in Requests : ReqOK(r, req[r])
  BY FS_EmptySet DEF Init, ReqOK, NewRequest, NoSem, ReferringSteps, SelectingSteps, HoldingSteps
<1> QED BY <1>1, <1>2, <1>3 DEF TypeInv

\* A step that gives one request a new record.
LEMMA ReqStep ==
  ASSUME TypeInv, NEW r \in Requests, NEW q \in Request, ReqOK(r, q),
         req' = [req EXCEPT ![r] = q]
  PROVE  /\ req' \in [Requests -> Request]
         /\ \A x \in Requests : ReqOK(x, req[x])'
<1>1. req' \in [Requests -> Request] BY DEF TypeInv, TypeOK
<1>2. ASSUME NEW x \in Requests PROVE ReqOK(x, req'[x]) BY DEF TypeInv, TypeOK
<1>3. ASSUME NEW x \in Requests PROVE ReqOK(x, req[x])'
  BY <1>2 DEF ReqOK, ReferringSteps, SelectingSteps, HoldingSteps
<1> QED BY <1>1, <1>3

\* The record a finished request, or its next attempt, starts from.
LEMMA FinishedType ==
  ASSUME NEW r \in Requests, NEW q \in Request, ReqOK(r, q)
  PROVE  /\ Finished(q) \in Request /\ ReqOK(r, Finished(q))
         /\ NextAttempt(q) \in Request /\ ReqOK(r, NextAttempt(q))
<1> DEFINE n(pc) == [NewRequest EXCEPT !.pc = pc, !.attempt = q.attempt, !.tried = q.tried]
<1>1. ASSUME NEW pc \in {"rows", "done"} PROVE n(pc) \in Request /\ ReqOK(r, n(pc))
  <2>1. NewRequest \in Request BY NewRequestType
  <2>2. q.attempt \in Nat /\ q.tried \in SUBSET Accounts BY DEF Request
  <2>3. n(pc) \in Request BY <2>1, <2>2 DEF Request, Steps
  <2>4. /\ n(pc).pc = pc /\ n(pc).tried = q.tried /\ n(pc).attempt = q.attempt
        /\ n(pc).rows = None /\ n(pc).sem = NoSem /\ n(pc).level = {}
    BY DEF NewRequest
  <2>5. ReqOK(r, n(pc))
    BY <2>4, NoneIsRows DEF ReqOK, ReferringSteps, SelectingSteps, HoldingSteps
  <2> QED BY <2>3, <2>5
<1>2. n("rows") \in Request /\ ReqOK(r, n("rows")) /\ n("done") \in Request /\ ReqOK(r, n("done"))
  BY <1>1
<1>3. Finished(q) = n("done") /\ (NextAttempt(q) = n("rows") \/ NextAttempt(q) = n("done"))
  BY DEF Finished, NextAttempt
<1> HIDE DEF n
<1> QED BY <1>2, <1>3

\* Returning a permit keeps the semaphores' types.
LEMMA ReleasedType ==
  ASSUME TypeInv, NEW r \in Requests
  PROVE  Released(r) \in [SemIds -> [limit : Nat, free : Nat]]
<1> DEFINE s == req[r].sem
<1>1. s \in SemIds \cup {NoSem} BY DEF TypeInv, TypeOK, Request
<1>2. CASE s \in SemIds BY <1>2 DEF TypeInv, TypeOK, Released
<1>3. CASE s \notin SemIds BY <1>3 DEF TypeInv, TypeOK, Released
<1> QED BY <1>2, <1>3

-----------------------------------------------------------------------------
(* Types: the steps of a selection *)

\* The rows of a selection are those of the request's group.
LEMMA WithRowsType ==
  ASSUME NEW r \in Requests, NEW q \in Request, ReqOK(r, q), NEW rows \in Rows,
         DOMAIN rows \subseteq Member[GroupOf[r]], q.pc \in {"rows", "store"}
  PROVE  WithRows(q, rows) \in Request /\ ReqOK(r, WithRows(q, rows))
<1> DEFINE n == WithRows(q, rows)
<1>1. DOMAIN rows \subseteq Accounts BY RowsFacts
<1>2. n \in Request BY <1>1 DEF WithRows, Request, Steps, HoldingSteps
<1>3. /\ n.pc = "level" /\ n.rows = rows /\ n.tried = q.tried /\ n.attempt = q.attempt
      /\ n.sem = q.sem /\ n.ahead = DOMAIN rows \ q.tried
  BY DEF WithRows, Request
<1>4. n.level = q.level BY DEF WithRows, Request
<1> QED BY <1>2, <1>3, <1>4 DEF ReqOK, ReferringSteps, SelectingSteps, HoldingSteps

LEMMA BeginType ==
  ASSUME TypeInv, NEW r \in Requests, Begin(r)
  PROVE  TypeInv'
<1>1. PICK next \in {"rows", "done"} : req' = [req EXCEPT ![r].pc = next] BY DEF Begin
<1> DEFINE q == [req[r] EXCEPT !.pc = next]
<1>2. req' = [req EXCEPT ![r] = q] BY <1>1 DEF TypeInv, TypeOK
<1>a. next \in Steps /\ req[r] \in Request BY DEF Steps, TypeInv, TypeOK
<1>3. q \in Request BY <1>a DEF Request
<1>4. ReqOK(r, req[r]) /\ req[r].pc = "new" BY DEF TypeInv, Begin
<1>5. ReqOK(r, q)
  BY <1>3, <1>4 DEF ReqOK, ReferringSteps, SelectingSteps, HoldingSteps, TypeInv, TypeOK, Request
<1> HIDE DEF q
<1> QED BY <1>2, <1>3, <1>5, ReqStep DEF TypeInv, TypeOK, SnapOK, Begin

LEMMA RowsCachedType ==
  ASSUME TypeInv, NEW r \in Requests, RowsCached(r)
  PROVE  TypeInv'
BY GroupOfAssumption, WithRowsType, ReqStep DEF TypeInv, TypeOK, SnapOK, RowsCached

LEMMA RowsLoadType ==
  ASSUME TypeInv, NEW r \in Requests, RowsLoad(r)
  PROVE  TypeInv'
<1> DEFINE rows == LoadedRows(GroupOf[r])
           q == [req[r] EXCEPT !.pc = "store", !.rows = rows]
<1>1. rows \in Rows /\ DOMAIN rows \subseteq Member[GroupOf[r]]
  BY GroupOfAssumption, LoadedRowsType DEF TypeInv
<1> HIDE DEF rows
<1>a. "store" \in Steps /\ req[r] \in Request BY DEF Steps, TypeInv, TypeOK
<1>2. q \in Request BY <1>1, <1>a DEF Request
<1>3. req' = [req EXCEPT ![r] = q] BY DEF RowsLoad, TypeInv, TypeOK, rows
<1>4. ReqOK(r, req[r]) /\ req[r].pc = "rows" /\ req[r] \in Request
  BY DEF TypeInv, TypeOK, RowsLoad
<1>5. ReqOK(r, q)
  BY <1>1, <1>4 DEF ReqOK, ReferringSteps, SelectingSteps, HoldingSteps, Request
<1> HIDE DEF q
<1> QED BY <1>2, <1>3, <1>5, ReqStep DEF TypeInv, TypeOK, SnapOK, RowsLoad

LEMMA RowsStoreType ==
  ASSUME TypeInv, NEW r \in Requests, RowsStore(r)
  PROVE  TypeInv'
<1> DEFINE rows == req[r].rows
<1>1. rows \in Rows /\ DOMAIN rows \subseteq Member[GroupOf[r]]
  BY DEF TypeInv, TypeOK, Request, ReqOK
<1>2. WithRows(req[r], rows) \in Request /\ ReqOK(r, WithRows(req[r], rows))
  BY <1>1, WithRowsType DEF TypeInv, TypeOK, RowsStore
<1>3. req' = [req EXCEPT ![r] = WithRows(req[r], rows)] BY DEF RowsStore
<1>4. snap' \in [Groups -> Rows \cup {NoRows}] /\ SnapOK'
  BY <1>1, GroupOfAssumption DEF RowsStore, TypeInv, TypeOK, SnapOK
<1> HIDE DEF rows
<1> QED BY <1>2, <1>3, <1>4, ReqStep DEF TypeInv, TypeOK, RowsStore

LEMMA NextLevelType ==
  ASSUME TypeInv, NEW r \in Requests, NextLevel(r)
  PROVE  TypeInv'
<1> DEFINE level == FirstLevel(req[r].ahead)
           size == Cardinality(level)
<1>1. PICK p \in {Priority[a] : a \in level} :
        /\ req' = [req EXCEPT ![r].pc = "try", ![r].level = level, ![r].offset = 0,
                              ![r].ahead = @ \ level, ![r].start = cursor[p] % size]
        /\ cursor' = [cursor EXCEPT ![p] = (@ + 1) % size]
  BY DEF NextLevel
<1>2. req[r] \in Request /\ ReqOK(r, req[r]) /\ req[r].pc = "level"
  BY DEF TypeInv, TypeOK, NextLevel
<1>3. level \subseteq req[r].ahead /\ level \subseteq Accounts BY <1>2 DEF FirstLevel, Request
<1>4. size \in Nat \ {0} BY <1>3, LevelSize DEF NextLevel
<1>5. p \in {Priority[a] : a \in Accounts} BY <1>1, <1>3
<1>6. cursor[p] \in Nat BY <1>5 DEF TypeInv, TypeOK
<1> HIDE DEF level, size
<1>7. cursor[p] % size \in Nat /\ (cursor[p] + 1) % size \in Nat BY <1>4, <1>6
<1> DEFINE q == [req[r] EXCEPT !.pc = "try", !.level = level, !.offset = 0,
                               !.ahead = @ \ level, !.start = cursor[p] % size]
<1>8. q \in Request BY <1>2, <1>3, <1>7 DEF Request, Steps
<1>9. req' = [req EXCEPT ![r] = q] BY <1>1 DEF TypeInv, TypeOK
<1>10. ReqOK(r, q)
  BY <1>2, <1>3 DEF ReqOK, ReferringSteps, SelectingSteps, HoldingSteps, Request
<1>11. cursor' \in [{Priority[a] : a \in Accounts} -> Nat]
  BY <1>1, <1>7 DEF TypeInv, TypeOK
<1> HIDE DEF q
<1> QED BY <1>8, <1>9, <1>10, <1>11, ReqStep DEF TypeInv, TypeOK, SnapOK, NextLevel

LEMMA NoneAvailableType ==
  ASSUME TypeInv, NEW r \in Requests, NoneAvailable(r)
  PROVE  TypeInv'
<1> DEFINE q == [req[r] EXCEPT !.pc = "done"]
<1>1. req[r] \in Request /\ ReqOK(r, req[r]) /\ req[r].pc = "level"
  BY DEF TypeInv, TypeOK, NoneAvailable
<1>2. q \in Request BY <1>1 DEF Request, Steps
<1>3. req' = [req EXCEPT ![r] = q] BY DEF NoneAvailable, TypeInv, TypeOK
<1>4. ReqOK(r, q)
  BY <1>1 DEF ReqOK, ReferringSteps, SelectingSteps, HoldingSteps, Request
<1> HIDE DEF q
<1> QED BY <1>2, <1>3, <1>4, ReqStep DEF TypeInv, TypeOK, SnapOK, NoneAvailable

LEMMA LookUpType ==
  ASSUME TypeInv, NEW r \in Requests, LookUp(r)
  PROVE  TypeInv'
<1>1. req[r] \in Request /\ ReqOK(r, req[r]) /\ req[r].pc = "try"
  BY DEF TypeInv, TypeOK, LookUp
<1>2. PICK a \in AtPlace(req[r]) :
        LET keep == entry[a] # NoSem /\ sem[entry[a]].limit = req[r].rows[a]
        IN  \E s \in IF keep THEN {entry[a]} ELSE Fresh :
              /\ entry' = [entry EXCEPT ![a] = s]
              /\ sem' = IF keep THEN sem
                        ELSE [sem EXCEPT ![s] = [limit |-> req[r].rows[a], free |-> req[r].rows[a]]]
              /\ req' = [req EXCEPT ![r].pc = "acquire", ![r].account = a, ![r].sem = s,
                                    ![r].seen = @ \cup {a}]
  BY DEF LookUp
<1>3. a \in req[r].level /\ a \in DOMAIN req[r].rows /\ a \notin req[r].tried
  BY <1>1, <1>2 DEF AtPlace, ReqOK, SelectingSteps
<1>4. a \in Accounts /\ req[r].rows[a] \in Nat
  BY <1>1, <1>3, RowsFacts, LimitsAssumption DEF Request
<1>5. PICK s \in SemIds :
        /\ entry' = [entry EXCEPT ![a] = s]
        /\ sem' = sem \/ sem' = [sem EXCEPT ![s] = [limit |-> req[r].rows[a], free |-> req[r].rows[a]]]
        /\ req' = [req EXCEPT ![r].pc = "acquire", ![r].account = a, ![r].sem = s,
                              ![r].seen = @ \cup {a}]
  <2>1. entry[a] \in SemIds \cup {NoSem} BY <1>4 DEF TypeInv, TypeOK
  <2>2. Fresh \subseteq SemIds BY DEF Fresh, Unreferenced
  <2> QED BY <1>2, <2>1, <2>2
<1> DEFINE q == [req[r] EXCEPT !.pc = "acquire", !.account = a, !.sem = s, !.seen = @ \cup {a}]
<1>6. q \in Request BY <1>1, <1>4 DEF Request, Steps
<1>7. req' = [req EXCEPT ![r] = q] BY <1>5 DEF TypeInv, TypeOK
<1>8. ReqOK(r, q)
  BY <1>1, <1>3, <1>4 DEF ReqOK, ReferringSteps, SelectingSteps, HoldingSteps, Request
<1>9. entry' \in [Accounts -> SemIds \cup {NoSem}] BY <1>5 DEF TypeInv, TypeOK
<1>10. sem' \in [SemIds -> [limit : Nat, free : Nat]] BY <1>4, <1>5 DEF TypeInv, TypeOK
<1> HIDE DEF q
<1> QED BY <1>6, <1>7, <1>8, <1>9, <1>10, ReqStep DEF TypeInv, TypeOK, SnapOK, LookUp

LEMMA AcquireType ==
  ASSUME TypeInv, NEW r \in Requests, Acquire(r)
  PROVE  TypeInv'
<1> DEFINE q == [req[r] EXCEPT !.pc = "resolve"]
<1>1. req[r] \in Request /\ ReqOK(r, req[r]) /\ req[r].pc = "acquire" /\ req[r].sem \in SemIds
  BY DEF TypeInv, TypeOK, Acquire, ReqOK, ReferringSteps
<1>2. q \in Request BY <1>1 DEF Request, Steps, HoldingSteps
<1>3. req' = [req EXCEPT ![r] = q] BY DEF Acquire, TypeInv, TypeOK
<1>4. ReqOK(r, q)
  BY <1>1 DEF ReqOK, ReferringSteps, SelectingSteps, HoldingSteps, Request
<1>5. sem' \in [SemIds -> [limit : Nat, free : Nat]]
  BY <1>1 DEF TypeInv, TypeOK, Acquire
<1> HIDE DEF q
<1> QED BY <1>2, <1>3, <1>4, <1>5, ReqStep DEF TypeInv, TypeOK, SnapOK, Acquire

LEMMA BusyType ==
  ASSUME TypeInv, NEW r \in Requests, Busy(r)
  PROVE  TypeInv'
<1> DEFINE q == Onwards(req[r])
<1>1. req[r] \in Request /\ ReqOK(r, req[r]) /\ req[r].pc = "acquire"
  BY DEF TypeInv, TypeOK, Busy
<1> DEFINE next == IF req[r].offset + 1 < Cardinality(req[r].level) THEN "try" ELSE "level"
<1>a. next \in Steps BY DEF Steps
<1>b. q = [req[r] EXCEPT !.pc = next, !.offset = @ + 1, !.account = NoAccount, !.sem = NoSem]
  BY DEF Onwards
<1>c. req[r].offset + 1 \in Nat BY <1>1 DEF Request
<1> HIDE DEF next, q
<1>2. q \in Request BY <1>1, <1>a, <1>b, <1>c DEF Request, NoAccount, NoSem
<1> USE DEF q, next
<1>3. /\ q.pc \in {"try", "level"} /\ q.sem = NoSem /\ q.level = req[r].level
      /\ q.ahead = req[r].ahead /\ q.rows = req[r].rows /\ q.tried = req[r].tried
      /\ q.attempt = req[r].attempt
  BY <1>1 DEF Onwards, Request
<1>4. req' = [req EXCEPT ![r] = q] BY DEF Busy
<1> HIDE DEF q
<1>5. ReqOK(r, q)
  BY <1>1, <1>3 DEF ReqOK, ReferringSteps, SelectingSteps, HoldingSteps
<1> QED BY <1>2, <1>4, <1>5, ReqStep DEF TypeInv, TypeOK, SnapOK, Busy

-----------------------------------------------------------------------------
(* Types: the steps of an attempt *)

\* A step that only moves a holding request to another holding step.
LEMMA MoveType ==
  ASSUME TypeInv, NEW r \in Requests, Holding(r), NEW pc \in HoldingSteps \ {"resolve"},
         req[r].pc # "resolve", NEW last \in BOOLEAN,
         req' = [req EXCEPT ![r] = [@ EXCEPT !.pc = pc, !.last = last]]
  PROVE  /\ req' \in [Requests -> Request]
         /\ \A x \in Requests : ReqOK(x, req[x])'
<1> DEFINE q == [req[r] EXCEPT !.pc = pc, !.last = last]
<1>1. req[r] \in Request /\ ReqOK(r, req[r]) BY DEF TypeInv, TypeOK
<1>a. pc \in Steps BY DEF Steps
<1>2. q \in Request BY <1>1, <1>a DEF Request
<1>3. ReqOK(r, q)
  BY <1>1 DEF ReqOK, Holding, ReferringSteps, SelectingSteps, HoldingSteps, Request
<1> HIDE DEF q
<1>4. req' = [req EXCEPT ![r] = q] BY DEF q
<1> QED BY <1>2, <1>3, <1>4, ReqStep

\* A step that ends the request or goes on to its next attempt.
LEMMA LeaveType ==
  ASSUME TypeInv, NEW r \in Requests,
         \/ req' = [req EXCEPT ![r] = Finished(@)]
         \/ req' = [req EXCEPT ![r] = NextAttempt(@)]
  PROVE  /\ req' \in [Requests -> Request]
         /\ \A x \in Requests : ReqOK(x, req[x])'
BY FinishedType, ReqStep DEF TypeInv, TypeOK

LEMMA ResolveType ==
  ASSUME TypeInv, NEW r \in Requests, Resolve(r)
  PROVE  TypeInv'
<1> DEFINE q == [req[r] EXCEPT !.pc = "refresh", !.attempt = @ + 1,
                               !.tried = @ \cup {req[r].account}]
<1>1. req[r] \in Request /\ ReqOK(r, req[r]) /\ req[r].pc = "resolve"
  BY DEF TypeInv, TypeOK, Resolve
<1>2. req[r].account \in Accounts /\ req[r].account \notin req[r].tried
  BY <1>1 DEF ReqOK, ReferringSteps, HoldingSteps
<1>3. req[r].tried \subseteq Accounts /\ req[r].attempt \in Nat BY <1>1 DEF Request
<1>4. Cardinality(req[r].tried \cup {req[r].account}) = req[r].attempt + 1
  BY <1>1, <1>2, <1>3, FS_Subset, FS_AddElement, AccountsAssumption DEF ReqOK
<1>a. req[r].attempt + 1 \in Nat /\ req[r].tried \cup {req[r].account} \in SUBSET Accounts
      /\ "refresh" \in Steps
  BY <1>2, <1>3 DEF Steps, HoldingSteps
<1>5. q \in Request BY <1>1, <1>a DEF Request
<1>6. /\ q.pc = "refresh" /\ q.rows = req[r].rows /\ q.sem = req[r].sem
      /\ q.account = req[r].account /\ q.tried = req[r].tried \cup {req[r].account}
      /\ q.attempt = req[r].attempt + 1
  BY <1>1, <1>3 DEF Request
<1>7. req' = [req EXCEPT ![r] = q] BY DEF Resolve, TypeInv, TypeOK
<1> HIDE DEF q
<1>8. ReqOK(r, q)
  BY <1>1, <1>4, <1>6 DEF ReqOK, ReferringSteps, SelectingSteps, HoldingSteps
<1> QED BY <1>5, <1>7, <1>8, ReqStep DEF TypeInv, TypeOK, SnapOK, Resolve

\* Moves between the steps of an attempt, the semaphores untouched.
Advances(r) ==
  \/ RefreshToken(r) \/ Succeeds(r) \/ AnswersOther(r) \/ AnswersRetryable(r)
  \/ TransportFails(r) \/ Cool(r) \/ ClearError(r)

LEMMA MovesForm ==
  ASSUME TypeInv, NEW r \in Requests, Advances(r)
  PROVE  /\ Holding(r) /\ req[r].pc # "resolve"
         /\ \E pc \in HoldingSteps \ {"resolve"}, last \in BOOLEAN :
              req' = [req EXCEPT ![r] = [@ EXCEPT !.pc = pc, !.last = last]]
<1>0. req[r] \in Request /\ req[r].last \in BOOLEAN /\ ReqOK(r, req[r])
  BY DEF TypeInv, TypeOK, Request
<1>1. Holding(r) /\ req[r].pc # "resolve"
  BY DEF Advances, Holding, HoldingSteps, RefreshToken, Succeeds, AnswersOther, AnswersRetryable,
         TransportFails, Cool, ClearError
<1>2. PICK pc \in HoldingSteps \ {"resolve"}, last \in BOOLEAN :
        req' = [req EXCEPT ![r] = [@ EXCEPT !.pc = pc, !.last = last]]
  <2> DEFINE P(pc, last) == req' = [req EXCEPT ![r] = [@ EXCEPT !.pc = pc, !.last = last]]
  <2> SUFFICES \E pc \in HoldingSteps \ {"resolve"}, last \in BOOLEAN : P(pc, last) OBVIOUS
  <2>0. \A pc \in HoldingSteps : [req[r] EXCEPT !.pc = pc] = [req[r] EXCEPT !.pc = pc, !.last = req[r].last]
    BY <1>0 DEF Request
  <2>1. CASE RefreshToken(r)
    <3>1. P("call", req[r].last) BY <2>0, <2>1 DEF RefreshToken, TypeInv, TypeOK, HoldingSteps
    <3>2. "call" \in HoldingSteps \ {"resolve"} BY DEF HoldingSteps
    <3> HIDE DEF P
    <3> QED BY <3>1, <3>2, <1>0
  <2>2. CASE Succeeds(r)
    <3>1. P("clear", req[r].last) BY <2>0, <2>2 DEF Succeeds, TypeInv, TypeOK, HoldingSteps
    <3>2. "clear" \in HoldingSteps \ {"resolve"} BY DEF HoldingSteps
    <3> HIDE DEF P
    <3> QED BY <3>1, <3>2, <1>0
  <2>3. CASE AnswersOther(r)
    <3>1. P("respond", req[r].last) BY <2>0, <2>3 DEF AnswersOther, TypeInv, TypeOK, HoldingSteps
    <3>2. "respond" \in HoldingSteps \ {"resolve"} BY DEF HoldingSteps
    <3> HIDE DEF P
    <3> QED BY <3>1, <3>2, <1>0
  <2>4. CASE AnswersRetryable(r) BY <2>4 DEF AnswersRetryable, TypeInv, TypeOK, HoldingSteps
  <2>5. CASE TransportFails(r) BY <2>5 DEF TransportFails, TypeInv, TypeOK, HoldingSteps
  <2>6. CASE Cool(r)
    <3>1. P("invalidate", req[r].last) BY <2>0, <2>6 DEF Cool, TypeInv, TypeOK, HoldingSteps
    <3>2. "invalidate" \in HoldingSteps \ {"resolve"} BY DEF HoldingSteps
    <3> HIDE DEF P
    <3> QED BY <3>1, <3>2, <1>0
  <2>7. CASE ClearError(r)
    <3>1. P("respond", req[r].last) BY <2>0, <2>7 DEF ClearError, TypeInv, TypeOK, HoldingSteps
    <3>2. "respond" \in HoldingSteps \ {"resolve"} BY DEF HoldingSteps
    <3> HIDE DEF P
    <3> QED BY <3>1, <3>2, <1>0
  <2> HIDE DEF P
  <2> QED BY <2>1, <2>2, <2>3, <2>4, <2>5, <2>6, <2>7 DEF Advances
<1> QED BY <1>1, <1>2

LEMMA MovesType ==
  ASSUME TypeInv, NEW r \in Requests, Advances(r)
  PROVE  TypeInv'
<1>0. ReqOK(r, req[r]) BY DEF TypeInv
<1>1. Holding(r) BY MovesForm
<1>2. PICK pc \in HoldingSteps \ {"resolve"}, last \in BOOLEAN :
        req' = [req EXCEPT ![r] = [@ EXCEPT !.pc = pc, !.last = last]]
  BY MovesForm
<1>b. req[r].pc # "resolve" BY MovesForm
<1>3. /\ req' \in [Requests -> Request]
      /\ \A x \in Requests : ReqOK(x, req[x])'
  BY <1>1, <1>2, <1>b, MoveType
<1>4. req[r].account \in Accounts BY <1>0, <1>1 DEF ReqOK, Holding, ReferringSteps
<1>a. db' = db \/ \E c \in BOOLEAN : db' = [db EXCEPT ![req[r].account].cooling = c]
  BY DEF Advances, RefreshToken, Succeeds, AnswersOther, AnswersRetryable,
         TransportFails, Cool, ClearError
<1>5. db' \in [Accounts -> [usable : BOOLEAN, cooling : BOOLEAN, limit : Limits]]
  <2>1. ASSUME NEW c \in BOOLEAN
        PROVE  [db EXCEPT ![req[r].account].cooling = c]
                 \in [Accounts -> [usable : BOOLEAN, cooling : BOOLEAN, limit : Limits]]
    BY SMTT(30), <1>4 DEF TypeInv, TypeOK
  <2> QED BY <1>a, <2>1 DEF TypeInv, TypeOK
<1>6. UNCHANGED <<snap, cursor, entry, sem, admin, edits>>
  BY DEF Advances, RefreshToken, Succeeds, AnswersOther, AnswersRetryable, TransportFails, Cool, ClearError
<1> QED BY <1>3, <1>5, <1>6 DEF TypeInv, TypeOK, SnapOK

\* Moves that give the permit back, or keep it to respond.
LEMMA LeavesType ==
  ASSUME TypeInv, NEW r \in Requests,
         ResolveFails(r) \/ RefreshFails(r) \/ BodyEnds(r) \/ ClientGone(r)
  PROVE  TypeInv'
<1>1. \/ req' = [req EXCEPT ![r] = Finished(@)]
      \/ req' = [req EXCEPT ![r] = NextAttempt(@)]
  BY DEF ResolveFails, RefreshFails, BodyEnds, ClientGone
<1>2. sem' = sem \/ sem' = Released(r)
  BY DEF ResolveFails, RefreshFails, BodyEnds, ClientGone
<1>3. sem' \in [SemIds -> [limit : Nat, free : Nat]]
  BY <1>2, ReleasedType DEF TypeInv, TypeOK
<1>4. UNCHANGED <<db, snap, cursor, entry, admin, edits>>
  BY DEF ResolveFails, RefreshFails, BodyEnds, ClientGone
<1> QED BY <1>1, <1>3, <1>4, LeaveType DEF TypeInv, TypeOK, SnapOK

LEMMA AfterCoolingType ==
  ASSUME TypeInv, NEW r \in Requests, CoolFails(r) \/ Invalidate(r)
  PROVE  TypeInv'
<1>1. /\ req' \in [Requests -> Request]
      /\ \A x \in Requests : ReqOK(x, req[x])'
      /\ sem' \in [SemIds -> [limit : Nat, free : Nat]]
  <2>1. CASE req[r].last
    <3>1. req' = [req EXCEPT ![r].pc = "respond"] /\ sem' = sem
      BY <2>1 DEF CoolFails, Invalidate, AfterCooling
    <3>2. req[r] \in Request /\ req[r].last = TRUE BY <2>1 DEF TypeInv, TypeOK, Request
    <3>3. [req[r] EXCEPT !.pc = "respond"] = [req[r] EXCEPT !.pc = "respond", !.last = TRUE]
      BY <3>2 DEF Request
    <3>4. req' = [req EXCEPT ![r] = [@ EXCEPT !.pc = "respond", !.last = TRUE]]
      BY <3>1, <3>3 DEF TypeInv, TypeOK
    <3>5. Holding(r) /\ req[r].pc # "resolve" /\ "respond" \in HoldingSteps \ {"resolve"}
      BY DEF CoolFails, Invalidate, Holding, HoldingSteps
    <3> QED BY <3>1, <3>4, <3>5, MoveType DEF TypeInv, TypeOK
  <2>2. CASE ~req[r].last BY <2>2, LeaveType, ReleasedType DEF CoolFails, Invalidate, AfterCooling
  <2> QED BY <2>1, <2>2
<1>2. snap' \in [Groups -> Rows \cup {NoRows}] /\ SnapOK'
  BY DEF CoolFails, Invalidate, TypeInv, TypeOK, SnapOK
<1>3. UNCHANGED <<db, cursor, entry, admin, edits>> BY DEF CoolFails, Invalidate
<1> QED BY <1>1, <1>2, <1>3 DEF TypeInv, TypeOK

\* The steps of the rest of the program leave the requests alone.
LEMMA RestType ==
  ASSUME TypeInv,
         \/ \E g \in Groups : SnapshotExpires(g)
         \/ \E a \in Accounts : CooldownPasses(a) \/ EditAccount(a)
         \/ EditInvalidates \/ EditDropped \/ UNCHANGED vars
  PROVE  TypeInv'
<1>1. UNCHANGED <<req, entry, sem, cursor>>
  BY DEF SnapshotExpires, CooldownPasses, EditAccount, EditInvalidates, EditDropped, vars
<1>2. snap' \in [Groups -> Rows \cup {NoRows}] /\ SnapOK'
  BY DEF SnapshotExpires, CooldownPasses, EditAccount, EditInvalidates, EditDropped, vars,
         TypeInv, TypeOK, SnapOK
<1>3. db' \in [Accounts -> [usable : BOOLEAN, cooling : BOOLEAN, limit : Limits]]
      /\ admin' \in {"idle", "invalidate"} /\ edits' \in 0..MaxEdits
  <2>1. ASSUME NEW g \in Groups, SnapshotExpires(g) PROVE <1>3!:
    BY <2>1 DEF SnapshotExpires, TypeInv, TypeOK
  <2>2. ASSUME NEW a \in Accounts, CooldownPasses(a) PROVE <1>3!:
    <3>1. [db EXCEPT ![a].cooling = FALSE]
            \in [Accounts -> [usable : BOOLEAN, cooling : BOOLEAN, limit : Limits]]
      BY DEF TypeInv, TypeOK
    <3> QED BY <2>2, <3>1 DEF CooldownPasses, TypeInv, TypeOK
  <2>3. ASSUME NEW a \in Accounts, EditAccount(a) PROVE <1>3!: BY <2>3, BoundsAssumption DEF EditAccount, TypeInv, TypeOK
  <2>4. CASE EditInvalidates \/ EditDropped
    BY <2>4 DEF EditInvalidates, EditDropped, TypeInv, TypeOK
  <2>5. CASE UNCHANGED vars BY <2>5 DEF vars, TypeInv, TypeOK
  <2> QED BY <2>1, <2>2, <2>3, <2>4, <2>5
<1> QED BY <1>1, <1>2, <1>3 DEF TypeInv, TypeOK

LEMMA NextType == TypeInv /\ [Next]_vars => TypeInv'
<1> SUFFICES ASSUME TypeInv, [Next]_vars PROVE TypeInv' OBVIOUS
<1>1. ASSUME NEW r \in Requests, Begin(r) PROVE TypeInv' BY <1>1, BeginType
<1>2. ASSUME NEW r \in Requests, Selecting(r) PROVE TypeInv'
  BY <1>2, RowsCachedType, RowsLoadType, RowsStoreType, NextLevelType, NoneAvailableType,
     LookUpType, AcquireType, BusyType DEF Selecting
<1>3. ASSUME NEW r \in Requests, Attempting(r) PROVE TypeInv'
  BY <1>3, ResolveType, MovesType, LeavesType, AfterCoolingType DEF Attempting, Advances
<1>4. ASSUME NEW r \in Requests, Upstream(r) \/ ClientGone(r) PROVE TypeInv'
  BY <1>4, MovesType, LeavesType DEF Upstream, Advances
<1> QED BY <1>1, <1>2, <1>3, <1>4, RestType DEF Next

\* Types, and the facts each request's record carries with it.
THEOREM TypeCorrect == Spec => []TypeInv
BY InitType, NextType, PTL DEF Spec

\* Every attempt of the retry loop asks an account not asked before.
THEOREM AttemptsCorrect == Spec => []EachAttemptNewAccount
<1>1. TypeInv => EachAttemptNewAccount BY DEF TypeInv, ReqOK, EachAttemptNewAccount
<1> QED BY <1>1, TypeCorrect, PTL

\* A request is served by accounts of its own group only.
THEOREM GroupsCorrect == Spec => []GroupIsolation
<1>1. TypeInv => GroupIsolation
  BY DEF TypeInv, ReqOK, GroupIsolation, Holding, ReferringSteps
<1> QED BY <1>1, TypeCorrect, PTL

-----------------------------------------------------------------------------
(* Permits *)

SlotInv == TypeInv /\ SlotAccounting

\* Who holds a permit after a step that gives one request a new record.
LEMMA HoldersStep ==
  ASSUME TypeInv, NEW r \in Requests, NEW q, req' = [req EXCEPT ![r] = q], NEW s \in SemIds
  PROVE  /\ q.pc \in HoldingSteps /\ q.sem = s => Holders(s)' = Holders(s) \cup {r}
         /\ ~(q.pc \in HoldingSteps /\ q.sem = s) => Holders(s)' = Holders(s) \ {r}
BY DEF Holders, Holding, HoldingSteps, TypeInv, TypeOK

LEMMA HoldersFinite ==
  ASSUME NEW s PROVE IsFiniteSet(Holders(s)) /\ Cardinality(Holders(s)) \in Nat
BY FS_Subset, FS_CardinalityType, RequestsAssumption DEF Holders

\* A step that leaves the semaphores alone, and of each request whether it
\* holds a permit and of which semaphore.
SameHolders ==
  /\ sem' = sem
  /\ \A r \in Requests : req'[r].pc \in HoldingSteps <=> Holding(r)
  /\ \A r \in Requests : Holding(r) => req'[r].sem = req[r].sem

LEMMA SameHoldersSlots ==
  ASSUME SlotInv, SameHolders PROVE SlotAccounting'
BY DEF SameHolders, Holders, Holding, HoldingSteps, SlotInv, SlotAccounting

\* A request that holds no permit before or after a step, or holds the same.
LEMMA SameHoldersStep ==
  ASSUME TypeInv, NEW r \in Requests, NEW q, req' = [req EXCEPT ![r] = q], sem' = sem,
         q.pc \in HoldingSteps <=> req[r].pc \in HoldingSteps,
         req[r].pc \in HoldingSteps => q.sem = req[r].sem
  PROVE  SameHolders
BY DEF TypeInv, TypeOK, SameHolders, Holding

\* Giving a permit back.
LEMMA ReleaseSlots ==
  ASSUME SlotInv, NEW r \in Requests, Holding(r), NEW q, req' = [req EXCEPT ![r] = q],
         q.pc \notin HoldingSteps, sem' = Released(r)
  PROVE  SlotAccounting'
<1> DEFINE t == req[r].sem
<1>1. t \in SemIds BY DEF SlotInv, TypeInv, ReqOK, Holding, ReferringSteps
<1>2. r \in Holders(t) BY DEF Holders
<1>3. ASSUME NEW s \in SemIds
      PROVE  sem'[s].limit = sem'[s].free + Cardinality(Holders(s)')
  <2>1. Holders(s)' = Holders(s) \ {r} BY HoldersStep DEF SlotInv
  <2>2. sem[s].limit = sem[s].free + Cardinality(Holders(s)) /\ sem[s].free \in Nat
        /\ sem[s].limit \in Nat
    BY DEF SlotInv, SlotAccounting, TypeInv, TypeOK
  <2>3. CASE s = t
    <3>1. Cardinality(Holders(s) \ {r}) = Cardinality(Holders(s)) - 1
      BY <2>3, <1>2, HoldersFinite, FS_RemoveElement
    <3>2. sem'[s].free = sem[s].free + 1 /\ sem'[s].limit = sem[s].limit
      BY <2>3 DEF Released, SlotInv, TypeInv, TypeOK
    <3>3. Cardinality(Holders(s)) \in Nat BY HoldersFinite
    <3> QED BY <2>1, <2>2, <3>1, <3>2, <3>3
  <2>4. CASE s # t BY <2>4, <1>1, <2>1, <2>2 DEF Holders, Released, SlotInv, TypeInv, TypeOK
  <2> QED BY <2>3, <2>4
<1> QED BY <1>3 DEF SlotAccounting

LEMMA AcquireSlots ==
  ASSUME SlotInv, NEW r \in Requests, Acquire(r) PROVE SlotAccounting'
<1> DEFINE t == req[r].sem
           q == [req[r] EXCEPT !.pc = "resolve"]
<1>1. t \in SemIds /\ req[r] \in Request
  BY DEF SlotInv, TypeInv, TypeOK, ReqOK, Acquire, ReferringSteps
<1>2. req' = [req EXCEPT ![r] = q] BY DEF Acquire, SlotInv, TypeInv, TypeOK
<1>3. q.pc \in HoldingSteps /\ q.sem = t BY <1>1 DEF Request, HoldingSteps
<1>4. ~Holding(r) BY DEF Acquire, Holding, HoldingSteps
<1> HIDE DEF q
<1>5. ASSUME NEW s \in SemIds
      PROVE  sem'[s].limit = sem'[s].free + Cardinality(Holders(s)')
  <2>1. sem[s].limit = sem[s].free + Cardinality(Holders(s)) /\ sem[s].free \in Nat
        /\ sem[s].limit \in Nat /\ Cardinality(Holders(s)) \in Nat
    BY HoldersFinite DEF SlotInv, SlotAccounting, TypeInv, TypeOK
  <2>2. r \notin Holders(s) BY <1>4 DEF Holders
  <2>3. CASE s = t
    <3>1. Holders(s)' = Holders(s) \cup {r} BY <1>2, <1>3, <2>3, HoldersStep DEF SlotInv
    <3>2. Cardinality(Holders(s) \cup {r}) = Cardinality(Holders(s)) + 1
      BY <2>2, HoldersFinite, FS_AddElement
    <3>3. sem'[s].free = sem[s].free - 1 /\ sem'[s].limit = sem[s].limit
      BY <2>3 DEF Acquire, SlotInv, TypeInv, TypeOK
    <3> QED BY <2>1, <3>1, <3>2, <3>3
  <2>4. CASE s # t
    <3>1. Holders(s)' = Holders(s) \ {r} BY <1>2, <1>3, <2>4, HoldersStep DEF SlotInv
    <3>2. Holders(s) \ {r} = Holders(s) BY <2>2
    <3>3. sem'[s] = sem[s] BY SMTT(30), <2>4, <1>1 DEF Acquire, SlotInv, TypeInv, TypeOK
    <3> QED BY <2>1, <3>1, <3>2, <3>3
  <2> QED BY <2>3, <2>4
<1> QED BY <1>5 DEF SlotAccounting

\* What LookUp chooses: an account of the level, and its semaphore, kept or new.
LEMMA LookUpChoice ==
  ASSUME TypeInv, NEW r \in Requests, LookUp(r)
  PROVE  \E a \in Accounts, s \in SemIds :
           /\ a \in DOMAIN req[r].rows /\ req[r].rows[a] \in Limits
           /\ entry' = [entry EXCEPT ![a] = s]
           /\ req' = [req EXCEPT ![r] = [req[r] EXCEPT !.pc = "acquire", !.account = a, !.sem = s,
                                                 !.seen = @ \cup {a}]]
           /\ \/ /\ entry[a] = s /\ sem[s].limit = req[r].rows[a] /\ sem' = sem
              \/ /\ s \in Unreferenced
                 /\ entry[a] = NoSem \/ sem[entry[a]].limit # req[r].rows[a]
                 /\ sem' = [sem EXCEPT ![s] = [limit |-> req[r].rows[a], free |-> req[r].rows[a]]]
<1>1. req[r] \in Request /\ ReqOK(r, req[r]) /\ req[r].pc = "try"
  BY DEF TypeInv, TypeOK, LookUp
<1>2. PICK a \in AtPlace(req[r]) :
        LET keep == entry[a] # NoSem /\ sem[entry[a]].limit = req[r].rows[a]
        IN  \E s \in IF keep THEN {entry[a]} ELSE Fresh :
              /\ entry' = [entry EXCEPT ![a] = s]
              /\ sem' = IF keep THEN sem
                        ELSE [sem EXCEPT ![s] = [limit |-> req[r].rows[a], free |-> req[r].rows[a]]]
              /\ req' = [req EXCEPT ![r].pc = "acquire", ![r].account = a, ![r].sem = s,
                                    ![r].seen = @ \cup {a}]
  BY DEF LookUp
<1>3. a \in DOMAIN req[r].rows BY <1>1, <1>2 DEF AtPlace, ReqOK, SelectingSteps
<1>4. a \in Accounts /\ req[r].rows[a] \in Limits BY <1>1, <1>3, RowsFacts DEF Request
<1> DEFINE keep == entry[a] # NoSem /\ sem[entry[a]].limit = req[r].rows[a]
<1>5. PICK s \in IF keep THEN {entry[a]} ELSE Fresh :
        /\ entry' = [entry EXCEPT ![a] = s]
        /\ sem' = IF keep THEN sem
                  ELSE [sem EXCEPT ![s] = [limit |-> req[r].rows[a], free |-> req[r].rows[a]]]
        /\ req' = [req EXCEPT ![r].pc = "acquire", ![r].account = a, ![r].sem = s,
                              ![r].seen = @ \cup {a}]
  BY <1>2
<1>6. req' = [req EXCEPT ![r] = [req[r] EXCEPT !.pc = "acquire", !.account = a, !.sem = s,
                                          !.seen = @ \cup {a}]]
  BY <1>5 DEF TypeInv, TypeOK
<1>7. s \in SemIds BY <1>4, <1>5 DEF TypeInv, TypeOK, Fresh, Unreferenced
<1>8. \/ /\ entry[a] = s /\ sem[s].limit = req[r].rows[a] /\ sem' = sem
      \/ /\ s \in Unreferenced
         /\ entry[a] = NoSem \/ sem[entry[a]].limit # req[r].rows[a]
         /\ sem' = [sem EXCEPT ![s] = [limit |-> req[r].rows[a], free |-> req[r].rows[a]]]
  BY <1>5 DEF Fresh
<1> QED BY <1>3, <1>4, <1>5, <1>6, <1>7, <1>8

LEMMA LookUpSlots ==
  ASSUME SlotInv, NEW r \in Requests, LookUp(r) PROVE SlotAccounting'
<1>1. PICK a \in Accounts, t \in SemIds :
        /\ req[r].rows[a] \in Limits
        /\ req' = [req EXCEPT ![r] = [req[r] EXCEPT !.pc = "acquire", !.account = a, !.sem = t,
                                              !.seen = @ \cup {a}]]
        /\ \/ sem' = sem
           \/ /\ t \in Unreferenced
              /\ sem' = [sem EXCEPT ![t] = [limit |-> req[r].rows[a], free |-> req[r].rows[a]]]
  BY LookUpChoice DEF SlotInv
<1> DEFINE q == [req[r] EXCEPT !.pc = "acquire", !.account = a, !.sem = t, !.seen = @ \cup {a}]
<1>2. q.pc \notin HoldingSteps BY DEF HoldingSteps, SlotInv, TypeInv, TypeOK, Request
<1>3. req' = [req EXCEPT ![r] = q] BY <1>1
<1> HIDE DEF q
<1>4. ~Holding(r) BY DEF LookUp, Holding, HoldingSteps
<1>5. ASSUME NEW s \in SemIds PROVE Holders(s)' = Holders(s)
  <2>1. Holders(s)' = Holders(s) \ {r} BY <1>2, <1>3, HoldersStep DEF SlotInv
  <2>2. r \notin Holders(s) BY <1>4 DEF Holders
  <2> QED BY <2>1, <2>2
<1>6. CASE sem' = sem BY <1>5, <1>6 DEF SlotInv, SlotAccounting
<1>7. CASE /\ t \in Unreferenced
           /\ sem' = [sem EXCEPT ![t] = [limit |-> req[r].rows[a], free |-> req[r].rows[a]]]
  <2>1. Holders(t) = {} BY <1>7 DEF Holders, Unreferenced
  <2>2. Cardinality(Holders(t)) = 0 BY <2>1, FS_EmptySet
  <2>3. sem'[t].limit = sem'[t].free /\ sem'[t].free \in Nat
    BY <1>1, <1>7, LimitsAssumption DEF SlotInv, TypeInv, TypeOK
  <2>4. \A s \in SemIds : s # t => sem'[s] = sem[s] BY <1>7 DEF SlotInv, TypeInv, TypeOK
  <2> QED BY <1>5, <2>2, <2>3, <2>4 DEF SlotInv, SlotAccounting
<1> QED BY <1>1, <1>6, <1>7

LEMMA SlotStep == SlotInv /\ [Next]_vars => SlotInv'
<1> SUFFICES ASSUME SlotInv, [Next]_vars PROVE SlotAccounting'
  BY NextType DEF SlotInv
<1>0. TypeInv BY DEF SlotInv
<1> USE SameHoldersSlots
<1>1. ASSUME NEW r \in Requests, ResolveFails(r) \/ RefreshFails(r) \/ BodyEnds(r)
      PROVE  SlotAccounting'
  <2>1. PICK q \in {Finished(req[r]), NextAttempt(req[r])} :
          req' = [req EXCEPT ![r] = q] /\ sem' = Released(r) /\ Holding(r)
    BY <1>1 DEF ResolveFails, RefreshFails, BodyEnds, Holding, HoldingSteps
  <2>2. q.pc \notin HoldingSteps
    <3>1. CASE q = Finished(req[r]) BY <3>1 DEF Finished, NewRequest, HoldingSteps
    <3>2. CASE q = NextAttempt(req[r])
      BY <3>2 DEF Finished, NextAttempt, NewRequest, HoldingSteps
    <3> QED BY <3>1, <3>2
  <2> QED BY <2>1, <2>2, ReleaseSlots
<1>2. ASSUME NEW r \in Requests, ClientGone(r) PROVE SlotAccounting'
  <2> DEFINE q == Finished(req[r])
  <2>1. q.pc \notin HoldingSteps BY DEF Finished, NewRequest, HoldingSteps
  <2>2. req' = [req EXCEPT ![r] = q] BY <1>2 DEF ClientGone
  <2> HIDE DEF q
  <2>3. CASE Holding(r) BY <1>2, <2>1, <2>2, <2>3, ReleaseSlots DEF ClientGone
  <2>4. CASE ~Holding(r)
    <3>1. SameHolders BY <1>0, <1>2, <2>1, <2>2, <2>4, SameHoldersStep DEF ClientGone, Holding
    <3> QED BY <3>1
  <2> QED BY <2>3, <2>4
<1>3. ASSUME NEW r \in Requests, CoolFails(r) \/ Invalidate(r) PROVE SlotAccounting'
  <2>1. AfterCooling(r) /\ Holding(r)
    BY <1>3 DEF CoolFails, Invalidate, Holding, HoldingSteps
  <2>2. CASE req[r].last
    BY <1>0, <2>1, <2>2, SameHoldersStep DEF HoldingSteps, TypeInv, TypeOK, Request, AfterCooling, Holding
  <2>3. CASE ~req[r].last BY <2>1, <2>3, ReleaseSlots DEF Finished, NextAttempt, NewRequest, HoldingSteps, AfterCooling
  <2> QED BY <2>2, <2>3
<1>4. ASSUME NEW r \in Requests, Advances(r) PROVE SlotAccounting'
  <2>1. PICK pc \in HoldingSteps, last \in BOOLEAN :
          req' = [req EXCEPT ![r] = [req[r] EXCEPT !.pc = pc, !.last = last]]
    BY <1>0, <1>4, MovesForm
  <2>2. sem' = sem
    BY <1>4 DEF Advances, RefreshToken, Succeeds, AnswersOther, AnswersRetryable, TransportFails,
                Cool, ClearError
  <2> DEFINE q == [req[r] EXCEPT !.pc = pc, !.last = last]
  <2>3. q.pc \in HoldingSteps /\ q.sem = req[r].sem BY <1>0 DEF TypeInv, TypeOK, Request
  <2>4. req' = [req EXCEPT ![r] = q] BY <2>1
  <2> HIDE DEF q
  <2>5. Holding(r) BY <1>0, <1>4, MovesForm
  <2>6. SameHolders BY <1>0, <2>2, <2>3, <2>4, <2>5, SameHoldersStep DEF Holding
  <2> QED BY <2>6
<1>9. ASSUME NEW r \in Requests, Resolve(r) PROVE SlotAccounting'
  BY <1>0, <1>9, SameHoldersStep DEF HoldingSteps, TypeInv, TypeOK, Request, Resolve
<1>5. ASSUME NEW r \in Requests, RowsCached(r) \/ RowsStore(r) PROVE SlotAccounting'
  <2>1. PICK rows : req' = [req EXCEPT ![r] = WithRows(req[r], rows)] /\ sem' = sem /\ ~Holding(r)
    BY <1>5 DEF RowsCached, RowsStore, Holding, HoldingSteps
  <2>2. WithRows(req[r], rows).pc = "level" BY <1>0 DEF WithRows, TypeInv, TypeOK, Request
  <2>3. SameHolders
    BY <1>0, <2>1, <2>2, SameHoldersStep DEF Holding, HoldingSteps
  <2> QED BY <2>3
<1>6. ASSUME NEW r \in Requests, Begin(r) \/ RowsLoad(r) \/ NoneAvailable(r) \/ NextLevel(r)
      PROVE  SlotAccounting'
  <2>1. sem' = sem /\ req[r].pc \notin HoldingSteps
    BY <1>6 DEF Begin, RowsLoad, NoneAvailable, NextLevel, HoldingSteps
  <2>2. PICK q : req' = [req EXCEPT ![r] = q] /\ q.pc \in {"rows", "done", "store", "try"}
    <3>1. CASE Begin(r)
      <4>1. PICK next \in {"rows", "done"} : req' = [req EXCEPT ![r].pc = next] BY <3>1 DEF Begin
      <4>2. req' = [req EXCEPT ![r] = [req[r] EXCEPT !.pc = next]] BY <1>0, <4>1 DEF TypeInv, TypeOK
      <4>3. [req[r] EXCEPT !.pc = next].pc = next BY <1>0 DEF TypeInv, TypeOK, Request
      <4> QED BY <4>2, <4>3
    <3>2. CASE RowsLoad(r)
      <4> DEFINE q == [req[r] EXCEPT !.pc = "store", !.rows = LoadedRows(GroupOf[r])]
      <4>1. req' = [req EXCEPT ![r] = q] BY <1>0, <3>2 DEF RowsLoad, TypeInv, TypeOK
      <4>2. q.pc = "store" BY <1>0 DEF TypeInv, TypeOK, Request
      <4> QED BY <4>1, <4>2
    <3>3. CASE NoneAvailable(r)
      <4> DEFINE q == [req[r] EXCEPT !.pc = "done"]
      <4>1. req' = [req EXCEPT ![r] = q] BY <1>0, <3>3 DEF NoneAvailable, TypeInv, TypeOK
      <4>2. q.pc = "done" BY <1>0 DEF TypeInv, TypeOK, Request
      <4> QED BY <4>1, <4>2
    <3>4. CASE NextLevel(r)
      <4> DEFINE level == FirstLevel(req[r].ahead)
      <4>1. PICK p \in {Priority[a] : a \in level} :
              req' = [req EXCEPT ![r].pc = "try", ![r].level = level, ![r].offset = 0,
                                 ![r].ahead = @ \ level,
                                 ![r].start = cursor[p] % Cardinality(level)]
        BY <3>4 DEF NextLevel
      <4> DEFINE q == [req[r] EXCEPT !.pc = "try", !.level = level, !.offset = 0,
                                     !.ahead = @ \ level,
                                     !.start = cursor[p] % Cardinality(level)]
      <4> HIDE DEF level
      <4>2. req' = [req EXCEPT ![r] = q] BY <1>0, <4>1 DEF TypeInv, TypeOK
      <4>3. q.pc = "try" BY <1>0 DEF TypeInv, TypeOK, Request
      <4> QED BY <4>2, <4>3
    <3> QED BY <1>6, <3>1, <3>2, <3>3, <3>4
  <2>3. q.pc \notin HoldingSteps BY <2>2 DEF HoldingSteps
  <2>4. SameHolders BY <1>0, <2>1, <2>2, <2>3, SameHoldersStep
  <2> QED BY <2>4
<1>7. ASSUME NEW r \in Requests, Busy(r) PROVE SlotAccounting'
  <2>1. Onwards(req[r]).pc \in {"try", "level"} BY <1>0 DEF Onwards, TypeInv, TypeOK, Request
  <2>2. SameHolders
    BY <1>0, <1>7, <2>1, SameHoldersStep DEF Busy, Holding, HoldingSteps
  <2> QED BY <2>2
<1>8. ASSUME \/ \E g \in Groups : SnapshotExpires(g)
             \/ \E a \in Accounts : CooldownPasses(a) \/ EditAccount(a)
             \/ EditInvalidates \/ EditDropped \/ UNCHANGED vars
      PROVE  SlotAccounting'
  <2>0. req' = req /\ sem' = sem
    BY <1>8 DEF SnapshotExpires, CooldownPasses, EditAccount, EditInvalidates, EditDropped, vars
  <2>1. SameHolders BY <2>0 DEF SameHolders, Holding
  <2> QED BY <2>1
<1> QED BY <1>1, <1>2, <1>3, <1>4, <1>5, <1>6, <1>7, <1>8, <1>9, AcquireSlots, LookUpSlots
       DEF Next, Selecting, Attempting, Upstream, Advances

LEMMA InitSlots == Init => SlotInv
<1> SUFFICES ASSUME Init PROVE SlotInv OBVIOUS
<1>1. ASSUME NEW s \in SemIds PROVE sem[s].limit = sem[s].free + Cardinality(Holders(s))
  <2>1. Holders(s) = {} BY DEF Init, Holders, Holding, HoldingSteps, NewRequest
  <2>2. Cardinality(Holders(s)) = 0 BY <2>1, FS_EmptySet
  <2>3. sem[s].limit = 0 /\ sem[s].free = 0 BY DEF Init
  <2> QED BY <2>2, <2>3
<1> QED BY <1>1, InitType DEF SlotInv, SlotAccounting

\* No permit is lost or returned twice, whatever the requests, the upstreams,
\* the clients and the administrators do.
THEOREM SlotsCorrect == Spec => []SlotAccounting
<1>1. SlotInv => SlotAccounting BY DEF SlotInv
<1> QED BY <1>1, InitSlots, SlotStep, PTL DEF Spec

-----------------------------------------------------------------------------
(* The limit of an account nobody has edited *)

\* Until the first edit every copy of a limit (snapshots, rows, semaphores) is
\* the account's, so an entry is never replaced and every permit in use comes
\* from the entry's semaphore.
Unedited ==
  /\ \A g \in Groups : snap[g] # NoRows =>
       \A a \in DOMAIN snap[g] : snap[g][a] = db[a].limit
  /\ \A r \in Requests : \A a \in DOMAIN req[r].rows : req[r].rows[a] = db[a].limit
  /\ \A a \in Accounts : entry[a] # NoSem => sem[entry[a]].limit = db[a].limit
  /\ \A r \in Requests : req[r].pc \in ReferringSteps => req[r].sem = entry[req[r].account]

LimitInv == edits = 0 => Unedited

\* The parts of a step that keeps Unedited, one record changed.
LEMMA UneditedStep ==
  ASSUME TypeInv, Unedited, NEW r \in Requests, NEW q, req' = [req EXCEPT ![r] = q],
         \A a \in Accounts : db'[a].limit = db[a].limit,
         \A s \in SemIds : sem'[s].limit = sem[s].limit,
         entry' = entry,
         \A g \in Groups : snap'[g] # NoRows =>
           snap'[g] = snap[g] \/ (snap'[g] = req[r].rows /\ DOMAIN req[r].rows \subseteq Accounts),
         DOMAIN q.rows \subseteq Accounts,
         \A a \in DOMAIN q.rows : q.rows[a] = db[a].limit,
         q.pc \in ReferringSteps => req[r].pc \in ReferringSteps
                                     /\ q.sem = req[r].sem /\ q.account = req[r].account
  PROVE  Unedited'
BY RowsFacts DEF TypeInv, TypeOK, Request, Unedited, ReferringSteps, HoldingSteps

LEMMA LookUpUnedited ==
  ASSUME TypeInv, Unedited, NEW r \in Requests, LookUp(r) PROVE Unedited'
<1>1. PICK a \in Accounts, t \in SemIds :
        /\ a \in DOMAIN req[r].rows /\ req[r].rows[a] \in Limits
        /\ entry' = [entry EXCEPT ![a] = t]
        /\ req' = [req EXCEPT ![r] = [req[r] EXCEPT !.pc = "acquire", !.account = a, !.sem = t,
                                                   !.seen = @ \cup {a}]]
        /\ \/ entry[a] = t /\ sem[t].limit = req[r].rows[a] /\ sem' = sem
           \/ /\ t \in Unreferenced
              /\ entry[a] = NoSem \/ sem[entry[a]].limit # req[r].rows[a]
              /\ sem' = [sem EXCEPT ![t] = [limit |-> req[r].rows[a], free |-> req[r].rows[a]]]
  BY LookUpChoice
<1> DEFINE q == [req[r] EXCEPT !.pc = "acquire", !.account = a, !.sem = t, !.seen = @ \cup {a}]
<1>2. q.rows = req[r].rows /\ q.sem = t /\ q.account = a /\ q.pc = "acquire"
  BY DEF TypeInv, TypeOK, Request
<1>3. req' = [req EXCEPT ![r] = q] BY <1>1
<1> HIDE DEF q
<1>4. \A x \in Requests : req'[x] = IF x = r THEN q ELSE req[x] BY <1>3 DEF TypeInv, TypeOK
<1>5. UNCHANGED <<db, snap>> BY DEF LookUp
<1>6. req[r].rows[a] = db[a].limit BY <1>1 DEF Unedited
<1>7. \/ entry[a] = t /\ sem' = sem
      \/ /\ t \in Unreferenced /\ entry[a] = NoSem
         /\ sem' = [sem EXCEPT ![t] = [limit |-> req[r].rows[a], free |-> req[r].rows[a]]]
  BY <1>1, <1>6 DEF Unedited
<1>8. \A x \in Requests : \A b \in DOMAIN req'[x].rows : req'[x].rows[b] = db'[b].limit
  BY <1>2, <1>4, <1>5 DEF Unedited
<1>9. \A b \in Accounts : entry'[b] # NoSem => sem'[entry'[b]].limit = db'[b].limit
  <2>1. ASSUME NEW b \in Accounts, entry'[b] # NoSem PROVE sem'[entry'[b]].limit = db[b].limit
    <3>1. entry'[b] = IF b = a THEN t ELSE entry[b] BY <1>1 DEF TypeInv, TypeOK
    <3>2. CASE entry[a] = t /\ sem' = sem
      BY <2>1, <3>1, <3>2 DEF Unedited
    <3>3. CASE /\ t \in Unreferenced /\ entry[a] = NoSem
               /\ sem' = [sem EXCEPT ![t] = [limit |-> req[r].rows[a], free |-> req[r].rows[a]]]
      <4>1. sem'[t].limit = db[a].limit BY <1>6, <3>3 DEF TypeInv, TypeOK
      <4>2. b # a => entry[b] # t BY <3>3 DEF Unreferenced
      <4>3. \A s \in SemIds : s # t => sem'[s] = sem[s] BY <3>3 DEF TypeInv, TypeOK
      <4>4. entry[b] \in SemIds \cup {NoSem} BY DEF TypeInv, TypeOK
      <4>5. CASE b = a BY <3>1, <4>1, <4>5
      <4>6. CASE b # a
        <5>1. entry'[b] = entry[b] /\ entry[b] \in SemIds /\ entry[b] # t
          BY <2>1, <3>1, <4>2, <4>4, <4>6
        <5>2. sem'[entry[b]] = sem[entry[b]] BY <5>1, <4>3
        <5>3. sem[entry[b]].limit = db[b].limit BY <2>1, <5>1 DEF Unedited
        <5> QED BY <5>1, <5>2, <5>3
      <4> QED BY <4>5, <4>6
    <3> QED BY <1>7, <3>2, <3>3
  <2> QED BY <1>5, <2>1
<1>10. \A x \in Requests : req'[x].pc \in ReferringSteps => req'[x].sem = entry'[req'[x].account]
  <2>1. ASSUME NEW x \in Requests, x # r, req[x].pc \in ReferringSteps
        PROVE  req[x].sem = entry'[req[x].account]
    BY <2>1, <1>7, SemIdsAssumption, <1>1 DEF Unedited, TypeInv, ReqOK, NoSem, TypeOK
  <2>2. q.sem = entry'[q.account] BY <1>1, <1>2 DEF TypeInv, TypeOK
  <2> QED BY <1>4, <2>1, <2>2
<1> QED BY <1>5, <1>8, <1>9, <1>10 DEF Unedited, ReferringSteps, HoldingSteps

\* No step but an edit changes a limit in the table.
LEMMA LimitsKept ==
  ASSUME TypeInv, NEW r \in Requests,
         Begin(r) \/ Selecting(r) \/ Attempting(r) \/ Upstream(r) \/ ClientGone(r)
  PROVE  /\ edits' = edits
         /\ \A a \in Accounts : db'[a].limit = db[a].limit
<1>1. db' = db \/ \E c \in BOOLEAN : db' = [db EXCEPT ![req[r].account].cooling = c]
  BY ZenonT(60) DEF Begin, Selecting, Attempting, Upstream, ClientGone, RowsCached, RowsLoad, RowsStore,
     NextLevel, NoneAvailable, LookUp, Acquire, Busy, Resolve, ResolveFails, RefreshToken,
     RefreshFails, Cool, CoolFails, Invalidate, ClearError, Succeeds, AnswersRetryable,
     AnswersOther, TransportFails, BodyEnds
<1>2. edits' = edits
  BY DEF Begin, Selecting, Attempting, Upstream, ClientGone, RowsCached, RowsLoad, RowsStore,
     NextLevel, NoneAvailable, LookUp, Acquire, Busy, Resolve, ResolveFails, RefreshToken,
     RefreshFails, Cool, CoolFails, Invalidate, ClearError, Succeeds, AnswersRetryable,
     AnswersOther, TransportFails, BodyEnds
<1>3. ASSUME NEW c \in BOOLEAN, db' = [db EXCEPT ![req[r].account].cooling = c], NEW a \in Accounts
      PROVE  db'[a].limit = db[a].limit
  BY <1>3 DEF TypeInv, TypeOK
<1> QED BY <1>1, <1>2, <1>3

\* Giving back or taking a permit does not change the semaphore's limit.
LEMMA SemLimitsKept ==
  ASSUME TypeInv, NEW r \in Requests, sem' = sem \/ sem' = Released(r) \/ Acquire(r)
  PROVE  \A s \in SemIds : sem'[s].limit = sem[s].limit
<1> DEFINE t == req[r].sem
<1>1. \/ sem' = sem \/ sem' = [sem EXCEPT ![t].free = @ + 1]
      \/ sem' = [sem EXCEPT ![t].free = @ - 1]
  BY DEF Released, Acquire
<1> HIDE DEF t
<1>2. ASSUME NEW s \in SemIds PROVE sem'[s].limit = sem[s].limit BY <1>1 DEF TypeInv, TypeOK
<1> QED BY <1>2

LEMMA LeaveUnedited ==
  ASSUME TypeInv, Unedited, NEW r \in Requests, NEW q \in {Finished(req[r]), NextAttempt(req[r])},
         req' = [req EXCEPT ![r] = q], sem' = sem \/ sem' = Released(r), entry' = entry,
         \A g \in Groups : snap'[g] # NoRows => snap'[g] = snap[g],
         \A a \in Accounts : db'[a].limit = db[a].limit
  PROVE  Unedited'
<1>1. q.rows = None /\ q.pc \notin ReferringSteps
  <2>1. CASE q = Finished(req[r])
    BY <2>1 DEF Finished, NewRequest, ReferringSteps, HoldingSteps
  <2>2. CASE q = NextAttempt(req[r])
    BY <2>2, SMTT(30) DEF Finished, NextAttempt, NewRequest, ReferringSteps, HoldingSteps
  <2> QED BY <2>1, <2>2
<1>2. DOMAIN q.rows = {} BY <1>1, NoneIsRows
<1> QED BY <1>1, <1>2, UneditedStep, SemLimitsKept

LEMMA AttemptUnedited ==
  ASSUME TypeInv, Unedited, NEW r \in Requests, Attempting(r) \/ Upstream(r) \/ ClientGone(r)
  PROVE  Unedited'
<1>1. \A a \in Accounts : db'[a].limit = db[a].limit BY LimitsKept
<1>2. req[r] \in Request /\ DOMAIN req[r].rows \subseteq Accounts
      /\ \A a \in DOMAIN req[r].rows : req[r].rows[a] = db[a].limit
  BY RowsFacts DEF TypeInv, TypeOK, Request, Unedited
<1>3. ASSUME Advances(r) PROVE Unedited'
  <2>1. PICK pc \in HoldingSteps, last \in BOOLEAN :
          req' = [req EXCEPT ![r] = [req[r] EXCEPT !.pc = pc, !.last = last]]
    BY <1>3, MovesForm
  <2> DEFINE q == [req[r] EXCEPT !.pc = pc, !.last = last]
  <2>2. q.rows = req[r].rows /\ q.sem = req[r].sem /\ q.account = req[r].account
    BY <1>2 DEF Request
  <2>3. req' = [req EXCEPT ![r] = q] BY <2>1
  <2> HIDE DEF q
  <2>4. req[r].pc \in ReferringSteps BY <1>3, MovesForm DEF Holding, ReferringSteps
  <2>5. UNCHANGED <<sem, entry, snap>>
    BY <1>3 DEF Advances, RefreshToken, Succeeds, AnswersOther, AnswersRetryable, TransportFails,
                Cool, ClearError
  <2> QED BY <1>1, <1>2, <2>2, <2>3, <2>4, <2>5, UneditedStep
<1>4. ASSUME Resolve(r) PROVE Unedited'
  BY <1>2, <1>4, <1>1, UneditedStep DEF Request, Resolve, TypeInv, TypeOK, ReferringSteps, HoldingSteps
<1>5. ASSUME CoolFails(r) \/ Invalidate(r), req[r].last PROVE Unedited'
  <2> DEFINE q == [req[r] EXCEPT !.pc = "respond"]
  <2>1. q.rows = req[r].rows /\ q.sem = req[r].sem /\ q.account = req[r].account
    BY <1>2 DEF Request
  <2>2. req' = [req EXCEPT ![r] = q]
    BY <1>5 DEF CoolFails, Invalidate, AfterCooling, TypeInv, TypeOK
  <2> HIDE DEF q
  <2>3. req[r].pc \in ReferringSteps
    BY <1>5 DEF CoolFails, Invalidate, ReferringSteps, HoldingSteps
  <2>4. UNCHANGED <<sem, entry>> BY <1>5 DEF CoolFails, Invalidate, AfterCooling
  <2>5. \A g \in Groups : snap'[g] # NoRows => snap'[g] = snap[g]
    BY <1>5 DEF CoolFails, Invalidate
  <2> QED BY <1>1, <1>2, <2>1, <2>2, <2>3, <2>4, <2>5, UneditedStep
<1>6. ASSUME CoolFails(r) \/ Invalidate(r), ~req[r].last PROVE Unedited'
  BY <1>6, <1>1, LeaveUnedited DEF CoolFails, Invalidate, AfterCooling
<1>7. ASSUME ResolveFails(r) \/ RefreshFails(r) \/ BodyEnds(r) \/ ClientGone(r) PROVE Unedited'
  BY <1>7, <1>1, LeaveUnedited DEF ResolveFails, RefreshFails, BodyEnds, ClientGone
<1> QED BY <1>3, <1>4, <1>5, <1>6, <1>7 DEF Attempting, Upstream, Advances

LEMMA SelectUnedited ==
  ASSUME TypeInv, Unedited, NEW r \in Requests, Begin(r) \/ Selecting(r)
  PROVE  Unedited'
<1>1. \A a \in Accounts : db'[a].limit = db[a].limit BY LimitsKept
<1>2. req[r] \in Request /\ DOMAIN req[r].rows \subseteq Accounts
      /\ \A a \in DOMAIN req[r].rows : req[r].rows[a] = db[a].limit
  BY RowsFacts DEF TypeInv, TypeOK, Request, Unedited
<1>3. ASSUME Begin(r) PROVE Unedited'
  <2>1. PICK next \in {"rows", "done"} : req' = [req EXCEPT ![r].pc = next] BY <1>3 DEF Begin
  <2> DEFINE q == [req[r] EXCEPT !.pc = next]
  <2>2. q.rows = req[r].rows /\ q.pc \notin ReferringSteps
    BY <1>2 DEF Request, ReferringSteps, HoldingSteps
  <2>3. req' = [req EXCEPT ![r] = q] BY <2>1 DEF TypeInv, TypeOK
  <2> HIDE DEF q
  <2>4. UNCHANGED <<sem, entry, snap>> BY <1>3 DEF Begin
  <2> QED BY <1>1, <1>2, <2>2, <2>3, <2>4, UneditedStep
<1>4. ASSUME RowsCached(r) PROVE Unedited'
  <2> DEFINE rows == snap[GroupOf[r]]
             q == WithRows(req[r], rows)
  <2>1. q.rows = rows /\ q.pc = "level" BY <1>2 DEF WithRows, Request
  <2>2. req' = [req EXCEPT ![r] = q] BY <1>4 DEF RowsCached
  <2>3. DOMAIN rows \subseteq Accounts /\ \A a \in DOMAIN rows : rows[a] = db[a].limit
    BY <1>4, RowsFacts, GroupOfAssumption DEF RowsCached, Unedited, TypeInv, TypeOK
  <2> HIDE DEF q, rows
  <2>4. UNCHANGED <<sem, entry, snap>> BY <1>4 DEF RowsCached
  <2>5. q.pc \notin ReferringSteps BY <2>1 DEF ReferringSteps, HoldingSteps
  <2> QED BY <1>1, <1>2, <2>1, <2>2, <2>3, <2>4, <2>5, UneditedStep
<1>5. ASSUME RowsLoad(r) PROVE Unedited'
  <2> DEFINE rows == LoadedRows(GroupOf[r])
             q == [req[r] EXCEPT !.pc = "store", !.rows = rows]
  <2>1. DOMAIN rows \subseteq Accounts /\ \A a \in DOMAIN rows : rows[a] = db[a].limit
    BY GroupOfAssumption, MemberAssumption DEF LoadedRows, Selectable
  <2> HIDE DEF rows
  <2>2. q.rows = rows /\ q.pc \notin ReferringSteps
    BY <1>2 DEF Request, ReferringSteps, HoldingSteps
  <2>3. req' = [req EXCEPT ![r] = q] BY <1>5 DEF RowsLoad, TypeInv, TypeOK, rows
  <2> HIDE DEF q
  <2>4. UNCHANGED <<sem, entry, snap>> BY <1>5 DEF RowsLoad
  <2> QED BY <1>1, <1>2, <2>1, <2>2, <2>3, <2>4, UneditedStep
<1>6. ASSUME RowsStore(r) PROVE Unedited'
  <2> DEFINE q == WithRows(req[r], req[r].rows)
  <2>1. q.rows = req[r].rows /\ q.pc = "level" BY <1>2 DEF WithRows, Request
  <2>2. req' = [req EXCEPT ![r] = q] BY <1>6 DEF RowsStore
  <2> HIDE DEF q
  <2>3. UNCHANGED <<sem, entry>> BY <1>6 DEF RowsStore
  <2>4. \A g \in Groups : snap'[g] = snap[g] \/ snap'[g] = req[r].rows
    BY <1>6 DEF RowsStore, TypeInv, TypeOK
  <2>5. q.pc \notin ReferringSteps BY <2>1 DEF ReferringSteps, HoldingSteps
  <2> QED BY <1>1, <1>2, <2>1, <2>2, <2>3, <2>4, <2>5, UneditedStep
<1>7. ASSUME NextLevel(r) PROVE Unedited'
  <2> DEFINE level == FirstLevel(req[r].ahead)
  <2>1. PICK p \in {Priority[a] : a \in level} :
          req' = [req EXCEPT ![r].pc = "try", ![r].level = level, ![r].offset = 0,
                             ![r].ahead = @ \ level,
                             ![r].start = cursor[p] % Cardinality(level)]
    BY <1>7 DEF NextLevel
  <2> DEFINE q == [req[r] EXCEPT !.pc = "try", !.level = level, !.offset = 0,
                                 !.ahead = @ \ level,
                                 !.start = cursor[p] % Cardinality(level)]
  <2> HIDE DEF level
  <2>2. q.rows = req[r].rows /\ q.pc \notin ReferringSteps
    BY <1>2 DEF Request, ReferringSteps, HoldingSteps
  <2>3. req' = [req EXCEPT ![r] = q] BY <2>1 DEF TypeInv, TypeOK
  <2> HIDE DEF q
  <2>4. UNCHANGED <<sem, entry, snap>> BY <1>7 DEF NextLevel
  <2> QED BY <1>1, <1>2, <2>2, <2>3, <2>4, UneditedStep
<1>8. ASSUME NoneAvailable(r) PROVE Unedited'
  BY <1>2, <1>8, <1>1, UneditedStep DEF Request, ReferringSteps, HoldingSteps, NoneAvailable, TypeInv, TypeOK
<1>9. ASSUME Acquire(r) PROVE Unedited'
  BY <1>2, <1>9, <1>1, UneditedStep, SemLimitsKept DEF Request, Acquire, TypeInv, TypeOK, ReferringSteps
<1>10. ASSUME Busy(r) PROVE Unedited'
  <2> DEFINE q == Onwards(req[r])
  <2>1. q.rows = req[r].rows /\ q.pc \in {"try", "level"}
    BY <1>2 DEF Onwards, Request
  <2>2. req' = [req EXCEPT ![r] = q] BY <1>10 DEF Busy
  <2> HIDE DEF q
  <2>3. q.pc \notin ReferringSteps BY <2>1 DEF ReferringSteps, HoldingSteps
  <2>4. UNCHANGED <<sem, entry, snap>> BY <1>10 DEF Busy
  <2> QED BY <1>1, <1>2, <2>1, <2>2, <2>3, <2>4, UneditedStep
<1> QED BY <1>3, <1>4, <1>5, <1>6, <1>7, <1>8, <1>9, <1>10, LookUpUnedited DEF Selecting

LEMMA LimitStep == TypeInv /\ LimitInv /\ [Next]_vars => LimitInv'
<1> SUFFICES ASSUME TypeInv, LimitInv, [Next]_vars, edits' = 0 PROVE Unedited'
  BY DEF LimitInv
<1>1. ASSUME NEW r \in Requests,
             Begin(r) \/ Selecting(r) \/ Attempting(r) \/ Upstream(r) \/ ClientGone(r)
      PROVE  Unedited'
  BY <1>1, LimitsKept, SelectUnedited, AttemptUnedited DEF LimitInv
<1>2. ASSUME NEW a \in Accounts, EditAccount(a) PROVE FALSE
  BY <1>2, BoundsAssumption DEF EditAccount, TypeInv, TypeOK
<1>3. ASSUME \/ \E g \in Groups : SnapshotExpires(g)
             \/ \E a \in Accounts : CooldownPasses(a)
             \/ EditInvalidates \/ EditDropped \/ UNCHANGED vars
      PROVE  Unedited'
  <2>1. edits = 0 /\ UNCHANGED <<req, sem, entry>>
    BY <1>3 DEF SnapshotExpires, CooldownPasses, EditInvalidates, EditDropped, vars
  <2>2. \A g \in Groups : snap'[g] # NoRows => snap'[g] = snap[g]
    BY <1>3 DEF SnapshotExpires, CooldownPasses, EditInvalidates, EditDropped, vars, TypeInv, TypeOK
  <2>3. \A a \in Accounts : db'[a].limit = db[a].limit
    <3>1. ASSUME NEW b \in Accounts, CooldownPasses(b), NEW a \in Accounts
          PROVE  db'[a].limit = db[a].limit
      BY <3>1 DEF CooldownPasses, TypeInv, TypeOK
    <3>2. db' = db \/ \E b \in Accounts : CooldownPasses(b)
      BY <1>3 DEF SnapshotExpires, EditInvalidates, EditDropped, vars
    <3> QED BY <3>1, <3>2
  <2>4. \A g \in Groups : snap[g] # NoRows => DOMAIN snap[g] \subseteq Accounts
    BY RowsFacts DEF TypeInv, TypeOK
  <2>5. \A x \in Requests : DOMAIN req[x].rows \subseteq Accounts
    BY RowsFacts DEF TypeInv, TypeOK, Request
  <2>6. Unedited BY <2>1 DEF LimitInv
  <2> QED BY <2>1, <2>2, <2>3, <2>4, <2>5, <2>6 DEF Unedited, ReferringSteps, HoldingSteps
<1> QED BY <1>1, <1>2, <1>3 DEF Next

\* An account serves at most as many requests at once, streams included, as
\* its concurrency, as long as no administrator has edited an account.
THEOREM LimitCorrect == Spec => []WithinLimit
<1>1. Init => LimitInv
  BY NoneIsRows DEF Init, LimitInv, Unedited, NewRequest, ReferringSteps, HoldingSteps
<1>2. SlotInv /\ LimitInv => WithinLimit
  <2> SUFFICES ASSUME SlotInv, Unedited, NEW a \in Accounts
               PROVE  Cardinality(InFlight(a)) <= db[a].limit
    BY DEF LimitInv, WithinLimit
  <2> DEFINE s == entry[a]
  <2>1. db[a].limit \in Nat BY LimitsAssumption DEF SlotInv, TypeInv, TypeOK
  <2>2. \A r \in InFlight(a) : r \in Holders(s) /\ s \in SemIds
    BY DEF InFlight, Holders, Holding, Unedited, ReferringSteps, SlotInv, TypeInv, ReqOK
  <2>3. CASE InFlight(a) = {} BY <2>1, <2>3, FS_EmptySet
  <2>4. CASE InFlight(a) # {}
    <3>1. s \in SemIds /\ InFlight(a) \subseteq Holders(s) BY <2>2, <2>4
    <3>2. Cardinality(InFlight(a)) <= Cardinality(Holders(s)) /\ Cardinality(InFlight(a)) \in Nat
      BY <3>1, HoldersFinite, FS_Subset, FS_CardinalityType
    <3>3. s # NoSem BY <3>1, SemIdsAssumption DEF NoSem
    <3>4. sem[s].limit = db[a].limit BY <3>3 DEF Unedited
    <3>5. sem[s].limit = sem[s].free + Cardinality(Holders(s)) /\ sem[s].free \in Nat
      BY <3>1 DEF SlotInv, SlotAccounting, TypeInv, TypeOK
    <3>6. Cardinality(Holders(s)) \in Nat BY HoldersFinite
    <3> QED BY <2>1, <3>2, <3>4, <3>5, <3>6
  <2> QED BY <2>3, <2>4
<1>3. SlotInv => TypeInv BY DEF SlotInv
<1> QED BY <1>1, <1>2, <1>3, InitSlots, SlotStep, LimitStep, PTL DEF Spec

-----------------------------------------------------------------------------
(* The order of a selection *)

\* The accounts a selection may choose from.
Candidates(q) == DOMAIN q.rows \ q.tried

\* In a level of which n places have been looked at: the levels before it have
\* been looked at, those after it have larger priorities, and so have its
\* first n places in the order of the rotation.
Turn(q, n) ==
  /\ q.start < Cardinality(q.level)
  /\ q.seen \subseteq Candidates(q) \ q.ahead
  /\ Candidates(q) \ (q.ahead \cup q.level) \subseteq q.seen
  /\ \A i \in Nat, a \in q.level :
       (i < n /\ Position(a, q.level) = (q.start + i) % Cardinality(q.level)) => a \in q.seen
  /\ \A a \in q.level, b \in q.ahead : Priority[a] < Priority[b]
  /\ \A a, b \in q.level : Priority[a] = Priority[b]

InOrder(q) ==
  /\ q.pc = "level" => q.seen = Candidates(q) \ q.ahead
  /\ q.pc = "try" => Turn(q, q.offset)
  /\ q.pc = "acquire" => Turn(q, q.offset + 1) /\ q.account \in q.level

SelectInv == TypeInv /\ \A r \in Requests : InOrder(req[r])

\* Of two accounts of a level the smaller has the smaller place, and there are
\* no more places than accounts.
LEMMA Places ==
  ASSUME NEW S, S \subseteq Accounts, NEW a \in S
  PROVE  /\ Position(a, S) \in Nat /\ Position(a, S) < Cardinality(S) /\ Cardinality(S) \in Nat
         /\ \A b \in S : Position(a, S) = Position(b, S) => a = b
<1> DEFINE Below(x) == {c \in S : c < x}
<1>1. IsFiniteSet(S) /\ Cardinality(S) \in Nat BY LevelSize
<1>2. ASSUME NEW x \in S
      PROVE  IsFiniteSet(Below(x)) /\ Cardinality(Below(x)) \in Nat
  BY <1>1, FS_Subset, FS_CardinalityType
<1>3. ASSUME NEW x \in S, NEW y \in S, x < y
      PROVE  Cardinality(Below(x)) # Cardinality(Below(y))
  <2>1. x \in Nat /\ y \in Nat BY AccountsAssumption
  <2>2. Below(x) \subseteq Below(y) /\ x \in Below(y) /\ x \notin Below(x)
    <3>1. \A c \in S : c \in Nat BY AccountsAssumption
    <3>2. \A c \in S : c < x => c < y BY <1>3, <2>1, <3>1
    <3>3. ~(x < x) BY <2>1
    <3> QED BY <1>3, <3>2, <3>3
  <2> HIDE DEF Below
  <2> QED BY <1>2, <2>2, FS_Subset
<1>4. Cardinality(Below(a)) < Cardinality(S) BY AccountsAssumption, <1>2, <1>1, FS_Subset
<1>5. \A b \in S : Cardinality(Below(a)) = Cardinality(Below(b)) => a = b
  <2> TAKE b \in S
  <2>1. a \in Nat /\ b \in Nat BY AccountsAssumption
  <2>2. a < b \/ b < a \/ a = b BY <2>1
  <2> HIDE DEF Below
  <2> QED BY <1>3, <2>2
<1>6. \A x : Position(x, S) = Cardinality(Below(x)) BY DEF Position
<1> HIDE DEF Below
<1> QED BY <1>1, <1>2, <1>4, <1>5, <1>6

\* A rotation of n steps comes to every one of n places.
LEMMA Rotation ==
  ASSUME NEW n \in Nat, NEW s \in Nat, NEW p \in Nat, s < n, p < n
  PROVE  \E i \in Nat : i < n /\ p = (s + i) % n
<1>1. p % n = p OBVIOUS
<1>2. (p + n) % n = p OBVIOUS
<1>3. CASE s <= p BY <1>3, <1>1
<1>4. CASE p < s
  <2>1. p + n - s \in Nat /\ p + n - s < n /\ s + (p + n - s) = p + n BY <1>4
  <2> QED BY <1>2, <2>1
<1> QED BY <1>3, <1>4

\* One request's record changes, and is in order.
LEMMA OrderFrame ==
  ASSUME SelectInv, NEW r \in Requests, NEW q, req' = [req EXCEPT ![r] = q], InOrder(q)
  PROVE  \A x \in Requests : InOrder(req[x])'
<1>1. \A x \in Requests : InOrder(req'[x])
  BY DEF SelectInv, TypeInv, TypeOK
<1> QED BY <1>1 DEF InOrder, Turn, Candidates, Position

\* Outside the selection nothing is asked.
LEMMA NotSelecting ==
  ASSUME NEW q, q.pc \notin {"level", "try", "acquire"}
  PROVE  InOrder(q)
BY DEF InOrder

\* A selection starts with every candidate ahead of it.
LEMMA WithRowsInOrder ==
  ASSUME NEW q \in Request, NEW rows \in Rows
  PROVE  InOrder(WithRows(q, rows))
BY DEF WithRows, Request, InOrder, Candidates

\* The first priority of what is ahead becomes the level.
LEMMA NextLevelInOrder ==
  ASSUME SelectInv, NEW r \in Requests, NextLevel(r)
  PROVE  \A x \in Requests : InOrder(req[x])'
<1> DEFINE level == FirstLevel(req[r].ahead)
           size == Cardinality(level)
<1>1. PICK p \in {Priority[a] : a \in level} :
        req' = [req EXCEPT ![r].pc = "try", ![r].level = level, ![r].offset = 0,
                           ![r].ahead = @ \ level, ![r].start = cursor[p] % size]
  BY DEF NextLevel
<1>2. req[r] \in Request /\ InOrder(req[r]) /\ req[r].pc = "level" /\ req[r].ahead \subseteq Accounts
  BY DEF SelectInv, TypeInv, TypeOK, NextLevel, Request
<1>3. level \subseteq req[r].ahead BY DEF FirstLevel
<1>4. size \in Nat \ {0} BY <1>2, <1>3, LevelSize DEF NextLevel
<1>5. cursor[p] \in Nat BY <1>1, <1>2, <1>3 DEF SelectInv, TypeInv, TypeOK
<1>6. /\ \A a \in level, b \in req[r].ahead \ level : Priority[a] < Priority[b]
      /\ \A a, b \in level : Priority[a] = Priority[b]
  BY <1>2, PriorityAssumption DEF FirstLevel
<1> HIDE DEF level, size
<1>7. cursor[p] % size \in Nat /\ cursor[p] % size < size BY <1>4, <1>5
<1> DEFINE q == [req[r] EXCEPT !.pc = "try", !.level = level, !.offset = 0,
                               !.ahead = @ \ level, !.start = cursor[p] % size]
<1>8. req' = [req EXCEPT ![r] = q] BY <1>1 DEF SelectInv, TypeInv, TypeOK
<1>9. /\ q.pc = "try" /\ q.level = level /\ q.offset = 0 /\ q.ahead = req[r].ahead \ level
      /\ q.start = cursor[p] % size /\ q.seen = req[r].seen /\ Candidates(q) = Candidates(req[r])
  BY <1>2 DEF Request, Candidates
<1> HIDE DEF q
<1>10. req[r].seen = Candidates(req[r]) \ req[r].ahead BY <1>2 DEF InOrder
<1>11. Turn(q, 0) BY <1>3, <1>9, <1>10, <1>7, <1>6 DEF size, Turn
<1> QED BY <1>8, <1>9, <1>11, OrderFrame DEF InOrder

\* The account at the current place is looked at.
LEMMA LookUpInOrder ==
  ASSUME SelectInv, NEW r \in Requests, LookUp(r)
  PROVE  \A x \in Requests : InOrder(req[x])'
<1>0. PICK a \in AtPlace(req[r]) :
        \E s : req' = [req EXCEPT ![r].pc = "acquire", ![r].account = a, ![r].sem = s, ![r].seen = @ \cup {a}]
  BY DEF LookUp
<1>1. PICK s :
        req' = [req EXCEPT ![r].pc = "acquire", ![r].account = a, ![r].sem = s, ![r].seen = @ \cup {a}]
  BY <1>0
<1>2. /\ req[r] \in Request /\ ReqOK(r, req[r]) /\ req[r].pc = "try" /\ Turn(req[r], req[r].offset)
      /\ req[r].level \subseteq Accounts /\ req[r].offset \in Nat
  BY DEF SelectInv, TypeInv, TypeOK, InOrder, LookUp, Request
<1>3. a \in req[r].level /\ Position(a, req[r].level) = (req[r].start + req[r].offset) % Cardinality(req[r].level)
  BY DEF AtPlace
<1>4. a \in Candidates(req[r])
  BY <1>2, <1>3 DEF ReqOK, SelectingSteps, Candidates
<1>5. a \notin req[r].ahead BY <1>2, <1>3, PriorityAssumption DEF Turn
<1> DEFINE q == [req[r] EXCEPT !.pc = "acquire", !.account = a, !.sem = s, !.seen = @ \cup {a}]
<1>6. req' = [req EXCEPT ![r] = q] BY <1>1 DEF SelectInv, TypeInv, TypeOK
<1>7. /\ q.pc = "acquire" /\ q.account = a /\ q.seen = req[r].seen \cup {a} /\ q.level = req[r].level
      /\ q.ahead = req[r].ahead /\ q.start = req[r].start /\ q.offset = req[r].offset
      /\ Candidates(q) = Candidates(req[r])
  BY <1>2 DEF Request, Candidates
<1> HIDE DEF q
<1>8. ASSUME NEW i \in Nat, NEW b \in q.level, i < q.offset + 1,
             Position(b, q.level) = (q.start + i) % Cardinality(q.level)
      PROVE  b \in q.seen
  <2>1. CASE i = q.offset
    <3>1. Position(b, q.level) = Position(a, q.level) BY <1>3, <1>7, <1>8, <2>1
    <3>2. a = b BY <1>2, <1>3, <1>7, <1>8, <3>1, Places
    <3> QED BY <1>7, <3>2
  <2>2. CASE i < q.offset
    BY <1>2, <1>7, <1>8, <2>2 DEF Turn
  <2> QED BY <1>2, <1>7, <1>8, <2>1, <2>2
<1>9. Turn(q, q.offset + 1) BY <1>2, <1>4, <1>5, <1>7, <1>8 DEF Turn
<1> QED BY <1>3, <1>6, <1>7, <1>9, OrderFrame DEF InOrder

\* When the rotation has come round, the whole level has been looked at.
LEMMA BusyInOrder ==
  ASSUME SelectInv, NEW r \in Requests, Busy(r)
  PROVE  \A x \in Requests : InOrder(req[x])'
<1> DEFINE q == Onwards(req[r])
           size == Cardinality(req[r].level)
<1>1. /\ req[r] \in Request /\ Turn(req[r], req[r].offset + 1) /\ req[r].account \in req[r].level
      /\ req[r].level \subseteq Accounts /\ req[r].offset \in Nat /\ req[r].start \in Nat
  BY DEF SelectInv, TypeInv, TypeOK, InOrder, Busy, Request
<1>2. /\ q.seen = req[r].seen /\ q.level = req[r].level /\ q.ahead = req[r].ahead
      /\ q.start = req[r].start /\ q.offset = req[r].offset + 1 /\ Candidates(q) = Candidates(req[r])
      /\ q.pc = IF req[r].offset + 1 < size THEN "try" ELSE "level"
  BY <1>1 DEF Onwards, Request, Candidates
<1>3. req' = [req EXCEPT ![r] = q] BY DEF Busy
<1> HIDE DEF q
<1>4. Turn(q, q.offset) BY <1>1, <1>2 DEF Turn
<1>5. ASSUME ~(req[r].offset + 1 < size) PROVE q.seen = Candidates(q) \ q.ahead
  <2>1. size \in Nat BY <1>1, LevelSize
  <2>2. ASSUME NEW a \in req[r].level PROVE a \in req[r].seen
    <3>1. Position(a, req[r].level) \in Nat /\ Position(a, req[r].level) < size BY <1>1, Places
    <3>2. req[r].start < size BY <1>1 DEF Turn
    <3> HIDE DEF size
    <3>3. PICK i \in Nat : i < size /\ Position(a, req[r].level) = (req[r].start + i) % size
      BY <1>1, <2>1, <3>1, <3>2, Rotation
    <3>4. i < req[r].offset + 1 BY <1>1, <1>5, <2>1, <3>3
    <3> QED BY <1>1, <3>3, <3>4 DEF Turn, size
  <2>3. req[r].level \subseteq req[r].seen BY <2>2
  <2> QED BY <1>1, <1>2, <2>3 DEF Turn
<1> QED BY <1>2, <1>3, <1>4, <1>5, OrderFrame DEF InOrder

\* Every other step of a request leaves the selection.
LEMMA OthersInOrder ==
  ASSUME SelectInv, NEW r \in Requests,
         Begin(r) \/ RowsLoad(r) \/ NoneAvailable(r) \/ Acquire(r) \/ Attempting(r) \/ Upstream(r) \/ ClientGone(r)
  PROVE  \A x \in Requests : InOrder(req[x])'
<1> SUFFICES \E q : req' = [req EXCEPT ![r] = q] /\ q.pc \notin {"level", "try", "acquire"}
  BY OrderFrame, NotSelecting
<1>0. TypeInv /\ req[r] \in Request BY DEF SelectInv, TypeInv, TypeOK
<1>1. /\ Finished(req[r]).pc = "done"
      /\ NextAttempt(req[r]).pc \in {"rows", "done"}
  BY DEF Finished, NextAttempt, NewRequest
<1>2. \A pc \in Steps : \A l : [req[r] EXCEPT !.pc = pc].pc = pc /\ [req[r] EXCEPT !.pc = pc, !.last = l].pc = pc
  BY <1>0 DEF Request
<1>3. CASE Begin(r) \/ NoneAvailable(r) \/ Acquire(r)
  <2>1. \E pc \in {"rows", "done", "resolve"} : req' = [req EXCEPT ![r] = [req[r] EXCEPT !.pc = pc]]
    BY <1>3 DEF Begin, NoneAvailable, Acquire
  <2> QED BY <1>2, <2>1 DEF Steps, HoldingSteps
<1>4. CASE RowsLoad(r)
  <2> DEFINE q == [req[r] EXCEPT !.pc = "store", !.rows = LoadedRows(GroupOf[r])]
  <2>1. req' = [req EXCEPT ![r] = q] BY <1>0, <1>4 DEF RowsLoad, TypeInv, TypeOK
  <2>2. q.pc = "store" BY <1>0 DEF Request
  <2> HIDE DEF q
  <2> QED BY <2>1, <2>2
<1>5. CASE Resolve(r)
  <2> DEFINE q == [req[r] EXCEPT !.pc = "refresh", !.attempt = @ + 1, !.tried = @ \cup {req[r].account}]
  <2>1. req' = [req EXCEPT ![r] = q] BY <1>0, <1>5 DEF Resolve, TypeInv, TypeOK
  <2>2. q.pc = "refresh" BY <1>0 DEF Request
  <2> HIDE DEF q
  <2> QED BY <2>1, <2>2
<1>6. CASE Advances(r)
  <2>1. PICK pc \in HoldingSteps \ {"resolve"}, last \in BOOLEAN :
          req' = [req EXCEPT ![r] = [@ EXCEPT !.pc = pc, !.last = last]]
    BY <1>0, <1>6, MovesForm
  <2>2. pc \in Steps \ {"level", "try", "acquire"} BY DEF Steps, HoldingSteps
  <2> QED BY ZenonT(60), <1>2, <2>1, <2>2
<1>7. CASE ResolveFails(r) \/ RefreshFails(r) \/ BodyEnds(r) \/ ClientGone(r)
  BY <1>1, <1>7 DEF ResolveFails, RefreshFails, BodyEnds, ClientGone
<1>8. CASE CoolFails(r) \/ Invalidate(r)
  <2>1. \/ req' = [req EXCEPT ![r] = [req[r] EXCEPT !.pc = "respond"]]
        \/ req' = [req EXCEPT ![r] = NextAttempt(req[r])]
    BY <1>8 DEF CoolFails, Invalidate, AfterCooling
  <2> QED BY ZenonT(60), <1>1, <1>2, <2>1 DEF Steps, HoldingSteps
<1> QED BY <1>3, <1>4, <1>5, <1>6, <1>7, <1>8 DEF Attempting, Upstream, Advances

\* No step leaves the order.
LEMMA SelectStep == SelectInv /\ [Next]_vars => SelectInv'
<1> SUFFICES ASSUME SelectInv, [Next]_vars PROVE \A x \in Requests : InOrder(req[x])'
  BY NextType DEF SelectInv
<1>1. ASSUME NEW r \in Requests, RowsCached(r) \/ RowsStore(r) PROVE \A x \in Requests : InOrder(req[x])'
  BY GroupOfAssumption, <1>1, WithRowsInOrder, OrderFrame DEF SelectInv, TypeInv, TypeOK, Request, RowsCached, RowsStore
<1>2. ASSUME NEW r \in Requests, Selecting(r) PROVE \A x \in Requests : InOrder(req[x])'
  BY <1>1, <1>2, NextLevelInOrder, LookUpInOrder, BusyInOrder, OthersInOrder DEF Selecting
<1>3. ASSUME NEW r \in Requests, Begin(r) \/ Attempting(r) \/ Upstream(r) \/ ClientGone(r)
      PROVE  \A x \in Requests : InOrder(req[x])'
  BY <1>3, OthersInOrder
<1>4. ASSUME req' = req PROVE \A x \in Requests : InOrder(req[x])'
  BY ZenonT(60), <1>4 DEF SelectInv, InOrder, Turn, Candidates, Position
<1>5. ASSUME \/ \E g \in Groups : SnapshotExpires(g)
             \/ \E a \in Accounts : CooldownPasses(a) \/ EditAccount(a)
             \/ EditInvalidates \/ EditDropped \/ UNCHANGED vars
      PROVE  req' = req
  BY <1>5 DEF SnapshotExpires, CooldownPasses, EditAccount, EditInvalidates, EditDropped, vars
<1> QED BY <1>2, <1>3, <1>4, <1>5 DEF Next

\* At first nobody selects.
LEMMA InitSelect == Init => SelectInv
BY InitType, NotSelecting DEF SelectInv, Init, NewRequest

\* However many requests select at once and whatever is edited meanwhile, a
\* selection goes on to the next priority, or gives up, only after it looked
\* at every account of the priorities before (state.rs, select).
THEOREM SelectionCorrect == Spec => []SelectionOrder
<1>1. SelectInv => SelectionOrder
  <2> SUFFICES ASSUME SelectInv PROVE SelectionOrder OBVIOUS
  <2>1. LooksAtEveryAccount BY DEF SelectInv, InOrder, Candidates, LooksAtEveryAccount
  <2>2. PriorityOrder
    <3> SUFFICES ASSUME NEW r \in Requests, req[r].pc = "acquire", NEW a \in Candidates(req[r]),
                        Priority[a] < Priority[req[r].account]
                 PROVE  a \in req[r].seen
      BY DEF PriorityOrder, Candidates
    <3>1. Turn(req[r], req[r].offset + 1) /\ req[r].account \in req[r].level /\ req[r] \in Request
      BY DEF SelectInv, InOrder, TypeInv, TypeOK
    <3>2. a \in Accounts /\ req[r].account \in Accounts BY <3>1, RowsFacts DEF Candidates, Request
    <3>3. Priority[a] \in Nat /\ Priority[req[r].account] \in Nat BY <3>2, PriorityAssumption
    <3>4. a \notin req[r].level /\ a \notin req[r].ahead BY <3>1, <3>3 DEF Turn
    <3> QED BY <3>1, <3>4 DEF Turn
  <2> QED BY <2>1, <2>2 DEF SelectionOrder
<1> QED BY <1>1, InitSelect, SelectStep, PTL DEF Spec
================================================================================
