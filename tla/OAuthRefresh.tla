----------------------------- MODULE OAuthRefresh -----------------------------
(***************************************************************************)
(* OAuth credentials of accounts (oauth.rs, claude_oauth.rs): requests     *)
(* that refresh an expired token under the account's lock, administrators  *)
(* who edit or re-authorise the account without it, and the provider,      *)
(* which may replace the refresh token whenever it is used.                *)
(*                                                                         *)
(* A credential is its refresh token, a number or NoToken, and the age of  *)
(* its access token.  A Spark shadow is a row whose credentials are its    *)
(* parent's (state.rs, resolve_account).                                   *)
(***************************************************************************)
EXTENDS Integers, FiniteSets

CONSTANTS
  Holders,      \* account rows that hold credentials
  Shadows,      \* rows with a parent_account_id
  Parent,       \* a shadow's parent
  Claude,       \* the owners of platform anthropic; the others refresh as openai does
  Refreshers,   \* requests that may refresh an account
  Admins,       \* administrators' requests and callbacks
  Flows,        \* OAuth states given out by start_oauth
  NoOne,        \* nobody holds the lock
  MaxTokens,    \* bound: refresh tokens the provider ever issues
  MaxAdmin      \* bound: administrators' requests in a behaviour

OAuthRows == Holders \cup Shadows
NoToken == 0
Grants == 1 .. MaxTokens

ASSUME OAuthSets == /\ Holders \cap Shadows = {} /\ Claude \subseteq Holders
                    /\ Parent \in [Shadows -> Holders]
                    /\ NoOne \notin Refreshers
ASSUME OAuthBounds == MaxTokens \in Nat /\ MaxAdmin \in Nat

(* credentials_from_token: the access token is "fresh" until five minutes  *)
(* before expires_at, then "stale"; an imported one may have no expires_at *)
(* ("endless").                                                            *)
Credentials == [refresh : Grants \cup {NoToken}, age : {"fresh", "stale", "endless"}]
FreshToken(token) == [refresh |-> token, age |-> "fresh"]
Nothing == [refresh |-> NoToken, age |-> "stale"]

VARIABLES
  stored,       \* accounts.encrypted_credentials, Nothing when the row is deleted
  exists,       \* owners whose row is there
  valid,        \* refresh tokens the provider accepts
  issued,       \* how many it has issued
  locked,       \* oauth_refresh_locks: who holds the owner's mutex
  refresher,    \* what each request is doing
  adminReq,     \* what each administrator's request is doing
  flows,        \* oauth_flows, and how often a state was exchanged
  lost,         \* owners whose grant was lost, and how (history)
  adminCount

oauthVars == <<stored, exists, valid, issued, locked, refresher, adminReq, flows, lost, adminCount>>
provider == <<valid, issued>>

RefresherState == [pc : {"idle", "wait", "locked", "call", "write", "ready"},
                   row : OAuthRows \cup {NoOne}, seen : Credentials, force : BOOLEAN, retried : BOOLEAN]
Idle == [pc |-> "idle", row |-> NoOne, seen |-> Nothing, force |-> FALSE, retried |-> FALSE]
AdminState == [pc : {"idle", "edit", "exchange", "read", "replace"},
               owner : Holders, seen : Credentials, flow : Flows]
FlowState == [state : {"none", "open", "taken"}, used : Nat]
Ways == {"dropped", "edited"}

OAuthInit ==
  /\ \E n \in [Holders -> Grants] :
       /\ \A a, b \in Holders : a # b => n[a] # n[b]
       /\ \A a \in Holders : n[a] <= Cardinality(Holders)
       /\ stored = [a \in Holders |-> FreshToken(n[a])]
  /\ exists = Holders
  /\ issued = Cardinality(Holders) /\ valid = 1 .. Cardinality(Holders)
  /\ locked = [r \in OAuthRows |-> NoOne]
  /\ refresher = [h \in Refreshers |-> Idle]
  /\ \E a \in Holders, f \in Flows :
       adminReq = [x \in Admins |-> [pc |-> "idle", owner |-> a, seen |-> Nothing, flow |-> f]]
  /\ flows = [f \in Flows |-> [state |-> "none", used |-> 0]]
  /\ lost = [a \in Holders |-> {}] /\ adminCount = 0

(* credential_account_id: the account whose row and whose lock is used.    *)
CredentialOwner(row) == IF row \in Shadows THEN Parent[row] ELSE row

OwnerOf(h) == CredentialOwner(refresher[h].row)

(* Variant: a shadow has a lock of its own.                                *)
LockOfRow(row) == row

(* The entry of oauth_refresh_locks.                                       *)
LockOf(row) == CredentialOwner(row)

-----------------------------------------------------------------------------
(*                         A request that refreshes                        *)

Move(h, pc) == refresher' = [refresher EXCEPT ![h].pc = pc]
Moving(h, pc, seen) == refresher' = [refresher EXCEPT ![h].pc = pc, ![h].seen = seen]

(* The guard is dropped.                                                   *)
Unlock(h) == locked' = [locked EXCEPT ![LockOf(refresher[h].row)] = NoOne]
Leave(h) == refresher' = [refresher EXCEPT ![h] = Idle]

Begin(h, row, pc, force) ==
  /\ refresher[h].pc = "idle" /\ CredentialOwner(row) \in exists
  /\ refresher' = [refresher EXCEPT ![h] = [pc |-> pc, row |-> row, seen |-> Nothing,
                                            force |-> force, retried |-> FALSE]]
  /\ UNCHANGED <<stored, exists, provider, locked, adminReq, flows, lost, adminCount>>

(* resolve_account and refresh_if_needed, which asks for a refresh when    *)
(* expires_at is less than five minutes away by then.                      *)
RefreshIfNeeded(h, row) ==
  LET age == stored[CredentialOwner(row)].age IN
  \/ age \in {"stale", "fresh"} /\ Begin(h, row, "wait", FALSE)
  \/ age # "stale" /\ Begin(h, row, "ready", FALSE)

(* The console's refresh_account and batch_refresh_accounts, one row after *)
(* the other.                                                              *)
RefreshForced(h, row) == Begin(h, row, "wait", TRUE)

(* The upstream answers 401: the request calls refresh_account once more,  *)
(* which is not forced.                                                    *)
Unauthorized(h) ==
  /\ refresher[h].pc = "ready" /\ ~refresher[h].force /\ ~refresher[h].retried
  /\ refresher' = [refresher EXCEPT ![h].pc = "wait", ![h].retried = TRUE]
  /\ UNCHANGED <<stored, exists, provider, locked, adminReq, flows, lost, adminCount>>

RefreshLock(h) ==
  /\ refresher[h].pc = "wait" /\ locked[LockOf(refresher[h].row)] = NoOne
  /\ locked' = [locked EXCEPT ![LockOf(refresher[h].row)] = h]
  /\ Move(h, "locked")
  /\ UNCHANGED <<stored, exists, provider, adminReq, flows, lost, adminCount>>

(* Without expires_at a Claude token is fresh for ever, and another one    *)
(* is refreshed (unwrap_or(i64::MAX) against unwrap_or(0)).                *)
StillFresh(a) == stored[a].age = "fresh" \/ (stored[a].age = "endless" /\ a \in Claude)

(* The row is read again under the lock, and what the request came with    *)
(* is not used (so the model does not keep it).  It may have gone or      *)
(* have no refresh token, and the account's proxy may be unusable.         *)
RereadCredentials(h) ==
  LET a == OwnerOf(h) IN
  /\ refresher[h].pc = "locked"
  /\ \/ /\ a \in exists /\ ~refresher[h].force /\ StillFresh(a)
        /\ Moving(h, "ready", Nothing) /\ Unlock(h)
     \/ /\ a \in exists /\ (refresher[h].force \/ ~StillFresh(a)) /\ stored[a].refresh # NoToken
        /\ Moving(h, "call", stored[a]) /\ UNCHANGED locked
     \/ Leave(h) /\ Unlock(h)
  /\ UNCHANGED <<stored, exists, provider, adminReq, flows, lost, adminCount>>

(* The provider takes the refresh token and replaces it or not             *)
(* (token.refresh_token.or(previous)); the answer reaches the handler or   *)
(* is lost on the way.                                                     *)
ProviderRotates(h) ==
  LET old == refresher[h].seen.refresh
      new == issued + 1 IN
  /\ refresher[h].pc = "call" /\ old \in valid /\ new \in Grants
  /\ issued' = new /\ valid' = (valid \ {old}) \cup {new}
  /\ \/ /\ Moving(h, "write", FreshToken(new)) /\ UNCHANGED <<locked, lost>>
     \/ /\ Leave(h) /\ Unlock(h)
        /\ lost' = [lost EXCEPT ![OwnerOf(h)] = @ \cup {"dropped"}]
  /\ UNCHANGED <<stored, exists, adminReq, flows, adminCount>>

ProviderKeeps(h) ==
  /\ refresher[h].pc = "call" /\ refresher[h].seen.refresh \in valid
  /\ Moving(h, "write", FreshToken(refresher[h].seen.refresh))
  /\ UNCHANGED <<stored, exists, provider, locked, adminReq, flows, lost, adminCount>>

(* A rejection, or a request that did not get there: last_error is set.    *)
ProviderRejects(h) ==
  /\ refresher[h].pc = "call"
  /\ Leave(h) /\ Unlock(h)
  /\ UNCHANGED <<stored, exists, provider, adminReq, flows, lost, adminCount>>

StoreRefreshed(h) ==
  LET a == OwnerOf(h) IN
  /\ refresher[h].pc = "write"
  /\ stored' = IF a \in exists THEN [stored EXCEPT ![a] = refresher[h].seen] ELSE stored
  /\ Moving(h, "ready", Nothing) /\ Unlock(h)
  /\ UNCHANGED <<exists, provider, adminReq, flows, lost, adminCount>>

(* The request is served, or its client has gone and its future, with the  *)
(* guard, is dropped wherever it waits.                                    *)
RefresherEnds(h) ==
  /\ refresher[h].pc = "ready"
  /\ Leave(h)
  /\ UNCHANGED <<stored, exists, provider, locked, adminReq, flows, lost, adminCount>>

RefresherDropped(h) ==
  /\ refresher[h].pc \in {"wait", "locked", "call", "write"}
  /\ Leave(h)
  /\ IF refresher[h].pc = "wait" THEN UNCHANGED locked ELSE Unlock(h)
  /\ lost' = IF refresher[h].pc = "write" THEN [lost EXCEPT ![OwnerOf(h)] = @ \cup {"dropped"}]
                                         ELSE lost
  /\ UNCHANGED <<stored, exists, provider, adminReq, flows, adminCount>>

Expires(a) ==
  /\ stored[a].age = "fresh" /\ a \in exists
  /\ stored' = [stored EXCEPT ![a].age = "stale"]
  /\ UNCHANGED <<exists, provider, locked, refresher, adminReq, flows, lost, adminCount>>

-----------------------------------------------------------------------------
(*                            Administrators                               *)

AdminMoves(x, pc) == adminReq' = [adminReq EXCEPT ![x].pc = pc]
Counted == adminCount < MaxAdmin /\ adminCount' = adminCount + 1

(* update_account of an owner's row: the decrypted credentials are written *)
(* back with the other columns, whatever was edited; between the two are   *)
(* the checks of proxy and TLS profile.                                    *)
EditReads(x, a) ==
  /\ adminReq[x].pc = "idle" /\ a \in exists /\ Counted
  /\ adminReq' = [adminReq EXCEPT ![x].pc = "edit", ![x].owner = a, ![x].seen = stored[a]]
  /\ UNCHANGED <<stored, exists, provider, locked, refresher, flows, lost>>

WriteBack(x, a, credentials) ==
  /\ stored' = IF a \in exists THEN [stored EXCEPT ![a] = credentials] ELSE stored
  /\ lost' = IF a \in exists /\ credentials.refresh \notin valid
             THEN [lost EXCEPT ![a] = @ \cup {"edited"}] ELSE lost
  /\ AdminMoves(x, "idle")

EditWrites(x) ==
  /\ adminReq[x].pc = "edit"
  /\ WriteBack(x, adminReq[x].owner, adminReq[x].seen)
  /\ UNCHANGED <<exists, provider, locked, refresher, flows, adminCount>>

(* account_tools.rs, reauth: pasted credentials replace the stored ones in *)
(* one statement.                                                          *)
PasteCredentials(x, a, age) ==
  /\ adminReq[x].pc = "idle" /\ a \in exists \ Claude /\ Counted
  /\ issued' = issued + 1 /\ issued' \in Grants /\ valid' = valid \cup {issued'}
  /\ stored' = [stored EXCEPT ![a] = [refresh |-> issued', age |-> age]]
  /\ UNCHANGED <<exists, locked, refresher, adminReq, flows, lost>>

(* start_oauth for an account; the browser may come back more than once.   *)
StartFlow(x, f, a) ==
  /\ adminReq[x].pc = "idle" /\ a \in exists \ Claude /\ flows[f].state = "none" /\ Counted
  /\ flows' = [flows EXCEPT ![f].state = "open"]
  /\ adminReq' = [y \in Admins |-> IF adminReq[y].pc = "idle"
                                   THEN [adminReq[y] EXCEPT !.owner = a, !.flow = f] ELSE adminReq[y]]
  /\ UNCHANGED <<stored, exists, provider, locked, refresher, lost>>

(* complete_flow: the state is removed before the code is exchanged.       *)
TakeFlow(x) ==
  /\ adminReq[x].pc = "idle" /\ flows[adminReq[x].flow].state = "open"
  /\ flows' = [flows EXCEPT ![adminReq[x].flow].state = "taken"]
  /\ AdminMoves(x, "exchange")
  /\ UNCHANGED <<stored, exists, provider, locked, refresher, lost, adminCount>>

(* The provider exchanges the code, with or without a refresh token, or    *)
(* the flow has expired or is refused.                                     *)
ExchangeCode(x) ==
  /\ adminReq[x].pc = "exchange"
  /\ \/ /\ issued' = issued + 1 /\ issued' \in Grants /\ valid' = valid \cup {issued'}
        /\ adminReq' = [adminReq EXCEPT ![x].pc = "read", ![x].seen = FreshToken(issued')]
        /\ flows' = [flows EXCEPT ![adminReq[x].flow].used = @ + 1]
     \/ /\ adminReq' = [adminReq EXCEPT ![x].pc = "read", ![x].seen = FreshToken(NoToken)]
        /\ flows' = [flows EXCEPT ![adminReq[x].flow].used = @ + 1]
        /\ UNCHANGED provider
     \/ AdminMoves(x, "idle") /\ UNCHANGED <<provider, flows>>
  /\ UNCHANGED <<stored, exists, locked, refresher, lost, adminCount>>

(* replace_oauth_credentials: a missing refresh token is completed from    *)
(* the row as it was read.                                                 *)
ReplaceReads(x) ==
  LET a == adminReq[x].owner IN
  /\ adminReq[x].pc = "read"
  /\ IF a \notin exists THEN AdminMoves(x, "idle")
     ELSE adminReq' = [adminReq EXCEPT ![x].pc = "replace", ![x].seen.refresh =
                         IF @ = NoToken THEN stored[a].refresh ELSE @]
  /\ UNCHANGED <<stored, exists, provider, locked, refresher, flows, lost, adminCount>>

ReplaceWrites(x) ==
  /\ adminReq[x].pc = "replace"
  /\ WriteBack(x, adminReq[x].owner, adminReq[x].seen)
  /\ UNCHANGED <<exists, provider, locked, refresher, flows, adminCount>>

DeleteOwner(x, a) ==
  /\ adminReq[x].pc = "idle" /\ a \in exists /\ Counted
  /\ exists' = exists \ {a} /\ stored' = [stored EXCEPT ![a] = Nothing]
  /\ UNCHANGED <<provider, locked, refresher, adminReq, flows, lost>>

-----------------------------------------------------------------------------
RefresherStep(h) ==
  \/ RereadCredentials(h) \/ ProviderRotates(h)
  \/ ProviderKeeps(h) \/ ProviderRejects(h) \/ StoreRefreshed(h) \/ RefresherEnds(h)

AdminStep(x) ==
  \/ \E a \in Holders : \/ EditReads(x, a) \/ DeleteOwner(x, a)
                       \/ \E age \in {"fresh", "endless"} : PasteCredentials(x, a, age)
                       \/ \E f \in Flows : StartFlow(x, f, a)
  \/ EditWrites(x) \/ TakeFlow(x) \/ ExchangeCode(x) \/ ReplaceReads(x) \/ ReplaceWrites(x)

OAuthNext ==
  \/ \E h \in Refreshers :
       \/ RefresherStep(h) \/ RefreshLock(h) \/ Unauthorized(h) \/ RefresherDropped(h)
       \/ \E row \in OAuthRows : RefreshIfNeeded(h, row) \/ RefreshForced(h, row)
  \/ \E x \in Admins : AdminStep(x)
  \/ \E a \in Holders : Expires(a)

OAuthSpec == OAuthInit /\ [][OAuthNext]_oauthVars

-----------------------------------------------------------------------------
(*                              Properties                                 *)

(* Types; and a lock is held by the request that is between taking it and  *)
(* dropping its guard, on every way out: nobody waits for a lock that is   *)
(* not given back.                                                         *)
OAuthTypeOK ==
  /\ stored \in [Holders -> Credentials] /\ exists \subseteq Holders
  /\ valid \subseteq Grants /\ issued \in 0 .. MaxTokens
  /\ locked \in [OAuthRows -> Refreshers \cup {NoOne}]
  /\ refresher \in [Refreshers -> RefresherState]
  /\ adminReq \in [Admins -> AdminState] /\ flows \in [Flows -> FlowState]
  /\ lost \in [Holders -> SUBSET Ways] /\ adminCount \in 0 .. MaxAdmin
  /\ \A h \in Refreshers, row \in OAuthRows :
       locked[row] = h <=> refresher[h].pc \in {"locked", "call", "write"} /\ LockOf(refresher[h].row) = row

Carried(a) == {refresher[h].seen.refresh : h \in {g \in Refreshers :
                 refresher[g].pc = "write" /\ OwnerOf(g) = a}}

(* The refresh token the provider accepts is in the account's row or in    *)
(* the hands of the request that is about to write it, however many        *)
(* requests find the token expired at once: only a request lost between    *)
(* the provider's rotation and the UPDATE, or a row written back from an   *)
(* older read (update_account, replace_oauth_credentials), loses it.       *)
GrantKept ==
  \A a \in exists : stored[a].refresh \in valid \cup {NoToken} \/ Carried(a) \cap valid # {} \/ lost[a] # {}

(* No request presents a refresh token that another one has used up, which *)
(* providers answer by revoking the grant: the row is read again under the *)
(* lock, and a shadow takes its parent's.                                  *)
NeverPresentsUsed ==
  \A h \in Refreshers : refresher[h].pc = "call" =>
    refresher[h].seen.refresh \in valid \/ lost[OwnerOf(h)] # {}

(* An OAuth state is exchanged once even if the browser calls back twice   *)
(* (complete_flow removes it first).                                       *)
FlowExchangedOnce == \A f \in Flows : flows[f].used <= 1

(* A grant survives every refresh and re-authorisation (oauth.rs).         *)
GrantsSafe == OAuthTypeOK /\ GrantKept /\ NeverPresentsUsed /\ FlowExchangedOnce
=============================================================================
