---------------------------- MODULE ImageProviders ----------------------------
(***************************************************************************)
(* A provider of batch images while administrators edit it: the credential *)
(* it keeps, the routing that a job copies when it is submitted, and the   *)
(* access tokens that a Vertex provider's service account is exchanged for *)
(* and that every request of that provider shares.                         *)
(*                                                                         *)
(* One provider is enough: rows and tokens are kept by provider, and no    *)
(* operation reads those of another.  Zero stands for no credential, ""    *)
(* for a base URL that is left to the server, which is the regional Google *)
(* service.                                                                *)
(***************************************************************************)
EXTENDS Naturals, FiniteSets, FiniteSetsExt

CONSTANTS
  Editors,           \* handlers of create_, update_ and delete_provider
  Callers,           \* submissions, polls and probes
  ImageJobs,         \* jobs that may be submitted
  TokenFloor,        \* 360 seconds, the shortest life a token is credited with
  TokenMargin,       \* 300 seconds before its end a token is not used any more
  TokenLives,        \* lives of tokens that the endpoint may choose
  ProviderStarts     \* rows to start with, what administrators may enter, and bounds

ASSUME TokenAssumption ==
  /\ TokenMargin \in Nat /\ TokenFloor \in Nat /\ TokenMargin < TokenFloor
  /\ TokenLives \subseteq Nat \ {0}

VARIABLES
  imageProvider,   \* the provider's row
  lastGiven,         \* the credentials administrators gave last, and whether edits overlapped
  imageJobs,       \* [ImageJobs -> the job's row]
  vertexTokens,    \* AppState.vertex_tokens: no token or one
  callers,         \* [Callers -> a call]
  editors,         \* [Editors -> a handler]
  minute, imageBudget

imageVars == <<imageProvider, lastGiven, imageJobs, vertexTokens, callers, editors, minute, imageBudget>>

Kinds == {"gemini", "vertex"}
GeminiUrl == "gemini"     \* DEFAULT_BASE_URL
RegionalUrl == "regional" \* vertex_api_base of a provider without a base URL

NoImageJob == [state |-> "none", kind |-> "gemini", base |-> "", tokenUrl |-> "google", sentTo |-> "", called |-> ""]
NoCall == [pc |-> "idle", job |-> {}, row |-> {}, token |-> {}, picked |-> 0]
NoEdit == [pc |-> "idle", row |-> {}]

ImageInit ==
  /\ \E g \in ProviderStarts : imageProvider = g.row /\ imageBudget = g.budget
  /\ lastGiven = [key |-> imageProvider.key, account |-> imageProvider.account, mixed |-> FALSE]
  /\ imageJobs = [j \in ImageJobs |-> NoImageJob]
  /\ vertexTokens = {} /\ minute = 0
  /\ callers = [c \in Callers |-> NoCall] /\ editors = [e \in Editors |-> NoEdit]

ImageSpend(which) == imageBudget[which] > 0 /\ imageBudget' = [imageBudget EXCEPT ![which] = @ - 1]
Credential(row, kind) == IF kind = "vertex" THEN row.account ELSE row.key

(* What is stored, what administrators may enter, and the bounds.          *)
Urls == {GeminiUrl, RegionalUrl, "google", ""}
        \cup UNION {{g.row.base, g.row.tokenUrl} \cup g.budget.bases \cup g.budget.endpoints : g \in ProviderStarts}
ProviderRows ==
  [state : {"none", "there", "gone"}, kind : Kinds, base : Urls, tokenUrl : Urls, key : Nat, account : Nat]
ImageBudgets ==
  [bases : SUBSET Urls, endpoints : SUBSET Urls, credentials : SUBSET Nat, edits : Nat, deletions : Nat,
   submits : Nat, polls : Nat, probes : Nat, requests : Nat, minutes : Nat, restarts : Nat]
ASSUME ProviderAssumption ==
  \A g \in ProviderStarts :
    /\ g.row \in ProviderRows /\ g.budget \in ImageBudgets /\ g.row.state # "gone"
    /\ g.row.state = "there" => Credential(g.row, g.row.kind) # 0
-----------------------------------------------------------------------------
(* Administrators.  normalize_provider_input: a Gemini provider has its    *)
(* own defaults, and no kind takes the other's credential.  The limits of  *)
(* prices, models and names are left out.                                  *)
GeminiInput(b, k) ==
  [kind |-> "gemini", base |-> IF b = "" THEN GeminiUrl ELSE b, key |-> k, account |-> 0, tokenUrl |-> "google"]
VertexInput(b, k, t) == [kind |-> "vertex", base |-> b, key |-> 0, account |-> k, tokenUrl |-> t]
ProviderInputs ==
  {GeminiInput(b, k) : b \in imageBudget.bases, k \in imageBudget.credentials}
  \cup {VertexInput(b, k, t) : b \in imageBudget.bases, k \in imageBudget.credentials, t \in imageBudget.endpoints}
Row(input, key, account) == [state |-> "there", kind |-> input.kind, base |-> input.base, tokenUrl |-> input.tokenUrl,
                             key |-> key, account |-> account]
Editing(e, next) == editors' = [editors EXCEPT ![e] = next]
OthersEditing(e) == \E x \in Editors \ {e} : editors[x].pc = "write"

CreateProvider(e) ==
  /\ ImageSpend("edits")
  /\ editors[e].pc = "idle" /\ imageProvider.state = "none"
  /\ \E input \in ProviderInputs :
       /\ Credential(input, input.kind) # 0
       /\ imageProvider' = Row(input, input.key, input.account)
       /\ lastGiven' = [key |-> input.key, account |-> input.account, mixed |-> FALSE]
  /\ UNCHANGED <<imageJobs, vertexTokens, callers, editors, minute>>

(* update_provider reads the row, and writes every column: a credential    *)
(* that is not given is the one it has read.                               *)
GivenOr(given, current) == IF given # 0 THEN given ELSE current
UpdateRead(e) ==
  /\ ImageSpend("edits")
  /\ editors[e].pc = "idle" /\ imageProvider.state = "there"
  /\ \E input \in ProviderInputs :
       LET row == Row(input, GivenOr(input.key, imageProvider.key), GivenOr(input.account, imageProvider.account))
       IN  Credential(row, row.kind) # 0 /\ Editing(e, [pc |-> "write", row |-> {[given |-> input, row |-> row]}])
  /\ lastGiven' = [lastGiven EXCEPT !.mixed = @ \/ OthersEditing(e)]
  /\ UNCHANGED <<imageProvider, imageJobs, vertexTokens, callers, minute>>

UpdateWrite(e) ==
  /\ editors[e].pc = "write"
  /\ \E edit \in editors[e].row :
       IF imageProvider.state # "there" THEN UNCHANGED <<imageProvider, lastGiven>>
       ELSE /\ imageProvider' = edit.row
            /\ lastGiven' = [lastGiven EXCEPT !.key = GivenOr(edit.given.key, @), !.account = GivenOr(edit.given.account, @)]
  /\ Editing(e, [NoEdit EXCEPT !.pc = "forget"])
  /\ UNCHANGED <<imageJobs, vertexTokens, callers, minute, imageBudget>>

(* The token goes with the edit; a call that has read the row before may   *)
(* still bring one for the former account.                                 *)
ForgetToken(e) ==
  /\ editors[e].pc = "forget"
  /\ vertexTokens' = {}
  /\ Editing(e, NoEdit)
  /\ UNCHANGED <<imageProvider, lastGiven, imageJobs, callers, minute, imageBudget>>

(* delete_provider refuses a provider that has jobs, of whatever age, and  *)
(* the reference of a job that is inserted after the count refuses it too. *)
Referenced == \E j \in ImageJobs : imageJobs[j].state # "none"
DeleteCount(e) ==
  /\ ImageSpend("deletions")
  /\ editors[e].pc = "idle" /\ imageProvider.state = "there" /\ ~Referenced
  /\ Editing(e, [NoEdit EXCEPT !.pc = "delete"])
  /\ UNCHANGED <<imageProvider, lastGiven, imageJobs, vertexTokens, callers, minute>>
DeleteRow(e) ==
  /\ editors[e].pc = "delete"
  /\ IF Referenced \/ imageProvider.state # "there" THEN Editing(e, NoEdit) /\ UNCHANGED imageProvider
     ELSE Editing(e, [NoEdit EXCEPT !.pc = "forget"]) /\ imageProvider' = [imageProvider EXCEPT !.state = "gone"]
  /\ UNCHANGED <<lastGiven, imageJobs, vertexTokens, callers, minute, imageBudget>>
-----------------------------------------------------------------------------
(* Calls.  A submission reads the provider's row and copies its routing to *)
(* the job; a poll, a cancellation or a download reads the job, where an   *)
(* empty copy is filled from the provider (JOB_SELECT), and always the     *)
(* provider's credentials.                                                 *)
Call(c, next) == callers' = [callers EXCEPT ![c] = next]
CallEnds(c) == Call(c, NoCall)
Snapshot(j) == [imageProvider EXCEPT !.kind = imageJobs[j].kind, !.tokenUrl = imageJobs[j].tokenUrl,
                                     !.base = IF imageJobs[j].base = "" THEN @ ELSE imageJobs[j].base]
(* vertex_api_base *)
Url(row) == IF row.base = "" THEN RegionalUrl ELSE row.base

SubmitRead(c) ==
  /\ ImageSpend("submits")
  /\ callers[c].pc = "idle" /\ imageProvider.state = "there"
  /\ \E j \in ImageJobs : /\ imageJobs[j].state = "none" /\ \A x \in Callers : j \notin callers[x].job
                          /\ Call(c, [NoCall EXCEPT !.pc = "insert", !.job = {j}, !.row = {imageProvider}])
  /\ UNCHANGED <<imageProvider, lastGiven, imageJobs, vertexTokens, editors, minute>>

SubmitInsert(c) ==
  /\ callers[c].pc = "insert"
  /\ \E j \in callers[c].job, row \in callers[c].row :
       IF imageProvider.state # "there" THEN CallEnds(c) /\ UNCHANGED imageJobs
       ELSE /\ imageJobs' = [imageJobs EXCEPT ![j] = [NoImageJob EXCEPT !.state = "active", !.kind = row.kind,
                                                        !.base = row.base, !.tokenUrl = row.tokenUrl]]
            /\ Call(c, [callers[c] EXCEPT !.pc = "credential"])
  /\ UNCHANGED <<imageProvider, lastGiven, vertexTokens, editors, minute, imageBudget>>

PollRead(c) ==
  /\ ImageSpend("polls")
  /\ callers[c].pc = "idle"
  /\ \E j \in ImageJobs : /\ imageJobs[j].state = "active" /\ imageJobs[j].sentTo # ""
                          /\ Call(c, [NoCall EXCEPT !.pc = "credential", !.job = {j}, !.row = {Snapshot(j)}])
  /\ UNCHANGED <<imageProvider, lastGiven, imageJobs, vertexTokens, editors, minute>>

(* test_provider *)
ProbeRead(c) ==
  /\ ImageSpend("probes")
  /\ callers[c].pc = "idle" /\ imageProvider.state = "there"
  /\ Call(c, [NoCall EXCEPT !.pc = "credential", !.row = {imageProvider}])
  /\ UNCHANGED <<imageProvider, lastGiven, imageJobs, vertexTokens, editors, minute>>

(* vertex_access_token: a cached token must be for the same account and    *)
(* token endpoint; calls that find none may ask at the same time.          *)
Fingerprint(row) == <<row.account, row.tokenUrl>>
UseCredential(c) ==
  /\ callers[c].pc = "credential"
  /\ \E row \in callers[c].row :
       LET hits == {t \in vertexTokens : t.by = Fingerprint(row) /\ t.until > minute}
       IN  IF Credential(row, row.kind) = 0 THEN CallEnds(c)
           ELSE Call(c, CASE row.kind = "gemini" -> [callers[c] EXCEPT !.pc = "send"]
                          [] row.kind = "vertex" /\ hits = {} -> [callers[c] EXCEPT !.pc = "ask"]
                          [] OTHER -> [callers[c] EXCEPT !.pc = "send", !.token = hits, !.picked = minute])
  /\ UNCHANGED <<imageProvider, lastGiven, imageJobs, vertexTokens, editors, minute, imageBudget>>

(* The endpoint issues a token for a life of its choice, or refuses.       *)
TokenIssued(c) ==
  /\ callers[c].pc = "ask"
  /\ \/ CallEnds(c)
     \/ \E row \in callers[c].row, life \in TokenLives :
          Call(c, [callers[c] EXCEPT !.pc = "answer",
                     !.token = {[by |-> Fingerprint(row), issued |-> minute, life |-> life, until |-> 0]}])
  /\ UNCHANGED <<imageProvider, lastGiven, imageJobs, vertexTokens, editors, minute, imageBudget>>

TokenCachedFor(life) == Max({life, TokenFloor}) - TokenMargin
TokenStored(c) ==
  /\ callers[c].pc = "answer"
  /\ LET tokens == {[t EXCEPT !.until = minute + TokenCachedFor(t.life)] : t \in callers[c].token}
     IN  vertexTokens' = tokens /\ Call(c, [callers[c] EXCEPT !.pc = "send", !.token = tokens, !.picked = minute])
  /\ UNCHANGED <<imageProvider, lastGiven, imageJobs, editors, minute, imageBudget>>

(* A call sends one request or several with its token, and the last one    *)
(* may be a job's last.                                                    *)
CallSends(c) ==
  /\ callers[c].pc = "send"
  /\ \E row \in callers[c].row :
       imageJobs' = [j \in ImageJobs |->
                       IF j \notin callers[c].job THEN imageJobs[j]
                       ELSE [imageJobs[j] EXCEPT !.sentTo = IF @ = "" THEN Url(row) ELSE @, !.called = Url(row)]]
  /\ Call(c, [callers[c] EXCEPT !.pc = "sent"])
  /\ UNCHANGED <<imageProvider, lastGiven, vertexTokens, editors, minute, imageBudget>>

CallGoesOn(c) ==
  /\ callers[c].pc = "sent"
  /\ \/ ImageSpend("requests") /\ Call(c, [callers[c] EXCEPT !.pc = "send"]) /\ UNCHANGED imageJobs
     \/ CallEnds(c) /\ UNCHANGED <<imageJobs, imageBudget>>
     \/ /\ \E j \in callers[c].job : imageJobs' = [imageJobs EXCEPT ![j].state = "over"]
        /\ CallEnds(c) /\ UNCHANGED imageBudget
  /\ UNCHANGED <<imageProvider, lastGiven, vertexTokens, editors, minute>>

ProviderMinute ==
  /\ ImageSpend("minutes")
  /\ minute' = minute + 1
  /\ UNCHANGED <<imageProvider, lastGiven, imageJobs, vertexTokens, callers, editors>>

ImageRestart ==
  /\ ImageSpend("restarts")
  /\ vertexTokens' = {}
  /\ callers' = [c \in Callers |-> NoCall] /\ editors' = [e \in Editors |-> NoEdit]
  /\ UNCHANGED <<imageProvider, lastGiven, imageJobs, minute>>

ImageNext ==
  \/ \E e \in Editors : \/ CreateProvider(e) \/ UpdateRead(e) \/ UpdateWrite(e) \/ ForgetToken(e)
                        \/ DeleteCount(e) \/ DeleteRow(e)
  \/ \E c \in Callers : \/ SubmitRead(c) \/ SubmitInsert(c) \/ PollRead(c) \/ ProbeRead(c)
                        \/ UseCredential(c) \/ TokenIssued(c) \/ TokenStored(c) \/ CallSends(c) \/ CallGoesOn(c)
  \/ ProviderMinute \/ ImageRestart

ImageSpec == ImageInit /\ [][ImageNext]_imageVars
-----------------------------------------------------------------------------
(* The provider's row and the calls are of their types.                    *)
ImageTypeOK ==
  /\ imageProvider.state \in {"none", "there", "gone"} /\ imageProvider.kind \in Kinds
  /\ \A j \in ImageJobs : imageJobs[j].state \in {"none", "active", "over"}
  /\ Cardinality(vertexTokens) <= 1
  /\ \A c \in Callers : callers[c].pc \in {"idle", "insert", "credential", "ask", "answer", "send", "sent"}

Sending == {c \in Callers : callers[c].pc = "send"}

(* A request carries a token of the very account and endpoint of the row   *)
(* its call has read, whatever was edited, cached or answered late in the  *)
(* meantime (vertex_access_token).                                         *)
TokenFits ==
  \A c \in Sending : \A row \in callers[c].row :
    row.kind = "vertex" => callers[c].token # {} /\ \A t \in callers[c].token : t.by = Fingerprint(row)

(* A token does not expire in a call's hands, if the exchange that brought *)
(* it and the call together take no longer than the margin, and the        *)
(* endpoint's lives are not shorter than the floor (vertex_access_token).  *)
TokenAlive ==
  \A c \in Sending : \A t \in callers[c].token :
    LET answered == t.until - TokenCachedFor(t.life)
    IN  t.life >= TokenFloor /\ (answered - t.issued) + (minute - callers[c].picked) <= TokenMargin
          => minute < t.issued + t.life

(* The provider keeps the credentials that were given last, unless two     *)
(* edits overlapped (update_provider).                                     *)
CredentialsKept ==
  imageProvider.state = "there" /\ ~lastGiven.mixed =>
    imageProvider.key = lastGiven.key /\ imageProvider.account = lastGiven.account

(* A job's provider is there, and keeps a credential of the job's kind,    *)
(* until the job is over, unless two edits overlapped                      *)
(* (update_provider, delete_provider).                                     *)
JobsKeepCredentials ==
  \A j \in ImageJobs :
    imageJobs[j].state = "active" =>
      imageProvider.state = "there" /\ (lastGiven.mixed \/ Credential(imageProvider, imageJobs[j].kind) # 0)

(* A job that has copied a base URL calls no other (JOB_SELECT).           *)
RoutesKept ==
  \A j \in ImageJobs : imageJobs[j].base # "" /\ imageJobs[j].sentTo # "" => imageJobs[j].called = imageJobs[j].sentTo

ProvidersSafe ==
  /\ ImageTypeOK /\ TokenFits /\ TokenAlive /\ CredentialsKept /\ JobsKeepCredentials /\ RoutesKept

(* "Snapshotted each job's non-secret provider routing configuration so    *)
(* provider edits cannot redirect an active batch": every request for a    *)
(* job goes where its submission went.  A Vertex provider without a base   *)
(* URL leaves an empty copy, which JOB_SELECT fills from the edited row.   *)
RoutedAsSubmitted == \A j \in ImageJobs : imageJobs[j].called = imageJobs[j].sentTo
===============================================================================
