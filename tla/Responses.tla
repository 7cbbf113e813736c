------------------------------- MODULE Responses -------------------------------
(***************************************************************************)
(* What becomes of an account's answer (gateway.rs build_proxy_response,   *)
(* SseParser, ChatStreamState, extract_usage; error_passthrough.rs): a     *)
(* stream that arrives in pieces and is translated to chat chunks, or a    *)
(* whole body whose error a rule may rewrite.  Either way the call is      *)
(* priced afterwards (Pricing).                                            *)
(*                                                                         *)
(* An event is one data line and the empty line that ends it, here a       *)
(* number and two zeros; it can be cut anywhere.  Of its data the kind,    *)
(* the usage it reports and the model it names are kept.                   *)
(***************************************************************************)
EXTENDS Pricing

CONSTANTS
  Scripts,     \* sequences of events that an account may stream
  Bodies,      \* whole answers: code, words, json, usage, observed
  RuleIds,     \* ids of rules, in their order
  RuleInputs   \* what a rule may be saved as, valid or not

VARIABLES
  reply,       \* the streams
  ruleRow,     \* table error_passthrough_rules
  turned       \* calls whose error a rule has given a status below 400 (history)

(* What accounts answer: a stream ends with its completed event.           *)
IsUsage(usage) ==
  usage = [f \in DOMAIN NoUsage |-> usage[f]] /\ \A f \in DOMAIN NoUsage : IsOption(usage[f], Int)
ASSUME AnswersAssumption ==
  /\ \A script \in Scripts :
       /\ IsList(script)
       /\ \A n \in DOMAIN script : IsUsage(script[n].usage) /\ (script[n].kind = "completed" => n = Len(script))
  /\ \A body \in Bodies : IsUsage(body.usage)

responseVars == <<pricingVars, reply, ruleRow, turned>>

NoReply == [pc |-> "none", script |-> <<>>, left |-> <<>>, buffer |-> <<>>, read |-> 0, usage |-> NoUsage,
            observed |-> {}, converted |-> FALSE, role |-> FALSE, done |-> FALSE, sent |-> <<>>, account |-> "none",
            code |-> 0]
NoRule == [there |-> FALSE, enabled |-> FALSE, priority |-> 0, codes |-> {}, keywords |-> {}, all |-> FALSE,
           code |-> {}, body |-> TRUE]

ResponsesInit ==
  /\ PricingInit
  /\ reply = [c \in Charges |-> NoReply] /\ ruleRow = [r \in RuleIds |-> NoRule] /\ turned = {}

(* The data line of each event and the two line ends after it.             *)
Wire(script) == [n \in 1 .. 3 * Len(script) |-> IF n % 3 = 1 THEN (n + 2) \div 3 ELSE 0]

UnchangedPricing == UnchangedPrices /\ UNCHANGED pricingBudget

-----------------------------------------------------------------------------
(*                               Streams                                   *)

StreamOpens(c, account, script, converted) ==
  /\ charge[c].pc = "resolved" /\ reply[c].pc = "none" /\ SpendPricing("streams")
  /\ reply' = [reply EXCEPT ![c] = [NoReply EXCEPT !.pc = "open", !.account = account, !.script = script,
                                                   !.left = Wire(script), !.converted = converted]]
  /\ UNCHANGED <<charge, ruleRow, turned>> /\ UnchangedPrices

(* Variant: what follows the last whole event is forgotten.                *)
PushForgets(buffer, bytes) ==
  LET all == buffer \o bytes
      ends == {i \in 1 .. Len(all) - 1 : all[i] = 0 /\ all[i + 1] = 0}
      last == IF ends = {} THEN 0 ELSE (CHOOSE i \in ends : \A j \in ends : j <= i) + 1 IN
  [text |-> SubSeq(all, 1, last),
   rest |-> IF last = 0 THEN all ELSE <<>>]

(* SseParser::push: the text of the events that have ended, and the rest.  *)
Push(buffer, bytes) ==
  LET all == buffer \o bytes
      ends == {i \in 1 .. Len(all) - 1 : all[i] = 0 /\ all[i + 1] = 0}
      last == IF ends = {} THEN 0 ELSE (CHOOSE i \in ends : \A j \in ends : j <= i) + 1 IN
  [text |-> SubSeq(all, 1, last),
   rest |-> SubSeq(all, last + 1, Len(all))]

(* Usage::merge.                                                           *)
Merged(usage, other) == [f \in DOMAIN usage |-> IF other[f] # {} THEN other[f] ELSE usage[f]]

ContentKinds == {"delta", "tool", "arguments"}
(* What convert sends for an event; n names the event it belongs to.       *)
Chunks(kind, n) ==
  CASE kind \in ContentKinds -> << <<kind, n>> >>
    [] kind = "completed" -> << <<"stop">>, <<"[DONE]">> >>
    [] OTHER -> <<>>

(* One event, as convert and the loop around it take it.                   *)
TakeEvent(r, n) ==
  LET event == r.script[n]
      role == IF r.role THEN <<>> ELSE << <<"role">> >> IN
  [r EXCEPT !.usage = Merged(@, event.usage),
            !.observed = IF event.model # {} THEN event.model ELSE @,
            !.read = n,
            !.role = @ \/ r.converted,
            !.done = @ \/ (r.converted /\ event.kind = "completed"),
            !.sent = IF r.converted THEN @ \o role \o Chunks(event.kind, n) ELSE @]

(* The events of a text, one after the other.                              *)
Taken(r, text) ==
  LET after[i \in 0 .. Len(text)] ==
        IF i = 0 THEN r
        ELSE IF text[i] = 0 THEN after[i - 1] ELSE TakeEvent(after[i - 1], text[i])
  IN  after[Len(text)]

ChunkArrives(c, size) ==
  LET push == Push(reply[c].buffer, SubSeq(reply[c].left, 1, size)) IN
  /\ reply[c].pc = "open" /\ size \in 1 .. Len(reply[c].left)
  /\ reply' = [reply EXCEPT ![c] =
       Taken([reply[c] EXCEPT !.buffer = push.rest, !.left = SubSeq(reply[c].left, size + 1, Len(reply[c].left))], push.text)]
  /\ UNCHANGED <<charge, ruleRow, turned>> /\ UnchangedPricing

(* After the loop: a stream that was not completed is finished, and the    *)
(* call is logged under the status the stream began with.                  *)
AfterLoop(c) ==
  /\ reply' = [reply EXCEPT ![c] =
       [reply[c] EXCEPT !.pc = "ended", !.done = reply[c].converted,
                        !.sent = IF reply[c].converted /\ ~reply[c].done
                                 THEN reply[c].sent \o << <<"stop">>, <<"[DONE]">> >> ELSE reply[c].sent]]
  /\ Logs(c, reply[c].account, FALSE, TRUE, reply[c].usage, reply[c].observed)
  /\ UNCHANGED <<ruleRow, turned>> /\ UnchangedPricing

StreamEnds(c) == reply[c].pc = "open" /\ reply[c].left = <<>> /\ AfterLoop(c)

(* The account's connection fails: the client's response is an error too.  *)
StreamBreaks(c) ==
  /\ reply[c].pc = "open"
  /\ reply' = [reply EXCEPT ![c].pc = "broken"]
  /\ UNCHANGED <<charge, ruleRow, turned>> /\ UnchangedPricing

(* The client leaves, or the server drops the body after its error, and    *)
(* nothing is logged; or it polls the body once more.                      *)
BodyDropped(c) ==
  /\ reply[c].pc \in {"open", "broken"}
  /\ reply' = [reply EXCEPT ![c].pc = "dropped"]
  /\ UNCHANGED <<charge, ruleRow, turned>> /\ UnchangedPricing

BodyPolled(c) == reply[c].pc = "broken" /\ AfterLoop(c)

-----------------------------------------------------------------------------
(*                    Whole bodies and the rules for errors                *)

(* normalized_rule.                                                        *)
ValidRule(input) ==
  /\ input.codes # {} \/ input.keywords # {}
  /\ input.codes \subseteq 100 .. 599 /\ input.code \subseteq 100 .. 599

SaveRule(r, input) ==
  /\ SpendPricing("rules") /\ ValidRule(input)
  /\ ruleRow' = [ruleRow EXCEPT ![r] = [input EXCEPT !.there = TRUE]]
  /\ UNCHANGED <<charge, reply, turned>> /\ UnchangedPrices

DropRule(r) ==
  /\ SpendPricing("rules") /\ ruleRow[r].there
  /\ ruleRow' = [ruleRow EXCEPT ![r] = NoRule]
  /\ UNCHANGED <<charge, reply, turned>> /\ UnchangedPrices

(* A rule's conditions: those it has, all of them or any.                  *)
MatchesError(rule, body) ==
  LET byCode == body.code \in rule.codes
      byWord == rule.keywords \cap body.words # {} IN
  IF rule.all THEN (rule.codes # {} => byCode) /\ (rule.keywords # {} => byWord) ELSE byCode \/ byWord

(* match_response: the first rule by priority, then by id.                 *)
RuleFor(body) ==
  LET found == {r \in RuleIds : ruleRow[r].there /\ ruleRow[r].enabled /\ MatchesError(ruleRow[r], body)} IN
  {r \in found : \A s \in found : \/ ruleRow[r].priority < ruleRow[s].priority
                                  \/ ruleRow[r].priority = ruleRow[s].priority /\ r <= s}

(* A rule that keeps the body keeps the usage it reports.  A translated    *)
(* body has to be JSON: otherwise the call ends without a row.             *)
BodyArrives(c, account, body, converted) ==
  LET failed == body.code \notin 200 .. 299
      rule == IF failed THEN RuleFor(body) ELSE {}
      code == IF rule = {} THEN body.code ELSE OrElse(ruleRow[CHOOSE r \in rule : TRUE].code, body.code)
      rewritten == \E r \in rule : ~ruleRow[r].body
      refused == converted /\ code \in 200 .. 299 /\ ~rewritten /\ ~body.json IN
  /\ charge[c].pc = "resolved" /\ reply[c].pc = "none"
  /\ reply' = [reply EXCEPT ![c].pc = "ended", ![c].code = body.code]
  /\ IF refused THEN UNCHANGED charge
     ELSE Logs(c, account, failed, code < 400, IF rewritten \/ ~body.json THEN NoUsage ELSE body.usage,
               IF rewritten \/ ~body.json THEN {} ELSE body.observed)
  /\ turned' = IF failed /\ rule # {} /\ code < 400 THEN turned \cup {c} ELSE turned
  /\ UNCHANGED ruleRow /\ UnchangedPricing

ResponseStep(c) ==
  \/ \E account \in PricedAccounts, converted \in BOOLEAN :
       \/ \E script \in Scripts : StreamOpens(c, account, script, converted)
       \/ \E body \in Bodies : BodyArrives(c, account, body, converted)
  \/ \E size \in 1 .. Len(reply[c].left) : ChunkArrives(c, size)
  \/ StreamEnds(c) \/ StreamBreaks(c) \/ BodyDropped(c) \/ BodyPolled(c)

ResponsesNext ==
  \/ (PricingEdits \/ \E c \in Charges : ChargeStep(c)) /\ UNCHANGED <<reply, ruleRow, turned>>
  \/ \E c \in Charges : ResponseStep(c)
  \/ \E r \in RuleIds : DropRule(r) \/ \E input \in RuleInputs : SaveRule(r, input)

ResponsesSpec == ResponsesInit /\ [][ResponsesNext]_responseVars

-----------------------------------------------------------------------------
(*                              Properties                                 *)

(* Types, of what is not a table of numbers.                               *)
ResponsesTypeOK ==
  /\ \A c \in Charges : /\ charge[c].pc \in {"idle", "resolved", "answered", "interval", "statsChannel",
                                            "statsPrice", "statsInterval", "logged"}
                        /\ charge[c].base \in Nat /\ charge[c].billed \in Nat /\ charge[c].stats \in Nat
                        /\ reply[c].pc \in {"none", "open", "broken", "dropped", "ended"}
  /\ \A g \in PriceGroups : userRate[g] \subseteq UserRates

ContentOf(sent) == {i \in DOMAIN sent : Len(sent[i]) = 2}
ContentIn(script, n) == {<<script[i].kind, i>> : i \in {j \in 1 .. n : script[j].kind \in ContentKinds}}
LastReport(script, n, f) == LET with == {i \in 1 .. n : script[i].usage[f] # {}} IN
                      IF with = {} THEN {} ELSE script[CHOOSE i \in with : \A j \in with : j <= i].usage[f]

(* Wherever a stream is cut, its client gets each event's content once and *)
(* in order, the role first and one [DONE] at the end; and the usage that  *)
(* is charged is the last each event reported.                             *)
CutsDoNotMatter ==
  \A c \in Charges : reply[c].script # <<>> =>
    LET r == reply[c] IN
    /\ r.pc = "ended" /\ r.left = <<>> => r.read = Len(r.script)
    /\ \A f \in DOMAIN r.usage : r.usage[f] = LastReport(r.script, r.read, f)
    /\ r.converted =>
         /\ {r.sent[i] : i \in ContentOf(r.sent)} = ContentIn(r.script, r.read)
         /\ \A i, j \in ContentOf(r.sent) : i < j => r.sent[i][2] < r.sent[j][2]
         /\ \A i \in DOMAIN r.sent : /\ r.sent[i] = <<"role">> <=> i = 1 /\ r.read > 0
                                     /\ r.sent[i] = <<"[DONE]">> => i = Len(r.sent)
         /\ r.pc = "ended" => r.sent[Len(r.sent)] = <<"[DONE]">>

(* A call whose account did not succeed is charged only under a status     *)
(* that a rule has given it, or when the account redirected it: the body   *)
(* of a redirection costs what an answer costs.                            *)
FailuresAreFree ==
  \A c \in Charges :
    charge[c].failed /\ (charge[c].billed > 0 \/ charge[c].stats > 0) => c \in turned \/ reply[c].code < 400

ChargesSafe ==
  /\ ResponsesTypeOK
  /\ PricesUnambiguous /\ WithinItsPrices /\ OneIntervalFits /\ AccountCostKnown
  /\ CutsDoNotMatter /\ FailuresAreFree
===============================================================================
