------------------------------ MODULE AdmissionMC ------------------------------
(***************************************************************************)
(* The parts a gateway call passes beside the selection of an account:     *)
(* its key's policy, moderation, the audit of its prompt, the refresh of   *)
(* the account's credentials, and the answer with its price.  They share   *)
(* no variable, so the behaviours in which only the steps of one part      *)
(* occur show all that part can do: "focus" says whose steps occur, and    *)
(* the other parts stay in one of their initial states.                    *)
(***************************************************************************)
EXTENDS TLC, CallGuards, OAuthRefresh, Responses

VARIABLE focus

vars == <<admissionVars, riskVars, oauthVars, auditVars, responseVars, focus>>

Init ==
  /\ focus \in {"admission", "risk", "oauth", "audit", "charges"}
  /\ AdmissionInit /\ (focus # "admission" => edits = 0)
  /\ RiskInit /\ (focus # "risk" => mode = "observe" /\ riskBudget.restarts = 1)
  /\ AuditInit /\ (focus # "audit" => config.blocking /\ budget.restarts = 1)
  /\ budget.deletes > 0 => ~config.blocking
  /\ ResponsesInit /\ (focus # "charges" => pricingBudget.calls = 0)
  /\ OAuthInit

Next ==
  /\ UNCHANGED focus
  /\ \/ focus = "admission" /\ AdmissionNext /\ UNCHANGED <<riskVars, oauthVars, auditVars, responseVars>>
     \/ focus = "risk" /\ RiskNext /\ UNCHANGED <<admissionVars, oauthVars, auditVars, responseVars>>
     \/ focus = "oauth" /\ OAuthNext /\ UNCHANGED <<admissionVars, riskVars, auditVars, responseVars>>
     \/ focus = "audit" /\ AuditNext /\ UNCHANGED <<admissionVars, riskVars, oauthVars, responseVars>>
     \/ focus = "charges" /\ ResponsesNext /\ UNCHANGED <<admissionVars, riskVars, oauthVars, auditVars>>

Spec == Init /\ [][Next]_vars

-----------------------------------------------------------------------------
(* One owner with two keys; the first has a quota and a rate limit of 1.   *)
MCKeyOwner == [k \in ApiKeys |-> "u1"]
MCCallKey == [c \in Calls |-> IF c = "c3" THEN "k2" ELSE "k1"]
MCMapsTo == [m \in Models |-> m]
MCKeys ==
  [k \in ApiKeys |-> [alive |-> TRUE, enabled |-> TRUE, group |-> "g1", models |-> {},
                      quota |-> IF k = "k1" THEN 1 ELSE 0, rate |-> IF k = "k1" THEN 1 ELSE 0,
                      quotaFrom |-> 0, rateFrom |-> 0]]

(* The group is one for subscribers, with a subscription, or a standard    *)
(* one that is open to the owner.                                          *)
Start(subscribers, calls, n) ==
  [keys |-> MCKeys,
   owners |-> [o \in Owners |-> [enabled |-> TRUE, allowAll |-> ~subscribers, allowed |-> {}]],
   groups |-> [g \in KeyGroups |-> [enabled |-> TRUE, exclusive |-> FALSE, subscribers |-> subscribers,
                                    models |-> {}, offered |-> Models]],
   subscriptions |-> [x \in Owners \X Scopes |->
                        IF subscribers /\ x[2] # NoGroup THEN [state |-> "active", limit |-> 1, from |-> 0]
                        ELSE NoPlan],
   calls |-> calls, edits |-> n]
MCStarts == {Start(TRUE, {"c1", "c2"}, 1), Start(FALSE, {"c1"}, 2), Start(TRUE, {"c1"}, 2),
             Start(TRUE, {"c1", "c2", "c3"}, 0)}

(* A key whose list is {m1}, in a group whose list may be edited.          *)
MCModelStarts ==
  {[Start(FALSE, {"c1"}, 1) EXCEPT
      !.keys = [k \in ApiKeys |-> [MCKeys[k] EXCEPT !.quota = 0, !.rate = 0, !.models = {"m1"}]]]}

-----------------------------------------------------------------------------
MCUserOf == [c \in Checked |-> "u1"]
MCInputOf == [c \in Checked |-> IF c = "x3" THEN "t2" ELSE "t1"]
RiskBudget(checks, e, r, d, f) == [checks |-> checks, edits |-> e, restarts |-> r, drops |-> d, faults |-> f]
MCRiskBudgets == {RiskBudget({"x1"}, 1, 0, 0, 0), RiskBudget({"x1", "x2"}, 0, 1, 0, 0),
                  RiskBudget({"x1", "x2"}, 0, 0, 0, 1), RiskBudget({"x1", "x2"}, 0, 0, 1, 0),
                  RiskBudget({"x1", "x3"}, 1, 0, 0, 0)}

-----------------------------------------------------------------------------
(* Requests that refresh are alike.                                       *)
Interchangeable == Permutations(Refreshers)
MCParent == [s \in Shadows |-> CHOOSE a \in Holders : TRUE]

-----------------------------------------------------------------------------
MCAuditConfigs == {[blocking |-> TRUE, store |-> FALSE, capacity |-> 1, workers |-> 1],
                   [blocking |-> FALSE, store |-> FALSE, capacity |-> 2, workers |-> 1]}
MCAuditBudgets == {[saves |-> 1, deletes |-> 0, restarts |-> 0, faults |-> 0],
                   [saves |-> 0, deletes |-> 0, restarts |-> 0, faults |-> 1],
                   [saves |-> 0, deletes |-> 2, restarts |-> 0, faults |-> 0],
                   [saves |-> 0, deletes |-> 0, restarts |-> 1, faults |-> 0]}
-----------------------------------------------------------------------------
(* Models a, ab, a_ and c; two groups of platform p, of which the first is *)
(* one for subscribers with a peak; channel k1, and k2 that is new.        *)
Named(text) == [text |-> text, wild |-> FALSE]
Prefix(text) == [text |-> text, wild |-> TRUE]
MCModelNames == {<<"a">>, <<"a", "b">>, <<"c">>}
NoPrices == [platform |-> "p", models |-> <<>>, mode |-> "tokens", input |-> 0, output |-> 0, request |-> 0,
             read |-> {}, write |-> {}, imageIn |-> {}, imageOut |-> {}, intervals |-> <<>>]
NoInterval == [min |-> 0, max |-> {}, input |-> {}, output |-> {}, read |-> {}, write |-> {}]
Tiered ==
  [NoPrices EXCEPT !.models = <<Prefix(<<"a">>)>>, !.input = 2, !.output = 3, !.read = {1}, !.imageOut = {5},
                   !.intervals = <<[NoInterval EXCEPT !.min = 2, !.output = {6}],
                                   [NoInterval EXCEPT !.max = {2}, !.input = {3}]>>]
Dear == [NoPrices EXCEPT !.models = <<Prefix(<<"a">>), Named(<<"c">>)>>, !.input = 9, !.output = 8,
                         !.intervals = <<[NoInterval EXCEPT !.input = {9}]>>]
PerCall == [NoPrices EXCEPT !.models = <<Named(<<"c">>)>>, !.mode = "request", !.request = 2]
Overlapping == [Tiered EXCEPT !.intervals[1].min = 1]
StatsRule(prices, account) == [groups |-> {}, accounts |-> {account}, prices |-> prices]
Saved(prices, rules, applied, source, mapping) ==
  [active |-> TRUE, groups |-> {"pg1"}, source |-> source, mapping |-> mapping, prices |-> prices, rules |-> rules,
   apply |-> applied]
Renames == {[platform |-> "p", source |-> Prefix(<<"a">>), target |-> <<"c">>],
            [platform |-> "p", source |-> Prefix(<<"a", "b">>), target |-> <<"a">>]}
FirstSaved == Saved(<<Tiered, PerCall>>, <<StatsRule(<<Dear>>, "a1")>>, TRUE, "requested", {})
MCChannelInputs ==
  {FirstSaved,
   Saved(<<Dear>>, <<StatsRule(<<PerCall, Tiered>>, "a1")>>, FALSE, "upstream", Renames),
   Saved(<<Tiered, [Dear EXCEPT !.models = <<Prefix(<<"a", "b">>)>>]>>, <<>>, FALSE, "requested", {}),
   Saved(<<Overlapping>>, <<>>, FALSE, "requested", {}),
   Saved(<<[Dear EXCEPT !.models = <<Prefix(<<"_">>)>>]>>, <<>>, TRUE, "requested", {})}
MCGroupInputs == {[platform |-> "p", subscription |-> TRUE, peak |-> TRUE, rate |-> 4, peakRate |-> 6],
                  [platform |-> "p", subscription |-> FALSE, peak |-> FALSE, rate |-> 9, peakRate |-> 4]}
NeverSaved == [there |-> FALSE, edition |-> 0, saved |-> [Saved(<<>>, <<>>, FALSE, "requested", {}) EXCEPT !.groups = {}]]
Prices(g, edited, n, t, r, streamed) ==
  [channels |-> [k \in ChannelIds |-> IF k = "k1" THEN [there |-> TRUE, edition |-> 1, saved |-> FirstSaved] ELSE NeverSaved],
   groups |-> [x \in PriceGroups |-> CHOOSE row \in MCGroupInputs : row.peak],
   group |-> g, budget |-> [edits |-> edited, calls |-> n, turns |-> t, rules |-> r, streams |-> streamed]]
MCPricingStarts ==
  {Prices("pg1", 2, 1, 0, 0, 0), Prices("none", 1, 1, 0, 0, 0), Prices("pg1", 1, 1, 1, 0, 0),
   Prices("pg1", 0, 1, 0, 2, 0), Prices("pg1", 0, 1, 0, 0, 1),
   [Prices("pg1", 0, 0, 0, 0, 0) EXCEPT !.channels = [k \in ChannelIds |-> NeverSaved]]}

Spent(in, out, cached) ==
  [NoUsage EXCEPT !.input = {in}, !.output = {out}, !.cached = {cached}]
Bare == [kind |-> "other", usage |-> NoUsage, model |-> {}]
MCScripts ==
  {<<[Bare EXCEPT !.model = {<<"a">>}], [Bare EXCEPT !.kind = "delta"],
     [Bare EXCEPT !.kind = "completed", !.usage = Spent(1, 2, 3)]>>,
   <<[Bare EXCEPT !.kind = "tool", !.usage = Spent(2, 0, 0)],
     [Bare EXCEPT !.kind = "arguments", !.usage = [NoUsage EXCEPT !.output = {1}, !.write = {1}, !.imageOut = {7}]]>>}
Body(code, reported, json) ==
  [code |-> code, words |-> {"w"}, json |-> json, usage |-> reported, observed |-> {<<"c">>}]
MCBodies == {Body(200, Spent(1, 0, -1), TRUE), Body(200, Spent(1, 1, 5), TRUE), Body(200, NoUsage, FALSE), Body(429, Spent(0, 1, 0), TRUE),
             Body(302, NoUsage, FALSE)}
MCRuleInputs ==
  {[NoRule EXCEPT !.enabled = TRUE, !.codes = {429}, !.keywords = {"w"}, !.all = TRUE, !.code = {200}],
   [NoRule EXCEPT !.enabled = TRUE, !.priority = 1, !.keywords = {"w"}, !.body = FALSE, !.code = {503}],
   [NoRule EXCEPT !.enabled = TRUE, !.code = {503}]}
===============================================================================
