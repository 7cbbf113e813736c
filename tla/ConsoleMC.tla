-------------------------------- MODULE ConsoleMC --------------------------------
(***************************************************************************)
(* What users and administrators do in the console: they redeem codes,     *)
(* change addresses and passwords, sign in, and edit proxies and accounts. *)
(* As in AdmissionMC, "focus" says which part's steps occur.               *)
(***************************************************************************)
EXTENDS BillingMC, Accounts, Console, ProvidersMC

VARIABLES
  focus,
  batchBalance, batchFrozen, batchEnabled, batchLedger, batchGranted, batchPrice, batchOpen,
  batchJobs, batchRemote, submitters, cancellers, purgers, batchScheduler, batchCrashes

(* Two submissions under one Idempotency-Key, of one image each, that two  *)
(* providers may take.                                                     *)
Submissions == {"r1", "r2"}
Takers == {"p1", "p2"}
ForAll(names, value) == [n \in names |-> value]
Keyed == INSTANCE BatchImages WITH
  Users <- {"w1"}, Owner <- ForAll(Submissions, "w1"), Opening <- ForAll({"w1"}, 6), Deltas <- {}, Suspects <- {},
  Requests <- Submissions, Items <- ForAll(Submissions, 1),
  Keys <- {"k1"}, NoKey <- "none", IdemKey <- ForAll(Submissions, "k1"),
  Providers <- Takers, NoProvider <- "none", Rank <- [p1 |-> 1, p2 |-> 2], Concurrency <- ForAll(Takers, 2),
  DiscountBps <- ForAll(Takers, 5000), HoldBps <- ForAll(Takers, 6000), Prices <- {4}, Edited <- {},
  MaxBalance <- 6, MaxRetry <- 1, PassLimit <- 10, MaxCrashes <- 0,
  balance <- batchBalance, frozen <- batchFrozen, enabled <- batchEnabled, ledger <- batchLedger,
  granted <- batchGranted, price <- batchPrice, open <- batchOpen, job <- batchJobs, remote <- batchRemote,
  submit <- submitters, cancel <- cancellers, purge <- purgers, sched <- batchScheduler, crashes <- batchCrashes
keyedVars == <<batchBalance, batchFrozen, batchEnabled, batchLedger, batchGranted, batchPrice, batchOpen,
               batchJobs, batchRemote, submitters, cancellers, purgers, batchScheduler, batchCrashes>>
OneJobPerKey == Keyed!OneJobPerKey

consoleVars == <<vars, routeVars, emailVars, sessionVars, mailVars, listVars, fileVars, imageVars, keyedVars, focus>>

ConsoleInit ==
  /\ focus \in {"codes", "routes", "emails", "sessions", "mail", "lists", "files", "providers", "keys"}
  /\ Init /\ Keyed!Init
  /\ RouteInit /\ (focus # "routes" => routeBudget.restarts = 1)
  /\ EmailInit /\ (focus # "emails" => emailBudget.requests = 0)
  /\ SessionInit /\ (focus # "sessions" => sessionBudget.logins = 0)
  /\ MailInit /\ (focus # "mail" => mailBudget.mails = 0)
  /\ ListInit /\ (focus # "lists" => listBudget.lists + listBudget.catalogs + listBudget.saves = 0)
  /\ FileInit
  /\ focus # "files" => fileBudget.downloads + fileBudget.faults + fileBudget.cancels + fileBudget.drops = 0
  /\ ImageInit /\ (focus # "providers" => imageBudget.edits + imageBudget.probes = 0)

ConsoleNext ==
  /\ UNCHANGED focus
  /\ \/ focus = "codes" /\ Next
        /\ UNCHANGED <<routeVars, emailVars, sessionVars, mailVars, listVars, fileVars, imageVars, keyedVars>>
     \/ focus = "routes" /\ RouteNext
        /\ UNCHANGED <<vars, emailVars, sessionVars, mailVars, listVars, fileVars, imageVars, keyedVars>>
     \/ focus = "emails" /\ EmailNext
        /\ UNCHANGED <<vars, routeVars, sessionVars, mailVars, listVars, fileVars, imageVars, keyedVars>>
     \/ focus = "sessions" /\ SessionNext
        /\ UNCHANGED <<vars, routeVars, emailVars, mailVars, listVars, fileVars, imageVars, keyedVars>>
     \/ focus = "mail" /\ MailNext
        /\ UNCHANGED <<vars, routeVars, emailVars, sessionVars, listVars, fileVars, imageVars, keyedVars>>
     \/ focus = "lists" /\ ListNext
        /\ UNCHANGED <<vars, routeVars, emailVars, sessionVars, mailVars, fileVars, imageVars, keyedVars>>
     \/ focus = "files" /\ FileNext
        /\ UNCHANGED <<vars, routeVars, emailVars, sessionVars, mailVars, listVars, imageVars, keyedVars>>
     \/ focus = "providers" /\ ImageNext
        /\ UNCHANGED <<vars, routeVars, emailVars, sessionVars, mailVars, listVars, fileVars, keyedVars>>
     \/ focus = "keys" /\ Keyed!Next
        /\ UNCHANGED <<vars, routeVars, emailVars, sessionVars, mailVars, listVars, fileVars, imageVars>>

ConsoleSpec == ConsoleInit /\ [][ConsoleNext]_consoleVars

-----------------------------------------------------------------------------
(* Proxies 1, 2, 3 and accounts 1, 2, 3; the first account has a shadow or *)
(* is about to get one.                                                    *)
Proxy(url, fallback, backup) ==
  [state |-> "there", url |-> url, usable |-> TRUE, mode |-> fallback, backup |-> backup]
NoRowYet == [Proxy("u1", "none", 0) EXCEPT !.state = "unused"]
Account(p, profile, parent, id) ==
  [state |-> "there", kind |-> "oauth", proxy |-> p, profile |-> profile, parent |-> parent, crs |-> id]
NoAccountYet == [Account(0, FALSE, 0, "none") EXCEPT !.state = "unused"]

Chained == <<Proxy("u1", "proxy", 2), Proxy("u2", "proxy", 3), Proxy("u2", "none", 0)>>
Loose == <<Proxy("u1", "none", 0), Proxy("u2", "none", 0), NoRowYet>>
Single == <<Proxy("u1", "direct", 0), NoRowYet, NoRowYet>>
NoAccounts == <<NoAccountYet, NoAccountYet, NoAccountYet>>
WithShadow == <<Account(1, TRUE, 0, "r1"), Account(1, FALSE, 1, "none"), NoAccountYet>>
WithoutShadow == <<Account(1, FALSE, 0, "r1"), NoAccountYet, NoAccountYet>>

Given(proxies, accounts, tasks, requests, calls, drops, restarts) ==
  [proxies |-> proxies, accounts |-> accounts,
   budget |-> [tasks |-> tasks, requests |-> requests, calls |-> calls, drops |-> drops, restarts |-> restarts,
               expiries |-> calls]]
MCRouteStarts ==
  {Given(Chained, NoAccounts, {"proxy"}, 2, 0, 0, 0), Given(Single, NoAccounts, {"import", "proxy"}, 2, 0, 0, 0),
   Given(Loose, WithShadow, {"account", "sync"}, 2, 0, 0, 0), Given(Loose, WithoutShadow, {"copy", "sync", "account"}, 2, 0, 0, 0),
   Given(Loose, WithShadow, {"delete", "account", "proxy"}, 2, 0, 0, 0), Given(Loose, WithShadow, {"account", "profile"}, 1, 0, 1, 1),
   Given(Loose, WithShadow, {"profile"}, 2, 2, 1, 0), Given(Loose, WithShadow, {"profile", "delete"}, 1, 2, 0, 0)}
MCPackages ==
  {[kind |-> k, account |-> "u1",
    proxies |-> <<[url |-> "u1", usable |-> FALSE, mode |-> "proxy", to |-> "u2"],
                  [url |-> "u2", usable |-> TRUE, mode |-> "proxy", to |-> "u1"]>>] : k \in {"batch", "data"}}
-----------------------------------------------------------------------------
(* The first user has the first address, verified; the second is new.      *)
Member1 == [NoPerson EXCEPT !.there = TRUE, !.enabled = TRUE, !.email = {"m1"}, !.verified = TRUE, !.admin = TRUE]
Mailing(second, requests, d, n, edited, t) ==
  [people |-> [u \in People |-> IF u = "w1" THEN Member1 ELSE second],
   budget |-> [requests |-> requests, drops |-> d, entries |-> n, edits |-> edited, minutes |-> t]]
Bare1 == [Member1 EXCEPT !.email = {}, !.verified = FALSE]
MCEmailStarts ==
  {Mailing(NoPerson, 2, 0, 1, 0, 0), Mailing(NoPerson, 1, 1, 1, 1, 0), Mailing(NoPerson, 2, 0, 0, 0, 1),
   Mailing(NoPerson, 1, 0, 1, 0, 1), Mailing(Bare1, 2, 0, 1, 0, 0), Mailing(Bare1, 1, 0, 2, 1, 0),
   Mailing(Bare1, 1, 0, 1, 2, 0), Mailing(NoPerson, 0, 0, 0, 0, 0)}
-----------------------------------------------------------------------------
(* One user, with a second factor that has two recovery codes, or without. *)
SignedUp(factor, pending) ==
  [m \in Members |-> [enabled |-> TRUE, password |-> 1, secret |-> factor, pending |-> pending,
                      spare |-> IF factor # 0 THEN RecoveryCodes ELSE {}]]
Signing(logins, n, answers, changed, edited, d, stops) ==
  [logins |-> logins, budget |-> [logins |-> n, answers |-> answers, changes |-> changed, edits |-> edited,
                                  drops |-> d, restarts |-> stops]]
MCSessionStarts ==
  {Signing(SignedUp(2, 0), 1, 3, 0, 0, 0, 0), Signing(SignedUp(2, 0), 2, 2, 0, 0, 1, 0), Signing(SignedUp(2, 0), 2, 1, 1, 1, 0, 0), Signing(SignedUp(0, 3), 1, 0, 3, 0, 0, 0),
   Signing(SignedUp(0, 0), 2, 0, 1, 1, 1, 1), Signing(SignedUp(0, 0), 1, 0, 0, 0, 0, 2), Signing(SignedUp(0, 0), 0, 0, 0, 0, 0, 0)}
-----------------------------------------------------------------------------
Server(mode, security, loopback, user) ==
  [mode |-> mode, security |-> security, loopback |-> loopback, user |-> user, host |-> TRUE]
MCMailInputs ==
  {Server("auto", "starttls", FALSE, TRUE), Server("smtp", "plain", FALSE, TRUE), Server("smtp", "plain", TRUE, FALSE),
   Server("webhook", "implicit_tls", FALSE, TRUE)}
MailGiven(input, n, saves, t) ==
  [setting |-> [x \in DOMAIN input \cup {"password"} |-> IF x = "password" THEN input.user ELSE input[x]],
   budget |-> [mails |-> n, saves |-> saves, timeouts |-> t]]
MCMailStarts ==
  {MailGiven(Server("smtp", "starttls", FALSE, TRUE), 1, 1, 1), MailGiven(Server("auto", "plain", TRUE, FALSE), 1, 2, 0),
   MailGiven(Server("smtp", "implicit_tls", FALSE, TRUE), 2, 0, 0), MailGiven(Server("smtp", "plain", TRUE, FALSE), 0, 0, 0)}
-----------------------------------------------------------------------------
Entry(key, model) == [key |-> key, model |-> model]
MCUpstreamSays ==
  <<[shape |-> "data", entries |-> {Entry("id", "m1"), Entry("id", "m2"), Entry("slug", "m3")}],
    [shape |-> "models", entries |-> {Entry("slug", "m1"), Entry("none", "m2")}]>>
ListGiven(c, n, shown, d, f, w, ops, v, t, stops) ==
  [credentials |-> c, settings |-> [attempts |-> 2, ticks |-> 1],
   budget |-> [lists |-> n, catalogs |-> shown, drops |-> d, failures |-> f, writes |-> w, ops |-> ops, saves |-> v,
               ticks |-> t, restarts |-> stops]]
AnyWrite == Operations \X {1}
MCListStarts ==
  {ListGiven(<<1, 2>>, 2, 0, 0, 1, 0, {}, 0, 0, 0), ListGiven(<<1, 2>>, 1, 1, 0, 1, 0, {}, 0, 0, 0),
   ListGiven(<<1, 2>>, 1, 0, 1, 3, 0, {}, 0, 0, 0), ListGiven(<<1, 1>>, 1, 0, 0, 0, 2, AnyWrite, 0, 0, 0),
   ListGiven(<<1, 1>>, 0, 1, 0, 0, 2, AnyWrite, 0, 0, 0), ListGiven(<<1, 1>>, 2, 0, 0, 0, 0, {}, 0, 1, 0),
   ListGiven(<<1, 1>>, 1, 0, 0, 0, 0, {}, 1, 1, 0), ListGiven(<<1, 1>>, 0, 0, 1, 0, 0, {}, 2, 0, 1),
   ListGiven(<<1, 1>>, 0, 0, 0, 0, 0, {}, 0, 0, 0)}
-----------------------------------------------------------------------------
(* Batches of one or two images; "a b" and "a_b" have the same safe        *)
(* characters, and file names cannot hold the two dots of "a..b".          *)
MCAutoNames == <<"i1", "i2">>
MCSafe == [w \in {"a b", "a_b", "a..b", "i1", "i2"} |-> IF w = "a b" THEN "a_b" ELSE w]
Wanted(id, prompt, outputs) == [id |-> id, prompt |-> prompt, outputs |-> outputs]
Alike == <<Wanted(<<"a b">>, "p1", 1), Wanted(<<"a_b">>, "p2", 0)>>
Twice == <<Wanted(<<>>, "p1", 2)>>
TwoDots == <<Wanted(<<"a..b">>, "p1", 1), Wanted(<<>>, "p2", 1)>>
Unnumbered == {Alike, Twice, <<Wanted(<<>>, "p1", 2), Wanted(<<"i1", 2>>, "p2", 1)>>}
Batch(requests, verdicts, extras, several, single, n, removed, f, c, d, e, stops) ==
  [requests |-> requests, verdicts |-> verdicts, extras |-> extras, several |-> several, single |-> single,
   downloads |-> n, removals |-> removed, faults |-> f, cancels |-> c, drops |-> d, edits |-> e, restarts |-> stops]
AnyVerdict == {"image", "error", "nothing"}
AnyExtra == {"none", "foreign", "malformed", "duplicate"}
MCFileStarts ==
  {Batch(Unnumbered, AnyVerdict, AnyExtra, TRUE, TRUE, 0, 0, 1, 1, 0, 0, 1),
   Batch({Alike}, AnyVerdict, AnyExtra, FALSE, TRUE, 0, 0, 1, 0, 0, 0, 1),
   Batch({Alike}, {"image"}, {"none"}, FALSE, FALSE, 3, 0, 0, 0, 0, 0, 0),
   Batch({Alike}, {"image"}, {"none"}, FALSE, FALSE, 2, 1, 0, 0, 0, 0, 0),
   Batch({Alike}, {"image"}, {"none"}, FALSE, TRUE, 2, 0, 0, 0, 1, 0, 1),
   Batch({Alike}, {"image"}, {"none"}, TRUE, FALSE, 1, 2, 1, 0, 0, 1, 0),
   Batch({TwoDots}, {"image", "error"}, {"none"}, FALSE, TRUE, 1, 1, 0, 0, 0, 0, 0),
   Batch({Alike}, {"image"}, {"none"}, FALSE, TRUE, 0, 0, 0, 0, 0, 0, 0)}
==================================================================================
