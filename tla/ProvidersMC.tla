----------------------------- MODULE ProvidersMC -----------------------------
(* A provider of either kind, or none yet, and what may happen to it.       *)
EXTENDS ImageProviders

Gemini == [state |-> "there", kind |-> "gemini", base |-> GeminiUrl, tokenUrl |-> "google", key |-> 1, account |-> 0]
Vertex == [state |-> "there", kind |-> "vertex", base |-> "", tokenUrl |-> "google", key |-> 0, account |-> 1]
ProviderGiven(row, bases, endpoints, credentials, edited, removed, submitted, polled, probed, more, t, stops) ==
  [row |-> row,
   budget |-> [bases |-> bases, endpoints |-> endpoints, credentials |-> credentials, edits |-> edited,
               deletions |-> removed, submits |-> submitted, polls |-> polled, probes |-> probed, requests |-> more,
               minutes |-> t, restarts |-> stops]]
Google == {"google"}
Endpoints == {"google", "loopback"}
MCProviderStarts ==
  {ProviderGiven(Gemini, {"", "other"}, Google, {0, 2}, 1, 0, 1, 1, 0, 0, 0, 1),
   ProviderGiven(Vertex, {"other"}, Endpoints, {0, 2}, 1, 0, 1, 1, 0, 0, 0, 0),
   ProviderGiven(Vertex, {"other"}, Endpoints, {0, 2}, 1, 0, 0, 0, 2, 0, 0, 0),
   ProviderGiven(Vertex, {""}, Google, {0, 2}, 2, 0, 1, 0, 0, 0, 0, 0),
   ProviderGiven(Vertex, {""}, Google, {0}, 0, 0, 0, 0, 2, 1, 4, 0),
   ProviderGiven([Gemini EXCEPT !.state = "none"], {""}, Google, {0, 1}, 1, 2, 1, 0, 0, 0, 0, 0),
   ProviderGiven(Gemini, {}, {}, {}, 0, 0, 0, 0, 0, 0, 0, 0)}
===============================================================================
