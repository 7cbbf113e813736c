-------------------------------- MODULE Pricing --------------------------------
(***************************************************************************)
(* What a gateway call costs (channels.rs, groups.rs rate multipliers,     *)
(* gateway.rs calculate_cost_breakdown_at and calculate_account_stats_cost)*)
(* beside the edits of the channels, groups and rates it is computed from. *)
(*                                                                         *)
(* A model's name is a sequence of letters, whose case is left out; a      *)
(* price, a rate and a number of tokens are small numbers, and Scale       *)
(* stands for the 1,000,000 that prices and rates are given in.  An option *)
(* is a set of at most one element.                                        *)
(***************************************************************************)
EXTENDS Integers, Sequences, FiniteSets

CONSTANTS
  ModelNames,     \* sequences of letters
  ChannelIds,
  PriceGroups,
  Ungrouped,      \* stands for no group
  PricedAccounts, \* accounts a call may be served by
  Charges,        \* calls
  ChannelInputs,  \* what a channel may be saved as, valid or not
  GroupInputs,    \* rows a group may be saved as
  UserRates,      \* rates a user may be given in a group
  Scale,          \* 1,000,000
  PricingStarts   \* tables and bounds to start from

ASSUME PricingAssumption ==
  Scale \in Nat \ {0} /\ Ungrouped \notin PriceGroups /\ \A r \in UserRates : r \in Nat \ {0}

IsList(s) == Len(s) \in Nat /\ DOMAIN s = 1 .. Len(s)
IsOption(option, S) == \A v \in option : option = {v} /\ v \in S

VARIABLES
  channelRow,   \* channels with their groups, prices and rules; edition: how often they were replaced
  rateRow,     \* groups: platform, subscription, rate, peak, peakRate
  userRate,     \* user_group_rate_multipliers of the keys' owner
  keyGroup,     \* api_keys.group_id of the calls' key
  peakTime,     \* it is between peak_start and peak_end
  charge,       \* the calls
  pricingBudget

pricingVars == <<channelRow, rateRow, userRate, keyGroup, peakTime, charge, pricingBudget>>

OrElse(option, default) == IF option = {} THEN default ELSE CHOOSE v \in option : TRUE
AtLeastZero(n) == IF n < 0 THEN 0 ELSE n
Lesser(m, n) == IF m < n THEN m ELSE n

NoUsage == [f \in {"input", "output", "total", "cached", "write", "imageIn", "imageOut"} |-> {}]
NoCharge == [pc |-> "idle", requested |-> <<>>, mapped |-> <<>>, billing |-> <<>>, source |-> "requested",
             usage |-> NoUsage, statsModel |-> <<>>, account |-> "none", failed |-> FALSE, ok |-> FALSE,
             price |-> {}, interval |-> {}, rate |-> 0, effective |-> 0, base |-> 0, billed |-> 0,
             channel |-> "none", fallback |-> 0, statsPrice |-> {}, stats |-> 0]

PricingInit ==
  /\ \E start \in PricingStarts :
       /\ channelRow = start.channels /\ rateRow = start.groups /\ keyGroup = start.group
       /\ pricingBudget = start.budget
  /\ userRate = [g \in PriceGroups |-> {}] /\ peakTime = FALSE
  /\ charge = [c \in Charges |-> NoCharge]

ChannelThere(k) == channelRow[k].there
ActiveChannels == {k \in ChannelIds : ChannelThere(k) /\ channelRow[k].saved.active}
ChannelOf(g) == {k \in ActiveChannels : g \in channelRow[k].saved.groups}

SpendPricing(what) == pricingBudget[what] > 0 /\ pricingBudget' = [pricingBudget EXCEPT ![what] = @ - 1]

-----------------------------------------------------------------------------
(*                     What a channel may be saved as                      *)

(* sort_by_key keeps the order of those that begin alike.                  *)
Earlier(intervals, i) ==
  {j \in DOMAIN intervals : \/ intervals[j].min < intervals[i].min
                            \/ intervals[j].min = intervals[i].min /\ j < i}
SortedIntervals(intervals) ==
  [k \in DOMAIN intervals |->
     intervals[CHOOSE i \in DOMAIN intervals : Cardinality(Earlier(intervals, i)) = k - 1]]

(* Variant: an interval may begin one token before the last one ends.      *)
FollowsLoosely(left, right) == left.max # {} /\ \A max \in left.max : max <= right.min + 1

Follows(left, right) == left.max # {} /\ \A max \in left.max : max <= right.min

(* validate_intervals.                                                     *)
ValidIntervals(entry) ==
  LET sorted == SortedIntervals(entry.intervals) IN
  /\ entry.intervals # <<>> => entry.mode = "tokens"
  /\ \A i \in DOMAIN sorted :
       /\ sorted[i].min >= 0 /\ \A max \in sorted[i].max : max > sorted[i].min
       /\ \E f \in {"input", "output", "read", "write"} : sorted[i][f] # {}
       /\ i > 1 => Follows(sorted[i - 1], sorted[i])

IsPrefixOf(p, name) == Len(p) <= Len(name) /\ \A i \in DOMAIN p : p[i] = name[i]

(* Variant: only one of two prefixes is compared with the other.           *)
ConflictOneWay(left, right) ==
  CASE ~left.wild /\ ~right.wild -> left.text = right.text
    [] left.wild /\ ~right.wild -> IsPrefixOf(left.text, right.text)
    [] ~left.wild /\ right.wild -> IsPrefixOf(right.text, left.text)
    [] OTHER -> IsPrefixOf(right.text, left.text)

(* model_patterns_conflict, of the one that came first and another.        *)
PatternsConflict(left, right) ==
  CASE ~left.wild /\ ~right.wild -> left.text = right.text
    [] left.wild /\ ~right.wild -> IsPrefixOf(left.text, right.text)
    [] ~left.wild /\ right.wild -> IsPrefixOf(right.text, left.text)
    [] OTHER -> IsPrefixOf(left.text, right.text) \/ IsPrefixOf(right.text, left.text)

(* The patterns of a list of prices, in their order.                       *)
ValidEntries(entries) ==
  /\ \A i \in DOMAIN entries : entries[i].models # <<>> /\ ValidIntervals(entries[i])
  /\ \A i, j \in DOMAIN entries :
       \A x \in DOMAIN entries[i].models, y \in DOMAIN entries[j].models :
         (i < j \/ (i = j /\ x < y)) /\ entries[i].platform = entries[j].platform
            => ~PatternsConflict(entries[i].models[x], entries[j].models[y])

(* validate_channel, and what replace_children and                         *)
(* replace_account_stats_rules refuse.                                     *)
Savable(k, input) ==
  /\ ValidEntries(input.prices)
  /\ \A i \in DOMAIN input.rules :
       /\ input.rules[i].groups \cup input.rules[i].accounts # {} /\ input.rules[i].prices # <<>>
       /\ input.rules[i].groups \subseteq input.groups
       /\ ValidEntries(input.rules[i].prices)
  /\ \A l \in ChannelIds \ {k} : ChannelThere(l) => channelRow[l].saved.groups \cap input.groups = {}

UnchangedPrices == UNCHANGED <<channelRow, rateRow, userRate, keyGroup, peakTime>>

(* create and update: a transaction; the rows get new ids (AUTOINCREMENT). *)
SaveChannel(k, input) ==
  /\ SpendPricing("edits") /\ Savable(k, input) /\ (ChannelThere(k) \/ channelRow[k].edition = 0)
  /\ channelRow' = [channelRow EXCEPT ![k] = [there |-> TRUE, edition |-> @.edition + 1, saved |-> input]]
  /\ UNCHANGED <<rateRow, userRate, keyGroup, peakTime, charge>>

DropChannel(k) ==
  /\ SpendPricing("edits") /\ ChannelThere(k)
  /\ channelRow' = [channelRow EXCEPT ![k].there = FALSE]
  /\ UNCHANGED <<rateRow, userRate, keyGroup, peakTime, charge>>

SaveGroup(g, row) ==
  /\ SpendPricing("edits")
  /\ rateRow' = [rateRow EXCEPT ![g] = row]
  /\ UNCHANGED <<channelRow, userRate, keyGroup, peakTime, charge>>

(* batch_set_rate_multipliers; {} stands for clear_rate_multipliers, or a  *)
(* list without the keys' owner.                                           *)
SetUserRate(g, option) ==
  /\ SpendPricing("edits")
  /\ userRate' = [userRate EXCEPT ![g] = option]
  /\ UNCHANGED <<channelRow, rateRow, keyGroup, peakTime, charge>>

MoveKeyTo(g) ==
  /\ SpendPricing("edits") /\ keyGroup' = g
  /\ UNCHANGED <<channelRow, rateRow, userRate, peakTime, charge>>

PeakTurns ==
  /\ SpendPricing("turns") /\ peakTime' = ~peakTime
  /\ UNCHANGED <<channelRow, rateRow, userRate, keyGroup, charge>>

(* Names, prices and tables as they can be: prices are not negative, and   *)
(* the tables to start from hold what could be saved.                      *)
IsInterval(interval) ==
  /\ interval.min \in Int /\ IsOption(interval.max, Int)
  /\ \A f \in {"input", "output", "read", "write"} : IsOption(interval[f], Nat)
IsEntry(entry) ==
  /\ IsList(entry.models) /\ \A x \in DOMAIN entry.models : IsList(entry.models[x].text) /\ entry.models[x].wild \in BOOLEAN
  /\ IsList(entry.intervals) /\ \A i \in DOMAIN entry.intervals : IsInterval(entry.intervals[i])
  /\ \A f \in {"input", "output", "request"} : entry[f] \in Nat
  /\ \A f \in {"read", "write", "imageIn", "imageOut"} : IsOption(entry[f], Nat)
IsPriceList(entries) == IsList(entries) /\ \A i \in DOMAIN entries : IsEntry(entries[i])
IsInput(input) ==
  IsPriceList(input.prices) /\ IsList(input.rules) /\ \A i \in DOMAIN input.rules : IsPriceList(input.rules[i].prices)
ValidPrices(input) == ValidEntries(input.prices) /\ \A i \in DOMAIN input.rules : ValidEntries(input.rules[i].prices)
IsChannel(row) ==
  /\ DOMAIN row = {"there", "edition", "saved"}
  /\ row.there \in BOOLEAN /\ row.edition \in Nat /\ IsInput(row.saved)
  /\ row.there => row.edition > 0 /\ ValidPrices(row.saved)
ASSUME TablesAssumption ==
  /\ \A name \in ModelNames : IsList(name)
  /\ \A input \in ChannelInputs : IsInput(input)
  /\ \A row \in GroupInputs : row.rate \in Nat /\ row.peakRate \in Nat
  /\ \A start \in PricingStarts :
       /\ start.channels = [k \in ChannelIds |-> start.channels[k]]
       /\ start.groups = [g \in PriceGroups |-> start.groups[g]]
       /\ \A k \in ChannelIds : IsChannel(start.channels[k])
       /\ \A g \in PriceGroups : start.groups[g].rate \in Nat /\ start.groups[g].peakRate \in Nat
       /\ start.group \in PriceGroups \cup {Ungrouped}

-----------------------------------------------------------------------------
(*                        The model of a call                              *)

(* resolve_mapping_rule: the rule of this name, or else the longest prefix.*)
MappedName(rules, name) ==
  LET exact == {r \in rules : r.source.text = name /\ ~r.source.wild}
      prefixes == {r \in rules : r.source.wild /\ IsPrefixOf(r.source.text, name)} IN
  IF exact # {} THEN (CHOOSE r \in exact : TRUE).target
  ELSE IF prefixes = {} THEN name
  ELSE (CHOOSE r \in prefixes : \A s \in prefixes : Len(s.source.text) <= Len(r.source.text)).target

(* resolve_model.                                                          *)
ResolveModel(c, name) ==
  LET there == IF keyGroup = Ungrouped THEN {} ELSE ChannelOf(keyGroup)
      saved == channelRow[CHOOSE k \in there : TRUE].saved
      mapped == IF there = {} THEN name
                ELSE MappedName({r \in saved.mapping : r.platform = rateRow[keyGroup].platform}, name)
      source == IF there = {} THEN "requested" ELSE saved.source IN
  /\ charge[c].pc = "idle" /\ SpendPricing("calls")
  /\ charge' = [charge EXCEPT ![c] =
       [NoCharge EXCEPT !.pc = "resolved", !.requested = name, !.mapped = mapped, !.source = source,
                        !.billing = IF source = "requested" THEN name ELSE mapped]]
  /\ UnchangedPrices

(* log_usage begins: an answer of an account, with the status its row gets.*)
(* failed: the account's own status was an error.                          *)
Logs(c, account, failed, ok, usage, observed) ==
  charge' = [charge EXCEPT ![c] =
    [@ EXCEPT !.pc = IF ok THEN "answered" ELSE "logged",
              !.account = account, !.failed = failed, !.ok = ok, !.usage = usage,
              !.billing = IF charge[c].source = "upstream" THEN OrElse(observed, @) ELSE @,
              !.statsModel = OrElse(observed, charge[c].mapped)]]

-----------------------------------------------------------------------------
(*                          The customer's price                           *)

(* lower(?) LIKE prefix || '%': a "_" of the prefix stands for any letter. *)
LikePrefix(p, name) == Len(p) <= Len(name) /\ \A i \in DOMAIN p : p[i] \in {"_", name[i]}
Fits(pattern, name) == IF pattern.wild THEN LikePrefix(pattern.text, name) ELSE pattern.text = name
Applies(entry, name) == \E i \in DOMAIN entry.models : Fits(entry.models[i], name)

(* The rows of the query.  For a key without a group every channel counts, *)
(* once for each of its groups.                                            *)
PricingRows(name) ==
  LET via(k) == IF keyGroup # Ungrouped THEN {keyGroup} \cap channelRow[k].saved.groups
                ELSE IF channelRow[k].saved.groups = {} THEN {Ungrouped} ELSE channelRow[k].saved.groups IN
  UNION {{[channel |-> k, index |-> i, edition |-> channelRow[k].edition, group |-> g,
           entry |-> channelRow[k].saved.prices[i]] :
             i \in {j \in DOMAIN channelRow[k].saved.prices : Applies(channelRow[k].saved.prices[j], name)},
             g \in via(k)} : k \in ActiveChannels}

ResolvedRate == IF keyGroup = Ungrouped THEN Scale ELSE OrElse(userRate[keyGroup], rateRow[keyGroup].rate)

(* effective_rate_micros_at, peak_multiplier_micros_at.                    *)
PeakMultiplier ==
  IF keyGroup # Ungrouped /\ rateRow[keyGroup].subscription /\ rateRow[keyGroup].peak /\ peakTime
  THEN rateRow[keyGroup].peakRate ELSE Scale
EffectiveRate == (ResolvedRate * PeakMultiplier + Scale \div 2) \div Scale

(* A price per request is not raised in peak time.                         *)
ReadPrice(c) ==
  LET rows == PricingRows(charge[c].billing)
      row == CHOOSE r \in rows : TRUE IN
  /\ charge[c].pc = "answered"
  /\ charge' = [charge EXCEPT ![c] =
       IF Cardinality(rows) # 1 THEN [@ EXCEPT !.pc = "statsChannel"]
       ELSE IF row.entry.mode = "request"
       THEN [@ EXCEPT !.pc = "statsChannel", !.base = row.entry.request,
                      !.billed = (row.entry.request * ResolvedRate) \div Scale]
       ELSE [@ EXCEPT !.pc = "interval", !.price = {row}, !.rate = ResolvedRate, !.effective = EffectiveRate]]
  /\ UNCHANGED pricingBudget /\ UnchangedPrices

Reported(usage, f) == AtLeastZero(OrElse(usage[f], 0))
TotalTokens(usage) == AtLeastZero(OrElse(usage.total, Reported(usage, "input") + Reported(usage, "output")))

(* Variant: as many cached tokens as the account reports.                  *)
KindsAsReported(usage) ==
  LET in == Reported(usage, "input")
      out == Reported(usage, "output")
      cached == Reported(usage, "cached")
      write == Lesser(Reported(usage, "write"), in - cached)
      imageIn == Lesser(Reported(usage, "imageIn"), in - cached - write)
      imageOut == Lesser(Reported(usage, "imageOut"), out) IN
  [input |-> in - cached - write - imageIn, read |-> cached, write |-> write, imageIn |-> imageIn,
   output |-> out - imageOut, imageOut |-> imageOut]

(* Each token is of one kind, whatever the account reports.                *)
Kinds(usage) ==
  LET in == Reported(usage, "input")
      out == Reported(usage, "output")
      cached == Lesser(Reported(usage, "cached"), in)
      write == Lesser(Reported(usage, "write"), in - cached)
      imageIn == Lesser(Reported(usage, "imageIn"), in - cached - write)
      imageOut == Lesser(Reported(usage, "imageOut"), out) IN
  [input |-> in - cached - write - imageIn, read |-> cached, write |-> write, imageIn |-> imageIn,
   output |-> out - imageOut, imageOut |-> imageOut]

InInterval(interval, total) == total > interval.min /\ \A max \in interval.max : total <= max
IntervalFor(intervals, total) ==
  LET fits == {i \in DOMAIN intervals : InInterval(intervals[i], total)} IN
  IF fits = {} THEN {} ELSE {intervals[CHOOSE i \in fits : \A j \in fits : intervals[i].min <= intervals[j].min]}

(* What an interval leaves out is as it is outside of it.                  *)
PricesIn(entry, interval) ==
  LET of(f, default) == IF interval = {} THEN default ELSE OrElse((CHOOSE v \in interval : TRUE)[f], default)
      input == of("input", entry.input)
      output == of("output", entry.output) IN
  [input |-> input, output |-> output,
   read |-> of("read", OrElse(entry.read, input)), write |-> of("write", OrElse(entry.write, input)),
   imageIn |-> OrElse(entry.imageIn, input), imageOut |-> OrElse(entry.imageOut, output)]

Numerator(entry, interval, usage) ==
  LET kinds == Kinds(usage)
      prices == PricesIn(entry, interval) IN
  kinds.input * prices.input + kinds.read * prices.read + kinds.write * prices.write
  + kinds.imageIn * prices.imageIn + kinds.output * prices.output + kinds.imageOut * prices.imageOut

(* The rows of an interval are found by the id of the price they belong to.*)
CustomerIntervals(row) ==
  IF ChannelThere(row.channel) /\ channelRow[row.channel].edition = row.edition THEN row.entry.intervals ELSE <<>>

ReadInterval(c) ==
  LET row == CHOOSE r \in charge[c].price : TRUE
      interval == IntervalFor(CustomerIntervals(row), TotalTokens(charge[c].usage))
      numerator == Numerator(row.entry, interval, charge[c].usage) IN
  /\ charge[c].pc = "interval"
  /\ charge' = [charge EXCEPT ![c] =
       [@ EXCEPT !.pc = "statsChannel", !.interval = interval, !.base = numerator \div Scale,
                 !.billed = (numerator * charge[c].effective) \div (Scale * Scale)]]
  /\ UNCHANGED pricingBudget /\ UnchangedPrices

-----------------------------------------------------------------------------
(*                          The account's cost                             *)

(* Variant: the price before the multiplier, were it 0.                    *)
FallbackBase(apply, base, billed) == IF apply THEN base ELSE billed

FallbackCost(apply, base, billed) == IF apply /\ base > 0 THEN base ELSE billed

ReadStatsChannel(c) ==
  LET there == IF keyGroup = Ungrouped THEN {} ELSE ChannelOf(keyGroup)
      k == CHOOSE l \in there : TRUE IN
  /\ charge[c].pc = "statsChannel"
  /\ charge' = [charge EXCEPT ![c] =
       IF there = {} THEN [@ EXCEPT !.pc = "logged", !.stats = charge[c].billed]
       ELSE [@ EXCEPT !.pc = "statsPrice", !.channel = [id |-> k, group |-> keyGroup, platform |-> rateRow[keyGroup].platform],
                      !.fallback = FallbackCost(channelRow[k].saved.apply, charge[c].base, charge[c].billed)]]
  /\ UNCHANGED pricingBudget /\ UnchangedPrices

(* The rules in their order; in a rule, a price for the model by name      *)
(* before one by a prefix.                                                 *)
StatsRows(c) ==
  LET at == charge[c].channel
      rules == IF ChannelThere(at.id) THEN channelRow[at.id].saved.rules ELSE <<>>
      inScope == {i \in DOMAIN rules : charge[c].account \in rules[i].accounts \/ at.group \in rules[i].groups}
      fits(i, j) == rules[i].prices[j].platform = at.platform /\ Applies(rules[i].prices[j], charge[c].statsModel)
      named(i, j) == \E x \in DOMAIN rules[i].prices[j].models : rules[i].prices[j].models[x].text = charge[c].statsModel
                                                              /\ ~rules[i].prices[j].models[x].wild
      found == UNION {{<<i, j>> : j \in {n \in DOMAIN rules[i].prices : fits(i, n)}} : i \in inScope}
      first == {r \in found : \A s \in found : r[1] <= s[1]}
      before(r, s) == IF named(r[1], r[2]) = named(s[1], s[2]) THEN r[2] <= s[2] ELSE named(r[1], r[2]) IN
  {[channel |-> at.id, edition |-> channelRow[at.id].edition, entry |-> rules[r[1]].prices[r[2]]] :
     r \in {s \in first : \A t \in first : before(s, t)}}

LogsStats(c, cost) ==
  charge' = [charge EXCEPT ![c].pc = "logged", ![c].stats = IF cost > 0 THEN cost ELSE charge[c].fallback]

ReadStatsPrice(c) ==
  LET rows == StatsRows(c)
      row == CHOOSE r \in rows : TRUE IN
  /\ charge[c].pc = "statsPrice"
  /\ IF rows = {} THEN LogsStats(c, 0)
     ELSE IF row.entry.mode = "request" THEN LogsStats(c, row.entry.request)
     ELSE charge' = [charge EXCEPT ![c].pc = "statsInterval", ![c].statsPrice = {row}]
  /\ UNCHANGED pricingBudget /\ UnchangedPrices

ReadStatsInterval(c) ==
  LET row == CHOOSE r \in charge[c].statsPrice : TRUE
      interval == IntervalFor(CustomerIntervals(row), TotalTokens(charge[c].usage)) IN
  /\ charge[c].pc = "statsInterval"
  /\ LogsStats(c, Numerator(row.entry, interval, charge[c].usage) \div Scale)
  /\ UNCHANGED pricingBudget /\ UnchangedPrices

PricingEdits ==
  \/ \E k \in ChannelIds : DropChannel(k) \/ \E input \in ChannelInputs : SaveChannel(k, input)
  \/ \E g \in PriceGroups : \/ \E row \in GroupInputs : SaveGroup(g, row)
                            \/ \E option \in {{}} \cup {{r} : r \in UserRates} : SetUserRate(g, option)
  \/ \E g \in PriceGroups \cup {Ungrouped} : MoveKeyTo(g)
  \/ PeakTurns

ChargeStep(c) ==
  \/ \E name \in ModelNames : ResolveModel(c, name)
  \/ ReadPrice(c) \/ ReadInterval(c)
  \/ ReadStatsChannel(c) \/ ReadStatsPrice(c) \/ ReadStatsInterval(c)

-----------------------------------------------------------------------------
(*                              Properties                                 *)

Wildcards(entry) == \E i \in DOMAIN entry.models : entry.models[i].wild /\ \E x \in DOMAIN entry.models[i].text : entry.models[i].text[x] = "_"

(* No two prices of a channel, on one platform, are for the same model - a *)
(* call is free when two are -, unless a prefix has a letter that LIKE     *)
(* takes for any.                                                          *)
PricesUnambiguous ==
  \A k \in ChannelIds : ChannelThere(k) =>
    LET prices == channelRow[k].saved.prices IN
    \A i, j \in DOMAIN prices, name \in ModelNames :
      Applies(prices[i], name) /\ Applies(prices[j], name) /\ prices[i].platform = prices[j].platform
        => i = j \/ Wildcards(prices[i]) \/ Wildcards(prices[j])

(* The lowest and the highest price that an entry knows of.                *)
PricesOf(entry) ==
  {entry.input, entry.output} \cup entry.read \cup entry.write \cup entry.imageIn \cup entry.imageOut
  \cup UNION {UNION {entry.intervals[i][f] : f \in {"input", "output", "read", "write"}} : i \in DOMAIN entry.intervals}

(* What a call costs is within the prices of the one entry it was priced   *)
(* by, times its tokens and its rate: whatever the account reports of the  *)
(* kinds of tokens, however channels are saved meanwhile.                  *)
WithinItsPrices ==
  \A c \in Charges : \A row \in charge[c].price :
    charge[c].pc \notin {"interval"} =>
      LET tokens == Reported(charge[c].usage, "input") + Reported(charge[c].usage, "output")
          rate == charge[c].effective IN
      /\ \E p \in PricesOf(row.entry) : charge[c].base * Scale <= p * tokens
                                        /\ charge[c].billed * Scale * Scale <= p * tokens * rate
      /\ \E p \in PricesOf(row.entry) : (charge[c].base + 1) * Scale > p * tokens
                                        /\ (charge[c].billed + 1) * Scale * Scale > p * tokens * rate

(* It is the interval that the total lies in: the only one, unless the     *)
(* channel was saved between the two queries.                              *)
OneIntervalFits ==
  \A c \in Charges : \A row \in charge[c].price :
    LET fits == {i \in DOMAIN row.entry.intervals : InInterval(row.entry.intervals[i], TotalTokens(charge[c].usage))} IN
    /\ Cardinality(fits) <= 1
    /\ charge[c].pc # "interval" =>
         \/ charge[c].interval = {row.entry.intervals[i] : i \in fits}
         \/ charge[c].interval = {} /\ ~(ChannelThere(row.channel) /\ channelRow[row.channel].edition = row.edition)

(* A call that its customer pays for costs its account something.          *)
AccountCostKnown ==
  \A c \in Charges : charge[c].pc = "logged" /\ charge[c].billed > 0 => charge[c].stats > 0
=============================================================================
