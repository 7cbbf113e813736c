----------------------------- MODULE CallProofs -----------------------------
(***************************************************************************)
(* What every gateway call passes, for any number of keys, owners, groups, *)
(* calls, users, accounts and edits: the policy of its key first,          *)
(* moderation and the audit of its prompt after it, then the refresh of    *)
(* the tokens of the account it is given.                                  *)
(*                                                                         *)
(* A quota is checked before the usage of a call is known and while other  *)
(* calls are under way, so it can be exceeded.  The invariant of the       *)
(* policy counts ahead: what is used, and what the calls that have passed  *)
(* the check may still use, stays below the limit and what the most calls  *)
(* ever in progress at once may use.                                       *)
(*                                                                         *)
(* A user is banned in time, a key's load is that of its calls, a known    *)
(* text is never served, in blocking mode no prompt passes that was not    *)
(* scanned, slots are given back and no waiter sleeps forever.  And        *)
(* nothing is deleted that its preview did not show.                       *)
(*                                                                         *)
(* A grant is not lost or presented after it was used up, except by a      *)
(* request that is lost or a row that is written back.                     *)
(***************************************************************************)
EXTENDS CallGuards, OAuthRefresh, TotalsProofs

-----------------------------------------------------------------------------
(*                          What calls may still use                       *)

\* What n calls use at most.
Allowance(n) == MaxAmount * n

\* The greatest amount is one.
LEMMA MaxAmountIs == MaxAmount \in Amounts /\ MaxAmount \in Nat /\ \A a \in Amounts : a \in Nat /\ a <= MaxAmount
BY AdmissionNumbers, GreatestOf DEF MaxAmount

\* More calls may use more, each as much as the greatest amount.
LEMMA AllowanceGrows ==
  /\ \A n \in Nat : Allowance(n) \in Nat /\ Allowance(n + 1) = Allowance(n) + MaxAmount
  /\ \A m, n \in Nat : m <= n => Allowance(m) <= Allowance(n)
<1> DEFINE M == MaxAmount
<1>1. M \in Nat BY MaxAmountIs
<1> HIDE DEF M
<1>2. ASSUME NEW n \in Nat PROVE M * n \in Nat /\ M * (n + 1) = M * n + M BY <1>1
<1>3. ASSUME NEW m \in Nat, NEW n \in Nat, m <= n PROVE M * m <= M * n BY <1>3, <1>1
<1> QED BY <1>2, <1>3 DEF Allowance, M

\* Of a limit u is used, the calls C may use more, and at most p calls were
\* ever in progress at once.
Room(u, C, limit, p) == u + Allowance(Cardinality(C)) < limit + Allowance(p)

\* Less use, fewer calls and a higher peak leave room.
LEMMA RoomKept ==
  ASSUME NEW u \in Nat, NEW v \in Nat, v <= u, NEW C, IsFiniteSet(C), NEW D \in SUBSET C,
         NEW limit \in Nat, NEW p \in Nat, NEW q \in Nat, p <= q, Room(u, C, limit, p)
  PROVE  Room(v, D, limit, q)
<1>1. IsFiniteSet(D) /\ Cardinality(D) <= Cardinality(C) BY FS_Subset
<1>2. Cardinality(D) \in Nat /\ Cardinality(C) \in Nat BY <1>1, FS_CardinalityType
<1> DEFINE a == Allowance(Cardinality(D))
           b == Allowance(Cardinality(C))
           c == Allowance(p)
           d == Allowance(q)
<1>3. a \in Nat /\ b \in Nat /\ c \in Nat /\ d \in Nat /\ a <= b /\ c <= d BY <1>1, <1>2, AllowanceGrows
<1>4. u + b < limit + c BY DEF Room
<1> HIDE DEF a, b, c, d
<1>5. v + a < limit + d BY <1>3, <1>4
<1> QED BY <1>5 DEF Room, a, d

\* A call that ends uses up what it was allowed.
LEMMA RoomPays ==
  ASSUME NEW u \in Nat, NEW v \in Nat, v <= u + MaxAmount, NEW C, IsFiniteSet(C), NEW x \in C, NEW D \in SUBSET (C \ {x}),
         NEW limit \in Nat, NEW p \in Nat, Room(u, C, limit, p)
  PROVE  Room(v, D, limit, p)
<1>1. IsFiniteSet(C \ {x}) /\ Cardinality(C \ {x}) = Cardinality(C) - 1 BY FS_RemoveElement
<1>2. IsFiniteSet(D) /\ Cardinality(D) <= Cardinality(C \ {x}) BY <1>1, FS_Subset
<1>3. Cardinality(D) \in Nat /\ Cardinality(C) \in Nat /\ Cardinality(C \ {x}) \in Nat
  BY <1>1, <1>2, FS_CardinalityType
<1> DEFINE n == Cardinality(C \ {x})
           a == Allowance(Cardinality(D))
           b == Allowance(n)
           c == Allowance(p)
           M == MaxAmount
<1>4. Cardinality(C) = n + 1 BY <1>1, <1>3
<1>5. a \in Nat /\ b \in Nat /\ c \in Nat /\ a <= b /\ M \in Nat BY <1>2, <1>3, AllowanceGrows, MaxAmountIs
<1>6. Allowance(Cardinality(C)) = b + M BY <1>3, <1>4, AllowanceGrows
<1>7. u + (b + M) < limit + c BY <1>6 DEF Room
<1>8. v <= u + M OBVIOUS
<1> HIDE DEF a, b, c, M
<1>9. v + a < limit + c BY <1>5, <1>7, <1>8
<1> QED BY <1>9 DEF Room, a, c

\* A limit that is not used up has room for all the calls in progress.
LEMMA RoomStarts ==
  ASSUME NEW u \in Nat, NEW limit \in Nat, u < limit, NEW C, IsFiniteSet(C), NEW p \in Nat, Cardinality(C) <= p
  PROVE  Room(u, C, limit, p)
<1>1. Cardinality(C) \in Nat BY FS_CardinalityType
<1> DEFINE b == Allowance(Cardinality(C))
           c == Allowance(p)
<1>2. b \in Nat /\ c \in Nat /\ b <= c BY <1>1, AllowanceGrows
<1> HIDE DEF b, c
<1>3. u + b < limit + c BY <1>2
<1> QED BY <1>3 DEF Room, b, c

\* What is used exceeds the limit by no more than the most calls may use.
LEMMA RoomEnough ==
  ASSUME NEW u \in Nat, NEW limit \in Nat, NEW C, IsFiniteSet(C), NEW p \in Nat, Room(u, C, limit, p)
  PROVE  u < limit + Allowance(p)
<1>1. Cardinality(C) \in Nat BY FS_CardinalityType
<1> DEFINE b == Allowance(Cardinality(C))
           c == Allowance(p)
<1>2. b \in Nat /\ c \in Nat BY <1>1, AllowanceGrows
<1>3. u + b < limit + c BY DEF Room
<1> HIDE DEF b, c
<1>4. u < limit + c BY <1>2, <1>3
<1> QED BY <1>4 DEF c

-----------------------------------------------------------------------------
(*                              The invariant                              *)

Busy(c) == call[c].pc \notin {"new", "end"}

\* The row a call has read is its key's, but for what was edited since: the
\* models, a switch, or a reset.
Snapshots ==
  \A c \in Calls :
    LET k == CallKey[c] IN
    Busy(c) /\ k \notin loosened =>
      /\ call[c].row.group = keyRow[k].group
      /\ call[c].row.quota = keyRow[k].quota /\ call[c].row.quotaFrom <= keyRow[k].quotaFrom
      /\ call[c].row.rate = keyRow[k].rate /\ call[c].row.rateFrom <= keyRow[k].rateFrom

\* The peaks cover the calls in progress, and a row belongs to its key's owner.
PeaksKnown ==
  /\ \A k \in ApiKeys : Cardinality(InProgress(k)) <= peak[k]
  /\ \A o \in Owners : Cardinality(OfOwner(o)) <= peak[o]

RowsOwned == \A i \in DOMAIN usage : usage[i].key # NoKey => KeyOwner[usage[i].key] = usage[i].owner

\* The calls of a key that have passed its policy, and their rows.
Passed(k) == {c \in Calls : CallKey[c] = k /\ call[c].pc \notin {"new", "policy", "end"}}
QuotaRows(k) == RowsOfKey(k, keyRow[k].quotaFrom)
RateRows(k) == RowsOfKey(k, keyRow[k].rateFrom) \cap {i \in DOMAIN usage : i > windowStart}

KeyRoom(k) ==
  /\ keyRow[k].quota > 0 => Room(Used(QuotaRows(k)), Passed(k), keyRow[k].quota, peak[k])
  /\ keyRow[k].rate > 0 => Room(Used(RateRows(k)), Passed(k), keyRow[k].rate, peak[k])

\* The calls in a group that were or will not be measured against its
\* owner's subscription as it is now.
Plan(o, g) == subscription[<<o, g>>]
Unmeasured(o, g) ==
  {c \in Calls : /\ KeyOwner[CallKey[c]] = o /\ call[c].row.group = g
                 /\ \/ call[c].pc \in {"group", "model", "serving"}
                    \/ call[c].pc = "sum" /\ ~(call[c].scope = g /\ call[c].plan = Plan(o, g))}
PlanRows(o, g) == RowsOfPlan(o, g, Plan(o, g).from)
Limited(o, g) == Plan(o, g).state = "active" /\ Plan(o, g).limit > 0 /\ \A k \in loosened : KeyOwner[k] # o

PlanRoom(o, g) == Limited(o, g) => Room(Used(PlanRows(o, g)), Unmeasured(o, g), Plan(o, g).limit, peak[o])

Counts == /\ \A k \in ApiKeys \ loosened : KeyRoom(k)
          /\ \A o \in Owners, g \in KeyGroups : PlanRoom(o, g)

-----------------------------------------------------------------------------
(*                                 Types                                   *)

\* What the columns of a key's row and of a subscription hold.
LEMMA RowTypes ==
  /\ \A r \in KeyRow : /\ r.group \in Scopes /\ r.quota \in Nat /\ r.rate \in Nat /\ r.quotaFrom \in Nat
                       /\ r.rateFrom \in Nat /\ r.alive \in BOOLEAN /\ r.enabled \in BOOLEAN
  /\ \A s \in Subscription : s.limit \in Nat /\ s.from \in Nat
  /\ NoRow \in GroupRow /\ NoPlan \in Subscription
  /\ NoGroup \in Scopes /\ KeyGroups \subseteq Scopes
BY AdmissionNumbers DEF KeyRow, Subscription, NoRow, GroupRow, NoPlan, Scopes

\* Usage rows are finitely many, with amounts.
LEMMA UsageTypes ==
  ASSUME AdmissionTypeOK
  PROVE  /\ IsFiniteSet(DOMAIN usage) /\ DOMAIN usage \subseteq Nat /\ lastUsage \in Nat
         /\ \A i \in DOMAIN usage : /\ usage[i].amount \in Nat /\ usage[i].amount <= MaxAmount
                                    /\ usage[i].owner \in Owners /\ i \in Nat /\ i <= lastUsage
                                    /\ usage[i].key \in ApiKeys \cup {NoKey}
<1>1. lastUsage \in Nat /\ DOMAIN usage \in SUBSET (1 .. lastUsage) BY DEF AdmissionTypeOK
<1>2. IsFiniteSet(1 .. lastUsage) BY <1>1, FS_Interval
<1>3. IsFiniteSet(DOMAIN usage) BY <1>1, <1>2, FS_Subset
<1>4. \A i \in DOMAIN usage : usage[i].amount \in Amounts /\ usage[i].owner \in Owners /\ usage[i].key \in ApiKeys \cup {NoKey}
  BY DEF AdmissionTypeOK
<1>5. ASSUME NEW i \in DOMAIN usage PROVE i \in Nat /\ i <= lastUsage BY <1>1
<1>6. DOMAIN usage \subseteq Nat BY <1>5
<1>7. \A i \in DOMAIN usage : usage[i].amount \in Nat /\ usage[i].amount <= MaxAmount BY <1>4, MaxAmountIs
<1> QED BY <1>1, <1>3, <1>4, <1>5, <1>6, <1>7

\* What rows use is a number.
LEMMA UsedType ==
  ASSUME AdmissionTypeOK, NEW S \in SUBSET (DOMAIN usage)
  PROVE  Used(S) \in Nat /\ IsFiniteSet(S)
BY UsageTypes, FS_Subset, TotalType DEF Used

\* Fewer rows use less.
LEMMA UsedLess ==
  ASSUME AdmissionTypeOK, NEW T \in SUBSET (DOMAIN usage), NEW S \in SUBSET T
  PROVE  Used(S) <= Used(T)
BY UsedType, UsageTypes, TotalWithin DEF Used

\* Rows are deleted or lose their key; none is new.
UsageKept ==
  /\ DOMAIN usage' \subseteq DOMAIN usage
  /\ \A i \in DOMAIN usage' : /\ usage'[i].amount = usage[i].amount /\ usage'[i].owner = usage[i].owner
                              /\ usage'[i].key \in {usage[i].key, NoKey}

\* Rows that stay, or some of them, use no more.
LEMMA UsedKept ==
  ASSUME AdmissionTypeOK, NEW T \in SUBSET (DOMAIN usage), NEW S \in SUBSET T,
         \A i \in S : usage'[i].amount = usage[i].amount
  PROVE  Total(S, [i \in S |-> usage'[i].amount]) \in Nat /\ Total(S, [i \in S |-> usage'[i].amount]) <= Used(T)
BY UsedType, UsageTypes, TotalWithin DEF Used

\* A new row adds at most the greatest amount.
LEMMA UsedMore ==
  ASSUME AdmissionTypeOK, NEW n, n \notin DOMAIN usage, DOMAIN usage' = DOMAIN usage \cup {n},
         \A i \in DOMAIN usage : usage'[i] = usage[i], usage'[n].amount \in Amounts,
         NEW T \in SUBSET (DOMAIN usage), NEW S \in SUBSET (T \cup {n})
  PROVE  /\ Total(S, [i \in S |-> usage'[i].amount]) \in Nat
         /\ Total(S, [i \in S |-> usage'[i].amount]) <= Used(T) + MaxAmount
<1>1. IsFiniteSet(T) /\ n \notin T BY UsedType
<1> DEFINE f == [i \in T |-> usage[i].amount]
           g == [i \in T \cup {n} |-> usage'[i].amount]
           h == [i \in S |-> usage'[i].amount]
<1>2. \A i \in T : f[i] \in Nat /\ g[i] = f[i] BY UsageTypes
<1>3. g[n] \in Nat /\ g[n] <= MaxAmount /\ \A i \in S : h[i] = g[i] BY MaxAmountIs
<1>4. Used(T) = Total(T, f) BY DEF Used
<1> HIDE DEF f, g, h
<1>5. IsFiniteSet(T \cup {n}) BY <1>1, FS_AddElement
<1>6. \A i \in T \cup {n} : g[i] \in Nat BY <1>2, <1>3
<1>7. Total(S, h) \in Nat /\ Total(S, h) <= Total(T \cup {n}, g) BY <1>3, <1>5, <1>6, TotalWithin
<1>8. Total(T \cup {n}, g) = Total(T, g) + g[n] BY <1>1, <1>2, <1>3, TotalAdd
<1>9. Total(T, g) = Total(T, f) BY <1>2, TotalSame
<1>10. Total(T, f) \in Nat BY <1>1, <1>2, TotalType
<1> DEFINE a == Total(S, h)
           b == Total(T, f)
           M == MaxAmount
<1>11. M \in Nat BY MaxAmountIs
<1>12. a \in Nat /\ b \in Nat /\ a <= b + g[n] /\ g[n] \in Nat /\ g[n] <= M BY <1>3, <1>7, <1>8, <1>9, <1>10
<1> HIDE DEF a, b, M
<1>13. a \in Nat /\ a <= b + M BY <1>11, <1>12
<1> QED BY <1>4, <1>13 DEF a, b, M, h

-----------------------------------------------------------------------------
(*                       What the steps of a call do                       *)

Places == {"new", "policy", "owner", "access", "member", "quota", "sum", "group", "model", "serving", "end"}

\* What a call carries.
LEMMA CallTypes ==
  ASSUME AdmissionTypeOK
  PROVE  /\ call \in [Calls -> CallState]
         /\ \A c \in Calls : /\ call[c] \in CallState /\ call[c].pc \in Places /\ call[c].row \in KeyRow
                             /\ call[c].row.group \in Scopes
                             /\ call[c].plan \in Subscription /\ call[c].scope \in Scopes
                             /\ CallKey[c] \in ApiKeys /\ KeyOwner[CallKey[c]] \in Owners
  BY AdmissionSets, RowTypes DEF AdmissionTypeOK, CallState, Places

\* Only a call of a group gets to its checks.
Grouped == \A c \in Calls : call[c].pc \in {"access", "member", "group"} => call[c].row.group # NoGroup

\* A call moves, with the rest of its state or without.
LEMMA Moves ==
  ASSUME AdmissionTypeOK, NEW c \in Calls, NEW pc \in Places, Goto(c, pc)
  PROVE  /\ call' \in [Calls -> CallState] /\ \A d \in Calls : d # c => call'[d] = call[d]
         /\ call'[c].pc = pc /\ call'[c].row = call[c].row /\ call'[c].scope = call[c].scope
         /\ call'[c].plan = call[c].plan /\ call'[c].group = call[c].group
  BY CallTypes DEF Goto, CallState, Places

SetsRow(c, pc, r) == call' = [call EXCEPT ![c].pc = pc, ![c].row = r]
SetsGroup(c, pc, g) == call' = [call EXCEPT ![c].pc = pc, ![c].group = g]
SetsPlan(c, pc, s, p) == call' = [call EXCEPT ![c].pc = pc, ![c].scope = s, ![c].plan = p]

\* A call moves with the row it has read, ...
LEMMA MovesWithRow ==
  ASSUME AdmissionTypeOK, NEW c \in Calls, NEW pc \in Places, NEW r \in KeyRow,
         SetsRow(c, pc, r)
  PROVE  /\ call' \in [Calls -> CallState] /\ \A d \in Calls : d # c => call'[d] = call[d]
         /\ call'[c].pc = pc /\ call'[c].row = r
<1>1. call[c] \in CallState /\ call \in [Calls -> CallState] BY CallTypes
<1>2. call'[c] = [call[c] EXCEPT !.pc = pc, !.row = r] BY <1>1 DEF SetsRow
<1>3. call'[c] \in CallState /\ call'[c].pc = pc /\ call'[c].row = r BY <1>1, <1>2 DEF CallState, Places
<1>4. DOMAIN call' = Calls /\ call' = [d \in Calls |-> call'[d]] BY <1>1 DEF SetsRow
<1>5. \A d \in Calls : d # c => call'[d] = call[d] BY <1>1 DEF SetsRow
<1> QED BY <1>1, <1>3, <1>4, <1>5

\* ... with the group it has read, ...
LEMMA MovesWithGroup ==
  ASSUME AdmissionTypeOK, NEW c \in Calls, NEW pc \in Places, NEW g \in GroupRow,
         SetsGroup(c, pc, g)
  PROVE  /\ call' \in [Calls -> CallState] /\ \A d \in Calls : d # c => call'[d] = call[d]
         /\ call'[c].pc = pc /\ call'[c].row = call[c].row /\ call'[c].group = g
<1>1. call[c] \in CallState /\ call \in [Calls -> CallState] BY CallTypes
<1>2. call'[c] = [call[c] EXCEPT !.pc = pc, !.group = g] BY <1>1 DEF SetsGroup
<1>3. call'[c] \in CallState /\ call'[c].pc = pc /\ call'[c].row = call[c].row /\ call'[c].group = g
  BY <1>1, <1>2 DEF CallState, Places
<1>4. DOMAIN call' = Calls /\ call' = [d \in Calls |-> call'[d]] BY <1>1 DEF SetsGroup
<1>5. \A d \in Calls : d # c => call'[d] = call[d] BY <1>1 DEF SetsGroup
<1> QED BY <1>1, <1>3, <1>4, <1>5

\* ... or with the subscription it has read.
LEMMA MovesWithPlan ==
  ASSUME AdmissionTypeOK, NEW c \in Calls, NEW pc \in Places, NEW s \in Scopes, NEW p \in Subscription,
         SetsPlan(c, pc, s, p)
  PROVE  /\ call' \in [Calls -> CallState] /\ \A d \in Calls : d # c => call'[d] = call[d]
         /\ call'[c].pc = pc /\ call'[c].row = call[c].row /\ call'[c].scope = s /\ call'[c].plan = p
<1>1. call[c] \in CallState /\ call \in [Calls -> CallState] BY CallTypes
<1>2. call'[c] = [call[c] EXCEPT !.pc = pc, !.scope = s, !.plan = p] BY <1>1 DEF SetsPlan
<1>3. /\ call'[c] \in CallState /\ call'[c].pc = pc /\ call'[c].row = call[c].row
      /\ call'[c].scope = s /\ call'[c].plan = p
  BY <1>1, <1>2 DEF CallState, Places
<1>4. DOMAIN call' = Calls /\ call' = [d \in Calls |-> call'[d]] BY <1>1 DEF SetsPlan
<1>5. \A d \in Calls : d # c => call'[d] = call[d] BY SMTT(30), <1>1 DEF SetsPlan
<1> QED BY <1>1, <1>3, <1>4, <1>5

\* What the steps of a call do to it, and what their guards say.
Kept(c) == call'[c].row = call[c].row
From(c, pc) == call[c].pc = pc /\ Kept(c)
AfterQuota(c) == call'[c].pc = IF call[c].row.group = NoGroup THEN "model" ELSE "group"
OwnScope(c) ==
  IF subscription[<<KeyOwner[CallKey[c]], call[c].row.group>>].state = "active" THEN call[c].row.group ELSE NoGroup

CallMoved(c) ==
  \/ call[c].pc \notin {"new", "end"} /\ Kept(c) /\ call'[c].pc = "end"
  \/ From(c, "policy") /\ call'[c].pc = "owner" /\ WithinPolicy(CallKey[c], call[c].row)
  \/ /\ From(c, "owner") /\ call'[c].pc = (IF call[c].row.group = NoGroup THEN "quota" ELSE "access")
     /\ ownerRow[KeyOwner[CallKey[c]]].enabled
  \/ /\ From(c, "access") /\ call'[c].pc \in {"quota", "member"} /\ groupRow[call[c].row.group].enabled
     /\ call'[c].group = groupRow[call[c].row.group]
     /\ call'[c].pc = "quota" => 
          \/ KeyOwner[CallKey[c]] \in Administrators
          \/ /\ ~groupRow[call[c].row.group].subscribers /\ ownerRow[KeyOwner[CallKey[c]]].allowAll
             /\ ~groupRow[call[c].row.group].exclusive
  \/ From(c, "member") /\ call'[c].pc = "quota" /\ Member(c)
  \/ /\ From(c, "quota") /\ AfterQuota(c) 
     /\ LET p == subscription[<<KeyOwner[CallKey[c]], OwnScope(c)>>] IN p.state # "active" \/ p.limit = 0
  \/ /\ From(c, "quota") /\ call'[c].pc = "sum"
     /\ call'[c].scope = OwnScope(c) /\ call'[c].plan = subscription[<<KeyOwner[CallKey[c]], OwnScope(c)>>]
  \/ From(c, "sum") /\ AfterQuota(c) /\ Used(CountedRows(c)) < call[c].plan.limit
  \/ From(c, "group") /\ call'[c].pc = "model"
  \/ From(c, "model") /\ call'[c].pc = "serving"

\* The steps of a call that read and the ends of a call.
Checks(c) ==
  \/ EnforcePolicy(c) \/ CheckOwner(c) \/ AccessRow(c) \/ AccessMember(c) \/ ChoosePlan(c) \/ SumPlan(c)
  \/ ReadGroup(c) \/ CheckModel(c) \/ CallDropped(c)

\* Each check moves its call as its guards say, and nothing else changes.
LEMMA ChecksMove ==
  ASSUME AdmissionTypeOK, Grouped, NEW c \in Calls, Checks(c)
  PROVE  /\ call' \in [Calls -> CallState] /\ \A d \in Calls : d # c => call'[d] = call[d]
         /\ CallMoved(c) /\ Others /\ UNCHANGED peak
<1> DEFINE k == CallKey[c]
           o == KeyOwner[k]
           g == call[c].row.group
<1> USE DEF CallMoved, Kept, From
<1>0. /\ k \in ApiKeys /\ o \in Owners /\ g \in Scopes /\ call[c].pc \in Places /\ call[c].row \in KeyRow
      /\ Places = {"new", "policy", "owner", "access", "member", "quota", "sum", "group", "model", "serving", "end"}
  BY CallTypes DEF Places
<1>1. ASSUME Refuse(c), call[c].pc \notin {"new", "end"}
      PROVE  /\ call' \in [Calls -> CallState] /\ \A d \in Calls : d # c => call'[d] = call[d]
             /\ CallMoved(c)
  BY <1>1, <1>0, Moves DEF Refuse
<1>2. CASE EnforcePolicy(c)
  <2>1. call[c].pc = "policy" /\ Others /\ UNCHANGED peak BY <1>2 DEF EnforcePolicy
  <2>2. CASE WithinPolicy(k, call[c].row) BY <1>2, <2>2, <1>0, <2>1, Moves DEF EnforcePolicy
  <2>3. CASE ~ WithinPolicy(k, call[c].row) BY <1>2, <2>3, <2>1, <1>1 DEF EnforcePolicy
  <2> QED BY <2>2, <2>3
<1>3. CASE CheckOwner(c)
  <2>1. call[c].pc = "owner" /\ Others /\ UNCHANGED peak BY <1>3 DEF CheckOwner
  <2>2. CASE ownerRow[o].enabled BY <1>3, <2>2, <1>0, <2>1, Moves DEF CheckOwner
  <2>3. CASE ~ ownerRow[o].enabled BY <1>3, <2>3, <2>1, <1>1 DEF CheckOwner
  <2> QED BY <2>2, <2>3
<1>4. CASE AccessRow(c)
  <2>1. call[c].pc = "access" /\ Others /\ UNCHANGED peak BY <1>4 DEF AccessRow
  <2>2. CASE ownerRow[o].enabled /\ groupRow[g].enabled
    <3> DEFINE open == \/ o \in Administrators
                       \/ (~groupRow[g].subscribers /\ ownerRow[o].allowAll /\ ~groupRow[g].exclusive)
               pc == IF open THEN "quota" ELSE "member"
    <3>1. call' = [call EXCEPT ![c].pc = pc, ![c].group = groupRow[g]] BY <1>4, <2>2 DEF AccessRow
    <3>2. /\ call' \in [Calls -> CallState] /\ \A d \in Calls : d # c => call'[d] = call[d]
          /\ call'[c].pc = pc /\ call'[c].row = call[c].row /\ call'[c].group = groupRow[g]
      <4>1. g # NoGroup BY <2>1 DEF Grouped
      <4>2. groupRow[g] \in GroupRow BY <1>0, <4>1 DEF Scopes, AdmissionTypeOK
      <4>3. pc \in Places BY <1>0
      <4> DEFINE r == groupRow[g]
      <4>4. r \in GroupRow /\ SetsGroup(c, pc, r) BY <3>1, <4>2 DEF SetsGroup
      <4> HIDE DEF pc, r
      <4>5. /\ call' \in [Calls -> CallState] /\ \A d \in Calls : d # c => call'[d] = call[d]
            /\ call'[c].pc = pc /\ call'[c].row = call[c].row /\ call'[c].group = r
        BY <4>3, <4>4, MovesWithGroup
      <4> QED BY <4>5 DEF r
    <3>3. (pc = "quota" <=> open) /\ pc \in {"quota", "member"} OBVIOUS
    <3> HIDE DEF pc
    <3> QED BY <2>1, <2>2, <3>2, <3>3
  <2>3. CASE ~ (ownerRow[o].enabled /\ groupRow[g].enabled) BY <1>4, <2>3, <2>1, <1>1 DEF AccessRow
  <2> QED BY <2>2, <2>3
<1>5. CASE AccessMember(c)
  <2>1. call[c].pc = "member" /\ Others /\ UNCHANGED peak BY <1>5 DEF AccessMember
  <2>2. CASE Member(c) BY <1>5, <2>2, <1>0, <2>1, Moves DEF AccessMember
  <2>3. CASE ~ Member(c) BY SMTT(30), <1>5, <2>3, <2>1, <1>1 DEF AccessMember
  <2> QED BY <2>2, <2>3
<1>6. CASE ChoosePlan(c)
  <2> DEFINE Active == {s \in {g, NoGroup} : subscription[<<o, s>>].state = "active"}
             own == IF g \in Active THEN g ELSE NoGroup
             next == IF g = NoGroup THEN "model" ELSE "group"
  <2>1. call[c].pc = "quota" /\ Others /\ UNCHANGED peak BY <1>6 DEF ChoosePlan
  <2>2. own = OwnScope(c) /\ own \in Scopes
    BY <1>0, RowTypes DEF OwnScope
  <2>3. CASE Active = {} \/ subscription[<<o, own>>].limit = 0
    <3>1. Goto(c, next) BY ZenonT(60), <1>6, <2>3 DEF ChoosePlan
    <3>2. subscription[<<o, own>>].state # "active" \/ subscription[<<o, own>>].limit = 0 BY <2>3
    <3>3. next \in Places BY <1>0
    <3> HIDE DEF next, own
    <3>4. /\ call' \in [Calls -> CallState] /\ \A d \in Calls : d # c => call'[d] = call[d]
          /\ call'[c].pc = next /\ call'[c].row = call[c].row
      BY <3>1, <3>3, Moves
    <3> QED BY SMTT(30), <2>1, <2>2, <3>2, <3>4 DEF AfterQuota, next
  <2>4. CASE ~ (Active = {} \/ subscription[<<o, own>>].limit = 0)
    <3>1. call' = [call EXCEPT ![c].pc = "sum", ![c].scope = own, ![c].plan = subscription[<<o, own>>]]
      BY <1>6, <2>4 DEF ChoosePlan
    <3> DEFINE p == subscription[<<o, own>>]
    <3>2. p \in Subscription BY <1>0, <2>2 DEF AdmissionTypeOK
    <3>3. "sum" \in Places BY <1>0
    <3>5. SetsPlan(c, "sum", own, p) BY <3>1 DEF SetsPlan
    <3> HIDE DEF own, p
    <3>4. /\ call' \in [Calls -> CallState] /\ \A d \in Calls : d # c => call'[d] = call[d]
          /\ call'[c].pc = "sum" /\ call'[c].row = call[c].row
          /\ call'[c].scope = own /\ call'[c].plan = p
      BY <2>2, <3>2, <3>3, <3>5, MovesWithPlan
    <3> QED BY SMTT(30), <2>1, <2>2, <3>4 DEF p
  <2> QED BY SMTT(30), <2>3, <2>4
<1>7. CASE SumPlan(c)
  <2> DEFINE next == IF g = NoGroup THEN "model" ELSE "group"
  <2>1. call[c].pc = "sum" /\ Others /\ UNCHANGED peak BY <1>7 DEF SumPlan
  <2>2. Used(CountedRows(c)) \in Nat /\ call[c].plan.limit \in Nat
    BY UsedType, CallTypes, RowTypes DEF CountedRows, RowsOfPlan
  <2>3. CASE Used(CountedRows(c)) < call[c].plan.limit
    <3>1. Goto(c, next) BY <1>7, <2>2, <2>3 DEF SumPlan
    <3>3. next \in Places BY <1>0
    <3> HIDE DEF next
    <3>4. /\ call' \in [Calls -> CallState] /\ \A d \in Calls : d # c => call'[d] = call[d]
          /\ call'[c].pc = next /\ call'[c].row = call[c].row
      BY <3>1, <3>3, Moves
    <3> QED BY <2>1, <2>3, <3>4 DEF AfterQuota, next
  <2>4. CASE ~ (Used(CountedRows(c)) < call[c].plan.limit) BY <2>2, <2>4, <1>7, <2>1, <1>1 DEF SumPlan
  <2> QED BY <2>3, <2>4
<1>8. CASE ReadGroup(c)
  <2>1. call[c].pc = "group" /\ Others /\ UNCHANGED peak BY <1>8 DEF ReadGroup
  <2>2. CASE groupRow[g].enabled
    <3>1. SetsGroup(c, "model", groupRow[g]) BY <1>8, <2>2 DEF ReadGroup, SetsGroup
    <3>2. g # NoGroup BY <2>1 DEF Grouped
    <3>3. groupRow[g] \in GroupRow /\ "model" \in Places BY <1>0, <3>2 DEF Scopes, AdmissionTypeOK
    <3>4. /\ call' \in [Calls -> CallState] /\ \A d \in Calls : d # c => call'[d] = call[d]
          /\ call'[c].pc = "model" /\ call'[c].row = call[c].row
      BY <3>1, <3>3, MovesWithGroup
    <3> QED BY <2>1, <3>4
  <2>3. CASE ~ groupRow[g].enabled BY <1>8, <2>3, <2>1, <1>1 DEF ReadGroup
  <2> QED BY <2>2, <2>3
<1>9. CASE CheckModel(c)
  <2>1. call[c].pc = "model" /\ Others /\ UNCHANGED peak BY <1>9 DEF CheckModel
  <2>2. CASE ModelPasses(c) BY <1>9, <2>2, <1>0, <2>1, Moves DEF CheckModel
  <2>3. CASE ~ ModelPasses(c) BY <1>9, <2>3, <2>1, <1>1 DEF CheckModel
  <2> QED BY <2>2, <2>3
<1>10. CASE CallDropped(c) BY <1>10, <1>1 DEF CallDropped
<1> QED BY <1>2, <1>3, <1>4, <1>5, <1>6, <1>7, <1>8, <1>9, <1>10 DEF Checks

-----------------------------------------------------------------------------
(*                                  Types                                  *)

\* Sets of calls are finite.
LEMMA CallsFinite ==
  ASSUME NEW S \in SUBSET Calls
  PROVE  IsFiniteSet(S) /\ Cardinality(S) \in Nat
  BY AdmissionSets, FS_Subset, FS_CardinalityType

\* The remembered conditions keep their type.
LEMMA HeldTyped ==
  ASSUME AdmissionTypeOK, Remembers
  PROVE  held' \in [Calls -> SUBSET Conditions]
BY DEF True, AdmissionTypeOK, Conditions, Remembers

\* The peak of a key or owner after a call of it has begun.
LEMMA PeakTyped ==
  ASSUME AdmissionTypeOK, NEW c \in Calls, ReadKey(c)
  PROVE  LET k == CallKey[c]
             o == KeyOwner[k]
         IN /\ peak' \in [ApiKeys \cup Owners -> Nat]
            /\ \A x \in ApiKeys \cup Owners : peak[x] <= peak'[x]
            /\ 1 + Cardinality(InProgress(k)) <= peak'[k]
            /\ 1 + Cardinality(OfOwner(o)) <= peak'[o]
<1> DEFINE k == CallKey[c]
           o == KeyOwner[k]
           now(x) == IF x = k THEN 1 + Cardinality(InProgress(k))
                     ELSE IF x = o THEN 1 + Cardinality(OfOwner(x)) ELSE 0
<1>1. k \in ApiKeys /\ o \in Owners /\ k # o BY CallTypes, AdmissionSets
<1>2. Cardinality(InProgress(k)) \in Nat /\ \A x : Cardinality(OfOwner(x)) \in Nat
  BY CallsFinite DEF InProgress, OfOwner
<1>3. DOMAIN peak = ApiKeys \cup Owners /\ \A x \in ApiKeys \cup Owners : peak[x] \in Nat BY DEF AdmissionTypeOK
<1>4. peak' = [x \in DOMAIN peak |-> IF now(x) > peak[x] THEN now(x) ELSE peak[x]] BY DEF ReadKey
<1>5. \A x : now(x) \in Nat BY <1>2
<1>6. now(k) = 1 + Cardinality(InProgress(k)) /\ now(o) = 1 + Cardinality(OfOwner(o)) BY <1>1
<1> HIDE DEF now
<1>7. \A m, n \in Nat : LET p == IF m > n THEN m ELSE n IN p \in Nat /\ m <= p /\ n <= p OBVIOUS
<1>8. ASSUME NEW x \in ApiKeys \cup Owners
      PROVE  peak'[x] \in Nat /\ now(x) <= peak'[x] /\ peak[x] <= peak'[x]
  BY <1>3, <1>4, <1>5, <1>7
<1>9. peak' \in [ApiKeys \cup Owners -> Nat] BY <1>3, <1>4, <1>8
<1> QED BY <1>1, <1>6, <1>8, <1>9

\* A step of a call that leaves no usage row.
LEMMA CallTyped ==
  ASSUME AdmissionTypeOK, Remembers, Others, call' \in [Calls -> CallState], peak' \in [ApiKeys \cup Owners -> Nat]
  PROVE  AdmissionTypeOK'
  BY HeldTyped DEF AdmissionTypeOK, Others, rows, logged

KeysTyped ==
  /\ keyRow' \in [ApiKeys -> KeyRow]
  /\ \A k \in ApiKeys : keyRow'[k].quotaFrom <= lastUsage /\ keyRow'[k].rateFrom <= lastUsage
PlansTyped ==
  /\ subscription' \in [Owners \X Scopes -> Subscription]
  /\ \A x \in Owners \X Scopes : subscription'[x].from <= lastUsage
UsageTyped ==
  /\ DOMAIN usage' \subseteq DOMAIN usage
  /\ \A i \in DOMAIN usage' : usage'[i] \in [key : ApiKeys \cup {NoKey}, owner : Owners, amount : Amounts]

\* An edit that leaves the right rows does.
LEMMA EditTyped ==
  ASSUME AdmissionTypeOK, Remembers, Edited, UNCHANGED <<windowStart, lastUsage>>,
         KeysTyped, PlansTyped, UsageTyped,
         ownerRow' \in [Owners -> OwnerRow], groupRow' \in [KeyGroups -> GroupRow], loosened' \subseteq ApiKeys,
         cleanup' \in [open : BOOLEAN, key : ApiKeys \cup {NoKey}, max : Nat, shown : SUBSET (1 .. lastUsage)]
  PROVE  AdmissionTypeOK'
BY HeldTyped DEF Edited, AdmissionTypeOK, KeysTyped, PlansTyped, UsageTyped

\* Rows that are not edited keep their types.
LEMMA Unedited ==
  ASSUME AdmissionTypeOK
  PROVE  /\ UNCHANGED keyRow => KeysTyped
         /\ UNCHANGED subscription => PlansTyped
         /\ UNCHANGED usage => UsageTyped
  BY DEF AdmissionTypeOK, KeysTyped, PlansTyped, UsageTyped

\* What an edit of a key changes.
KeyEdits(k) ==
  \/ EditKeyModels(k) \/ EditKeyLimit(k) \/ MoveKey(k) \/ SwitchKey(k) \/ ResetUsage(k)
KeyEdited(k) ==
  /\ \A x \in ApiKeys : x # k => keyRow'[x] = keyRow[x]
  /\ keyRow'[k].quotaFrom >= keyRow[k].quotaFrom /\ keyRow'[k].rateFrom >= keyRow[k].rateFrom
  /\ \/ k \in loosened'
     \/ keyRow'[k].group = keyRow[k].group /\ keyRow'[k].quota = keyRow[k].quota /\ keyRow'[k].rate = keyRow[k].rate
  /\ loosened \subseteq loosened' /\ loosened' \subseteq loosened \cup {k}

\* Each edit of a key changes its row alone, and marks the key when a limit
\* or its group changes; a reset only moves forward.
LEMMA KeyEditIs ==
  ASSUME AdmissionTypeOK, NEW k \in ApiKeys, KeyEdits(k)
  PROVE  /\ KeysTyped /\ KeyEdited(k) /\ Edited
         /\ UNCHANGED <<ownerRow, groupRow, subscription, windowStart, logged>>
<1>0. /\ keyRow \in [ApiKeys -> KeyRow] /\ lastUsage \in Nat /\ loosened \subseteq ApiKeys
      /\ \A x \in ApiKeys : keyRow[x].quotaFrom <= lastUsage /\ keyRow[x].rateFrom <= lastUsage
  BY DEF AdmissionTypeOK
<1>1. \A x \in ApiKeys : keyRow[x] \in KeyRow /\ keyRow[x].quotaFrom \in Nat /\ keyRow[x].rateFrom \in Nat BY <1>0, RowTypes
<1>2. CASE EditKeyModels(k) BY <1>2, <1>0, <1>1 DEF EditKeyModels, KeyRow, KeysTyped, KeyEdited
<1>3. CASE EditKeyLimit(k) BY <1>3, <1>0, <1>1 DEF EditKeyLimit, KeyRow, KeysTyped, KeyEdited
<1>4. CASE MoveKey(k) BY <1>4, <1>0, <1>1 DEF MoveKey, KeyRow, Scopes, KeysTyped, KeyEdited
<1>5. CASE SwitchKey(k)
  <2>1. keyRow' = [keyRow EXCEPT ![k].enabled = ~@] BY <1>5 DEF SwitchKey
  <2>2. keyRow'[k] = [keyRow[k] EXCEPT !.enabled = ~@] /\ \A x \in ApiKeys : x # k => keyRow'[x] = keyRow[x] BY <1>0, <2>1
  <2>3. keyRow'[k] \in KeyRow BY <1>1, <2>2 DEF KeyRow
  <2>4. keyRow' \in [ApiKeys -> KeyRow] BY <1>0, <2>1, <2>2, <2>3
  <2>5. /\ keyRow'[k].quotaFrom = keyRow[k].quotaFrom /\ keyRow'[k].rateFrom = keyRow[k].rateFrom
        /\ keyRow'[k].group = keyRow[k].group /\ keyRow'[k].quota = keyRow[k].quota /\ keyRow'[k].rate = keyRow[k].rate
    BY <1>1, <2>2 DEF KeyRow
  <2>6. loosened' = loosened /\ Edited /\ UNCHANGED <<ownerRow, groupRow, subscription, windowStart, logged>>
    BY <1>5 DEF SwitchKey
  <2>7. KeysTyped BY <1>0, <1>1, <2>2, <2>4, <2>5 DEF KeysTyped
  <2>8. KeyEdited(k) BY <1>0, <1>1, <2>2, <2>5, <2>6 DEF KeyEdited
  <2> QED BY <2>6, <2>7, <2>8
<1>6. CASE ResetUsage(k) BY <1>6, <1>0, <1>1 DEF ResetUsage, ResetFrom, KeyRow, KeysTyped, KeyEdited
<1> QED BY <1>2, <1>3, <1>4, <1>5, <1>6 DEF KeyEdits

-----------------------------------------------------------------------------
(*                                  Edits                                  *)

\* Calls stand still, rows are deleted or lose their key, and a limit of a
\* key or subscription that is not edited stays.
SameLimits(k) ==
  /\ keyRow'[k].group = keyRow[k].group
  /\ keyRow'[k].quota = keyRow[k].quota /\ keyRow[k].quotaFrom <= keyRow'[k].quotaFrom
  /\ keyRow'[k].rate = keyRow[k].rate /\ keyRow[k].rateFrom <= keyRow'[k].rateFrom
Loosens ==
  /\ UNCHANGED <<call, peak, lastUsage>> /\ UsageKept /\ windowStart <= windowStart' /\ loosened \subseteq loosened'
  /\ \A k \in ApiKeys \ loosened' : SameLimits(k)
  /\ \A x \in Owners \X Scopes : subscription'[x] = subscription[x] \/ subscription'[x].state # "active"

OtherEdits ==
  \/ \E k \in ApiKeys : DeleteKey(k)
  \/ \E o \in Owners : SwitchOwner(o) \/ EditOwnerGroups(o)
  \/ \E o \in Owners, s \in Scopes : SubscriptionEnds(o, s)
  \/ \E g \in KeyGroups : EditGroup(g) \/ EditChannel(g)
  \/ WindowMoves \/ CleanupPreview \/ CleanupConfirm

\* Rows that are left alone are kept.
LEMMA SameUsage ==
  ASSUME AdmissionTypeOK, UNCHANGED usage
  PROVE  UsageKept
  BY DEF UsageKept, AdmissionTypeOK

\* Keys that are left alone keep their limits.
LEMMA SameKeys ==
  ASSUME AdmissionTypeOK, UNCHANGED keyRow
  PROVE  \A k \in ApiKeys : SameLimits(k)
BY RowTypes DEF AdmissionTypeOK, SameLimits

\* An edit of a key keeps the types and loosens no other limit.
LEMMA KeyEditLoosens ==
  ASSUME AdmissionTypeOK, Remembers, NEW k \in ApiKeys, KeyEdits(k)
  PROVE  AdmissionTypeOK' /\ Loosens
<1>1. /\ KeysTyped /\ KeyEdited(k) /\ Edited
      /\ UNCHANGED <<ownerRow, groupRow, subscription, windowStart, logged>>
  BY KeyEditIs
<1>2. loosened' \subseteq ApiKeys BY <1>1 DEF KeyEdited, AdmissionTypeOK
<1>3. UNCHANGED <<usage, lastUsage, cleanup>> BY <1>1 DEF logged
<1>4. AdmissionTypeOK' BY <1>1, <1>3, Unedited, <1>2, EditTyped DEF AdmissionTypeOK
<1>5. UsageKept BY <1>3, SameUsage
<1>6. windowStart <= windowStart' /\ UNCHANGED <<call, peak>> BY <1>1 DEF Edited, AdmissionTypeOK
<1>7. ASSUME NEW x \in ApiKeys \ loosened' PROVE SameLimits(x)
  <2>1. \A y \in ApiKeys : keyRow[y].quotaFrom \in Nat /\ keyRow[y].rateFrom \in Nat BY RowTypes DEF AdmissionTypeOK
  <2>2. CASE x = k BY <1>1, RowTypes, <2>1, <2>2 DEF KeysTyped, KeyEdited, SameLimits
  <2>3. CASE x # k BY <1>1, <2>1, <2>3 DEF KeyEdited, SameLimits
  <2> QED BY <2>2, <2>3
<1> QED BY <1>1, <1>3, <1>4, <1>5, <1>6, <1>7 DEF Loosens, KeyEdited

\* The other edits, a clean-up and the window do neither, and mark no key.
LEMMA OtherEditLoosens ==
  ASSUME AdmissionTypeOK, Remembers, OtherEdits
  PROVE  AdmissionTypeOK' /\ Loosens /\ UNCHANGED loosened
<1>0. /\ keyRow \in [ApiKeys -> KeyRow] /\ ownerRow \in [Owners -> OwnerRow] /\ groupRow \in [KeyGroups -> GroupRow]
      /\ subscription \in [Owners \X Scopes -> Subscription] /\ lastUsage \in Nat /\ windowStart \in 0 .. lastUsage
      /\ loosened \subseteq ApiKeys
      /\ cleanup \in [open : BOOLEAN, key : ApiKeys \cup {NoKey}, max : Nat, shown : SUBSET (1 .. lastUsage)]
      /\ \A x \in ApiKeys : keyRow[x].quotaFrom <= lastUsage /\ keyRow[x].rateFrom <= lastUsage
      /\ \A x \in Owners \X Scopes : subscription[x].from <= lastUsage
      /\ \A i \in DOMAIN usage : usage[i] \in [key : ApiKeys \cup {NoKey}, owner : Owners, amount : Amounts]
  BY DEF AdmissionTypeOK
<1>1. \A x \in ApiKeys : keyRow[x] \in KeyRow /\ keyRow[x].quotaFrom \in Nat /\ keyRow[x].rateFrom \in Nat BY <1>0, RowTypes
<1>2. windowStart \in Nat /\ windowStart <= windowStart BY <1>0
<1>3. CASE \E k \in ApiKeys : DeleteKey(k)
  <2>1. PICK k \in ApiKeys : DeleteKey(k) BY <1>3
  <2>2. /\ keyRow' = [keyRow EXCEPT ![k].alive = FALSE] /\ Edited
        /\ usage' = [i \in DOMAIN usage |-> IF usage[i].key = k THEN [usage[i] EXCEPT !.key = NoKey] ELSE usage[i]]
        /\ UNCHANGED <<ownerRow, groupRow, subscription, loosened, windowStart, lastUsage, cleanup>>
    BY <2>1 DEF DeleteKey
  <2>3. keyRow'[k] = [keyRow[k] EXCEPT !.alive = FALSE] /\ \A x \in ApiKeys : x # k => keyRow'[x] = keyRow[x]
    BY <1>0, <2>2
  <2>4. keyRow'[k] \in KeyRow BY <1>1, <2>3 DEF KeyRow
  <2>5. keyRow' \in [ApiKeys -> KeyRow] BY <1>0, <2>2, <2>3, <2>4
  <2>6. SameLimits(k) BY <1>1, <2>3 DEF KeyRow, SameLimits
  <2>7. ASSUME NEW x \in ApiKeys PROVE SameLimits(x)
    <3>1. \A n \in Nat : n <= n OBVIOUS
    <3>2. CASE x # k BY <1>1, <2>3, <3>1, <3>2 DEF SameLimits
    <3> QED BY <2>6, <3>2
  <2>8. KeysTyped
    <3>1. /\ keyRow'[k].quotaFrom = keyRow[k].quotaFrom /\ keyRow'[k].rateFrom = keyRow[k].rateFrom
      BY <1>1, <2>3 DEF KeyRow
    <3> QED BY <1>0, <2>3, <2>5, <3>1 DEF KeysTyped
  <2>9. \A i \in DOMAIN usage : /\ i \in DOMAIN usage' /\ usage'[i].amount = usage[i].amount
                                /\ usage'[i].owner = usage[i].owner /\ usage'[i].key \in {usage[i].key, NoKey}
                                /\ usage'[i] \in [key : ApiKeys \cup {NoKey}, owner : Owners, amount : Amounts]
    BY <2>2, <1>0
  <2>10. DOMAIN usage' = DOMAIN usage BY <2>2
  <2>11. UsageKept /\ UsageTyped BY <2>9, <2>10 DEF UsageKept, UsageTyped
  <2>12. PlansTyped BY <2>2, Unedited
  <2>13. AdmissionTypeOK' BY <1>0, <2>2, <2>8, <2>11, <2>12, EditTyped
  <2> QED BY <1>2, <2>2, <2>7, <2>11, <2>13 DEF Loosens, Edited
<1>4. ASSUME Edited, UNCHANGED <<keyRow, subscription, loosened, windowStart, usage, lastUsage>>,
             ownerRow' \in [Owners -> OwnerRow], groupRow' \in [KeyGroups -> GroupRow],
             cleanup' \in [open : BOOLEAN, key : ApiKeys \cup {NoKey}, max : Nat, shown : SUBSET (1 .. lastUsage)]
      PROVE  AdmissionTypeOK' /\ Loosens /\ UNCHANGED loosened
  <2>1. KeysTyped /\ PlansTyped /\ UsageTyped /\ UsageKept /\ \A x \in ApiKeys : SameLimits(x)
    BY <1>4, Unedited, SameUsage, SameKeys
  <2>2. AdmissionTypeOK' BY <1>0, <1>4, <2>1, EditTyped
  <2> QED BY <1>2, <1>4, <2>1, <2>2 DEF Loosens, Edited
<1>5. CASE \E o \in Owners : SwitchOwner(o) \/ EditOwnerGroups(o)
  <2>1. PICK o \in Owners : SwitchOwner(o) \/ EditOwnerGroups(o) BY <1>5
  <2>2. Edited /\ UNCHANGED <<keyRow, groupRow, subscription, loosened, windowStart, usage, lastUsage, cleanup>>
    BY <2>1 DEF SwitchOwner, EditOwnerGroups, logged
  <2>3. ownerRow' \in [Owners -> OwnerRow]
    <3>1. CASE SwitchOwner(o) BY <1>0, <3>1 DEF SwitchOwner, OwnerRow
    <3>2. CASE EditOwnerGroups(o)
      <4>1. PICK gs \in SUBSET KeyGroups, all \in BOOLEAN :
              ownerRow' = [ownerRow EXCEPT ![o].allowed = gs, ![o].allowAll = all]
        BY <3>2 DEF EditOwnerGroups
      <4>2. ownerRow'[o] = [ownerRow[o] EXCEPT !.allowed = gs, !.allowAll = all] BY <1>0, <4>1
      <4>3. ownerRow'[o] \in OwnerRow BY <1>0, <4>2 DEF OwnerRow
      <4> QED BY <1>0, <4>1, <4>3
    <3> QED BY <2>1, <3>1, <3>2
  <2> QED BY <1>0, <1>4, <2>2, <2>3
<1>6. CASE \E g \in KeyGroups : EditGroup(g) \/ EditChannel(g)
  <2>1. PICK g \in KeyGroups : EditGroup(g) \/ EditChannel(g) BY <1>6
  <2>2. Edited /\ UNCHANGED <<keyRow, ownerRow, subscription, loosened, windowStart, usage, lastUsage, cleanup>>
    BY <2>1 DEF EditGroup, EditChannel, logged
  <2>3. groupRow' \in [KeyGroups -> GroupRow]
    <3>1. CASE EditGroup(g) BY <1>0, <3>1 DEF EditGroup
    <3>2. CASE EditChannel(g) BY <1>0, <3>2 DEF EditChannel, GroupRow
    <3> QED BY <2>1, <3>1, <3>2
  <2> QED BY <1>0, <1>4, <2>2, <2>3
<1>7. CASE CleanupPreview
  <2>1. PICK k \in ApiKeys \cup {NoKey} :
          LET matched == {i \in DOMAIN usage : k # NoKey => usage[i].key = k}
              last == IF matched = {} THEN 0 ELSE CHOOSE i \in matched : \A j \in matched : j <= i
          IN  cleanup' = [open |-> TRUE, key |-> k, max |-> last, shown |-> matched]
    BY <1>7 DEF CleanupPreview
  <2> DEFINE matched == {i \in DOMAIN usage : k # NoKey => usage[i].key = k}
             last == IF matched = {} THEN 0 ELSE CHOOSE i \in matched : \A j \in matched : j <= i
  <2>2. cleanup' = [open |-> TRUE, key |-> k, max |-> last, shown |-> matched] BY <2>1
  <2>3. matched \in SUBSET (1 .. lastUsage) BY DEF AdmissionTypeOK
  <2>4. last \in Nat
    <3>1. CASE matched = {} BY <3>1
    <3>2. CASE matched # {} BY UsedType, UsageTypes, <3>2, GreatestOf
    <3> QED BY <3>1, <3>2
  <2> HIDE DEF matched, last
  <2>5. cleanup' \in [open : BOOLEAN, key : ApiKeys \cup {NoKey}, max : Nat, shown : SUBSET (1 .. lastUsage)]
    BY <2>2, <2>3, <2>4
  <2>6. Edited /\ UNCHANGED <<keyRow, ownerRow, groupRow, subscription, loosened, windowStart, usage, lastUsage>>
    BY <1>7 DEF CleanupPreview, rows
  <2> QED BY <1>0, <1>4, <2>5, <2>6
<1>8. CASE \E o \in Owners, s \in Scopes : SubscriptionEnds(o, s)
  <2>1. PICK o \in Owners, s \in Scopes : SubscriptionEnds(o, s) BY <1>8
  <2> DEFINE x == <<o, s>>
  <2>2. /\ subscription' = [subscription EXCEPT ![x].state = "ended"] /\ Edited
        /\ UNCHANGED <<keyRow, ownerRow, groupRow, loosened, windowStart, usage, lastUsage, cleanup>>
    BY <2>1 DEF SubscriptionEnds, logged
  <2>3. x \in Owners \X Scopes OBVIOUS
  <2> HIDE DEF x
  <2>4. /\ subscription'[x] = [subscription[x] EXCEPT !.state = "ended"]
        /\ \A y \in Owners \X Scopes : y # x => subscription'[y] = subscription[y]
    BY <1>0, <2>2, <2>3
  <2>5. subscription'[x] \in Subscription /\ subscription'[x].state = "ended" /\ subscription'[x].from = subscription[x].from
    BY <1>0, <2>3, <2>4 DEF Subscription
  <2>6. subscription' \in [Owners \X Scopes -> Subscription] BY <1>0, <2>2, <2>5
  <2>7. PlansTyped BY <1>0, <2>3, <2>4, <2>5, <2>6 DEF PlansTyped
  <2>8. KeysTyped /\ UsageTyped /\ UsageKept /\ \A y \in ApiKeys : SameLimits(y)
    BY <2>2, Unedited, SameUsage, SameKeys
  <2>9. AdmissionTypeOK' BY <1>0, <2>2, <2>7, <2>8, EditTyped
  <2>10. \A y \in Owners \X Scopes : subscription'[y] = subscription[y] \/ subscription'[y].state # "active"
    BY <2>4, <2>5
  <2> QED BY <1>2, <2>2, <2>8, <2>9, <2>10 DEF Loosens, Edited
<1>9. CASE WindowMoves BY <1>0, <1>9, HeldTyped, SameUsage, SameKeys DEF WindowMoves, rows, logged, AdmissionTypeOK, Loosens
<1>10. CASE CleanupConfirm
  <2>1. /\ usage' = [i \in DOMAIN usage \ CleanupRows(cleanup.key, cleanup.max) |-> usage[i]]
        /\ cleanup' = NoCleanup
        /\ UNCHANGED <<keyRow, ownerRow, groupRow, subscription, loosened, windowStart, lastUsage, call, peak, edits>>
    BY <1>10 DEF CleanupConfirm, rows
  <2>2. UsageKept /\ UsageTyped BY <1>0, <2>1 DEF UsageKept, UsageTyped
  <2>3. cleanup' \in [open : BOOLEAN, key : ApiKeys \cup {NoKey}, max : Nat, shown : SUBSET (1 .. lastUsage)]
    BY <2>1 DEF NoCleanup
  <2>4. AdmissionTypeOK' BY <2>1, <2>2, <2>3, HeldTyped DEF AdmissionTypeOK, UsageTyped
  <2>5. \A y \in ApiKeys : SameLimits(y) BY <2>1, SameKeys
  <2> QED BY <1>2, <2>1, <2>2, <2>4, <2>5 DEF Loosens
<1> QED BY <1>3, <1>5, <1>6, <1>7, <1>8, <1>9, <1>10 DEF OtherEdits

-----------------------------------------------------------------------------
(*                                Every step                               *)

\* One call moves; the rows stay.
CallAlone(c) ==
  /\ \A d \in Calls : d # c => call'[d] = call[d]
  /\ UNCHANGED <<keyRow, ownerRow, groupRow, subscription, loosened, windowStart>>

\* The row that a call leaves, if its key is still there.
NewRow(c) ==
  LET n == lastUsage + 1 IN
  /\ n \notin DOMAIN usage /\ DOMAIN usage' = DOMAIN usage \cup {n} /\ lastUsage' = n
  /\ \A i \in DOMAIN usage : usage'[i] = usage[i]
  /\ usage'[n].amount \in Amounts /\ usage'[n].key = CallKey[c] /\ usage'[n].owner = KeyOwner[CallKey[c]]

\* A served call leaves at most one row, its own, and ends.
LEMMA LogUsageIs ==
  ASSUME AdmissionTypeOK, Remembers, NEW c \in Calls, LogUsage(c)
  PROVE  /\ AdmissionTypeOK' /\ CallAlone(c) /\ UNCHANGED peak
         /\ call[c].pc = "serving" /\ call'[c].pc = "end" /\ call'[c].row = call[c].row
         /\ UNCHANGED usage \/ NewRow(c)
<1> DEFINE k == CallKey[c]
           n == lastUsage + 1
<1>0. k \in ApiKeys /\ KeyOwner[k] \in Owners /\ "end" \in Places BY CallTypes DEF Places
<1>1. /\ call[c].pc = "serving" /\ Goto(c, "end") /\ UNCHANGED <<rows, windowStart, cleanup, peak, edits>>
  BY DEF LogUsage
<1>2. /\ call' \in [Calls -> CallState] /\ \A d \in Calls : d # c => call'[d] = call[d]
      /\ call'[c].pc = "end" /\ call'[c].row = call[c].row
  BY <1>0, <1>1, Moves
<1>3. CallAlone(c) BY <1>1, <1>2 DEF CallAlone, rows
<1>4. CASE UNCHANGED <<usage, lastUsage>> BY <1>1, <1>2, <1>4, HeldTyped, <1>3 DEF AdmissionTypeOK, rows
<1>5. CASE ~ UNCHANGED <<usage, lastUsage>>
  <2>1. PICK a \in Amounts :
          /\ lastUsage' = n
          /\ usage' = [i \in DOMAIN usage \cup {n} |->
                         IF i \in DOMAIN usage THEN usage[i] ELSE [key |-> k, owner |-> KeyOwner[k], amount |-> a]]
    BY <1>5 DEF LogUsage
  <2>2. n \notin DOMAIN usage /\ lastUsage \in Nat /\ n \in Nat /\ lastUsage <= n BY UsageTypes
  <2>3. DOMAIN usage' = DOMAIN usage \cup {n} /\ \A i \in DOMAIN usage : usage'[i] = usage[i] BY <2>1
  <2>4. usage'[n] = [key |-> k, owner |-> KeyOwner[k], amount |-> a] BY <2>1, <2>2
  <2>5. NewRow(c) BY <2>1, <2>2, <2>3, <2>4 DEF NewRow
  <2>6. \A i \in DOMAIN usage' : usage'[i] \in [key : ApiKeys \cup {NoKey}, owner : Owners, amount : Amounts]
    BY <1>0, <2>3, <2>4 DEF AdmissionTypeOK
  <2>7. lastUsage' = n BY <2>1
  <2>8. DOMAIN usage' \subseteq 1 .. n BY <2>2, <2>3 DEF AdmissionTypeOK
  <2>9. /\ windowStart' \in 0 .. n /\ lastUsage' \in Nat
        /\ \A x \in ApiKeys : keyRow'[x].quotaFrom <= n /\ keyRow'[x].rateFrom <= n
        /\ \A x \in Owners \X Scopes : subscription'[x].from <= n
    BY <1>1, RowTypes, <2>2, <2>7 DEF rows, AdmissionTypeOK
  <2>10. cleanup' \in [open : BOOLEAN, key : ApiKeys \cup {NoKey}, max : Nat, shown : SUBSET (1 .. n)]
    BY <2>2, <1>1 DEF AdmissionTypeOK
  <2>11. /\ keyRow' \in [ApiKeys -> KeyRow] /\ ownerRow' \in [Owners -> OwnerRow]
         /\ groupRow' \in [KeyGroups -> GroupRow] /\ subscription' \in [Owners \X Scopes -> Subscription]
         /\ peak' \in [ApiKeys \cup Owners -> Nat] /\ loosened' \subseteq ApiKeys /\ edits' \in Nat
    BY <1>1 DEF rows, AdmissionTypeOK
  <2> HIDE DEF n
  <2>12. held' \in [Calls -> SUBSET Conditions] BY HeldTyped
  <2>13. AdmissionTypeOK'
    BY <1>2, <2>6, <2>7, <2>8, <2>9, <2>10, <2>11, <2>12 DEF AdmissionTypeOK
  <2> QED BY <1>1, <1>2, <1>3, <2>5, <2>13
<1> QED BY <1>4, <1>5

\* A call that begins carries the row of its key.
LEMMA ReadKeyIs ==
  ASSUME AdmissionTypeOK, Remembers, NEW c \in Calls, ReadKey(c)
  PROVE  /\ AdmissionTypeOK' /\ CallAlone(c) /\ UNCHANGED <<usage, lastUsage>>
         /\ call[c].pc = "new" /\ call'[c].pc = "policy" /\ call'[c].row = keyRow[CallKey[c]]
         /\ keyRow[CallKey[c]].alive /\ keyRow[CallKey[c]].enabled
<1> DEFINE k == CallKey[c]
           r == keyRow[k]
<1>1. k \in ApiKeys /\ r \in KeyRow BY CallTypes DEF AdmissionTypeOK
<1>2. "policy" \in Places BY DEF Places
<1>3. call' = [call EXCEPT ![c].pc = "policy", ![c].row = r] /\ call[c].pc = "new" /\ Others
      /\ keyRow[k].alive /\ keyRow[k].enabled
  BY DEF ReadKey
<1> HIDE DEF r
<1>4. SetsRow(c, "policy", r) BY <1>3 DEF SetsRow
<1>5. /\ call' \in [Calls -> CallState] /\ \A d \in Calls : d # c => call'[d] = call[d]
      /\ call'[c].pc = "policy" /\ call'[c].row = r
  BY <1>1, <1>2, <1>4, MovesWithRow
<1>6. peak' \in [ApiKeys \cup Owners -> Nat] BY PeakTyped
<1>7. AdmissionTypeOK' BY <1>3, <1>5, <1>6, CallTyped
<1> QED BY <1>3, <1>5, <1>7 DEF CallAlone, Others, rows, logged, r

\* A check keeps the types.
LEMMA ChecksAre ==
  ASSUME AdmissionTypeOK, Grouped, Remembers, NEW c \in Calls, Checks(c)
  PROVE  AdmissionTypeOK' /\ CallAlone(c) /\ CallMoved(c) /\ UNCHANGED <<usage, lastUsage, peak>>
BY ChecksMove, CallTyped DEF AdmissionTypeOK, CallAlone, Others, rows, logged

\* A new period begins after every row there is.
StartsPlan(o, s) ==
  /\ UNCHANGED <<keyRow, ownerRow, groupRow, loosened, windowStart, usage, lastUsage, call, peak>>
  /\ \A x \in Owners \X Scopes : x # <<o, s>> => subscription'[x] = subscription[x]
  /\ subscription'[<<o, s>>].from = lastUsage

\* A subscription that starts changes its own row alone.
LEMMA SubscriptionStartsIs ==
  ASSUME AdmissionTypeOK, Remembers, NEW o \in Owners, NEW s \in Scopes, SubscriptionStarts(o, s)
  PROVE  AdmissionTypeOK' /\ StartsPlan(o, s)
<1> DEFINE x == <<o, s>>
<1>1. PICK limit \in Quotas : subscription' = [subscription EXCEPT ![x] = [state |-> "active", limit |-> limit, from |-> lastUsage]]
  BY DEF SubscriptionStarts
<1>2. Edited /\ UNCHANGED <<keyRow, ownerRow, groupRow, loosened, windowStart, usage, lastUsage, cleanup>>
  BY DEF SubscriptionStarts, logged
<1>3. x \in Owners \X Scopes OBVIOUS
<1>4. subscription \in [Owners \X Scopes -> Subscription] /\ lastUsage \in Nat
      /\ \A y \in Owners \X Scopes : subscription[y].from <= lastUsage
  BY DEF AdmissionTypeOK
<1> HIDE DEF x
<1>5. /\ subscription'[x] = [state |-> "active", limit |-> limit, from |-> lastUsage]
      /\ \A y \in Owners \X Scopes : y # x => subscription'[y] = subscription[y]
  BY <1>1, <1>3, <1>4
<1>6. subscription'[x] \in Subscription /\ subscription'[x].from = lastUsage /\ lastUsage <= lastUsage BY <1>4, <1>5 DEF Subscription
<1>7. subscription' \in [Owners \X Scopes -> Subscription] BY <1>1, <1>4, <1>6
<1>8. PlansTyped BY <1>4, <1>5, <1>6, <1>7 DEF PlansTyped
<1>9. KeysTyped /\ UsageTyped BY <1>2, Unedited
<1>10. AdmissionTypeOK' BY <1>2, <1>8, <1>9, EditTyped DEF AdmissionTypeOK
<1> QED BY <1>2, <1>5, <1>6, <1>10 DEF StartsPlan, Edited, x

\* Every step is one of these.
LEMMA StepKinds ==
  ASSUME AdmissionNext
  PROVE  /\ Remembers
         /\ \/ \E c \in Calls : ReadKey(c) \/ Checks(c) \/ LogUsage(c)
            \/ \E k \in ApiKeys : KeyEdits(k)
            \/ \E o \in Owners, s \in Scopes : SubscriptionStarts(o, s)
            \/ OtherEdits
  BY DEF AdmissionNext, CallStep, EditStep, Checks, KeyEdits, OtherEdits

-----------------------------------------------------------------------------
(*                        Rows, snapshots and peaks                        *)

\* What a step of one call is.
OneCall(c) ==
  /\ CallAlone(c)
  /\ \/ call[c].pc = "new" /\ call'[c].pc = "policy" /\ call'[c].row = keyRow[CallKey[c]] /\ UNCHANGED usage
     \/ CallMoved(c) /\ UNCHANGED usage
     \/ /\ call[c].pc = "serving" /\ call'[c].pc = "end" /\ call'[c].row = call[c].row
        /\ UNCHANGED usage \/ NewRow(c)

CountSafe == AdmissionTypeOK /\ Grouped /\ Snapshots /\ PeaksKnown /\ RowsOwned

\* Every step keeps the types, and is the step of one call, a new period,
\* or an edit that lets no counted row in.
LEMMA StepKindsAre ==
  ASSUME AdmissionTypeOK, Grouped, AdmissionNext
  PROVE  /\ AdmissionTypeOK' /\ Remembers
         /\ \/ \E c \in Calls : OneCall(c) /\ (ReadKey(c) \/ (UNCHANGED peak /\ call[c].pc # "new"))
            \/ \E o \in Owners, s \in Scopes : StartsPlan(o, s)
            \/ Loosens
<1>1. Remembers BY StepKinds
<1>2. CASE \E c \in Calls : ReadKey(c) BY <1>2, <1>1, ReadKeyIs DEF OneCall
<1>3. CASE \E c \in Calls : Checks(c) BY <1>3, <1>1, ChecksAre DEF CallMoved, From, OneCall
<1>4. CASE \E c \in Calls : LogUsage(c)
  BY <1>1, <1>4, LogUsageIs DEF OneCall
<1>5. CASE \E k \in ApiKeys : KeyEdits(k) BY <1>1, <1>5, KeyEditLoosens
<1>6. CASE \E o \in Owners, s \in Scopes : SubscriptionStarts(o, s) BY <1>1, <1>6, SubscriptionStartsIs
<1>7. CASE OtherEdits BY <1>1, <1>7, OtherEditLoosens
<1> QED BY <1>2, <1>3, <1>4, <1>5, <1>6, <1>7, StepKinds

\* A call in progress was so before, or has just read its key.
LEMMA OneCallBusy ==
  ASSUME NEW c \in Calls, OneCall(c)
  PROVE  /\ call'[c].pc \notin {"new", "end"} => 
              \/ call[c].pc \notin {"new", "end"} /\ call'[c].row = call[c].row
              \/ call[c].pc = "new" /\ call'[c].pc = "policy" /\ call'[c].row = keyRow[CallKey[c]]
         /\ UNCHANGED <<keyRow, ownerRow, groupRow, subscription, loosened, windowStart>>
         /\ \A d \in Calls : d # c => call'[d] = call[d]
BY DEF OneCall, CallAlone, CallMoved, From, Kept

\* Only a call of a group gets to its checks: kept by every step.
LEMMA GroupedKept ==
  ASSUME AdmissionTypeOK, Grouped, AdmissionNext
  PROVE  Grouped'
<1>1. CASE \E c \in Calls : OneCall(c)
  <2>1. PICK c \in Calls : OneCall(c) BY <1>1
  <2>2. \A d \in Calls : d # c => call'[d] = call[d] BY <2>1, OneCallBusy
  <2>3. call'[c].pc \in {"access", "member", "group"} => call'[c].row.group # NoGroup
    BY <2>1 DEF CallMoved, From, Kept, AfterQuota, Grouped, OneCall
  <2> QED BY <2>2, <2>3 DEF Grouped
<1>2. CASE UNCHANGED call BY <1>2 DEF Grouped
<1> QED BY <1>1, <1>2, StepKindsAre DEF StartsPlan, Loosens

\* The row a call carries stays that of its key: kept by every step.
LEMMA SnapshotsKept ==
  ASSUME AdmissionTypeOK, Grouped, Snapshots, AdmissionNext
  PROVE  Snapshots'
<1> SUFFICES ASSUME NEW d \in Calls, call'[d].pc \notin {"new", "end"}, CallKey[d] \notin loosened'
    PROVE  LET k == CallKey[d] IN
           /\ call'[d].row.group = keyRow'[k].group
           /\ call'[d].row.quota = keyRow'[k].quota /\ call'[d].row.quotaFrom <= keyRow'[k].quotaFrom
           /\ call'[d].row.rate = keyRow'[k].rate /\ call'[d].row.rateFrom <= keyRow'[k].rateFrom
  BY DEF Snapshots, Busy
<1> DEFINE k == CallKey[d]
<1>0. k \in ApiKeys /\ keyRow[k] \in KeyRow /\ keyRow'[k] \in KeyRow /\ call[d].row \in KeyRow
  BY CallTypes, StepKindsAre DEF AdmissionTypeOK
<1>1. /\ keyRow[k].quotaFrom \in Nat /\ keyRow[k].rateFrom \in Nat /\ keyRow'[k].quotaFrom \in Nat /\ keyRow'[k].rateFrom \in Nat
      /\ call[d].row.quotaFrom \in Nat /\ call[d].row.rateFrom \in Nat
  BY <1>0, RowTypes
<1>2. \A x, y, z \in Nat : x <= x /\ (x <= y /\ y <= z => x <= z) OBVIOUS
<1>3. CASE \E c \in Calls : OneCall(c) BY <1>3, OneCallBusy, <1>1, <1>2 DEF Snapshots, Busy
<1>4. CASE \E o \in Owners, s \in Scopes : StartsPlan(o, s)
  BY <1>4 DEF StartsPlan, Snapshots, Busy
<1>5. CASE Loosens BY <1>0, <1>5, <1>1, <1>2 DEF Loosens, Snapshots, Busy, SameLimits
<1> QED BY <1>3, <1>4, <1>5, StepKindsAre

\* A row belongs to the owner of its key: kept by every step.
LEMMA RowsOwnedKept ==
  ASSUME AdmissionTypeOK, Grouped, RowsOwned, AdmissionNext
  PROVE  RowsOwned'
<1>1. CASE UNCHANGED usage BY <1>1 DEF RowsOwned
<1>2. CASE \E c \in Calls : NewRow(c) BY <1>2 DEF NewRow, RowsOwned
<1>3. CASE UsageKept BY <1>3 DEF UsageKept, RowsOwned
<1> QED BY <1>1, <1>2, <1>3, StepKindsAre DEF OneCall, StartsPlan, Loosens

\* Fewer calls are no more calls.
LEMMA FewerCalls ==
  ASSUME NEW S \in SUBSET Calls, NEW T \in SUBSET S
  PROVE  Cardinality(T) <= Cardinality(S)
  BY CallsFinite, FS_Subset

\* The peaks only grow, and cover the calls in progress.
LEMMA PeaksKept ==
  ASSUME AdmissionTypeOK, Grouped, PeaksKnown, AdmissionNext
  PROVE  /\ PeaksKnown' /\ \A x \in ApiKeys \cup Owners : peak[x] <= peak'[x]
<1>0. \A x \in ApiKeys \cup Owners : peak[x] \in Nat /\ peak'[x] \in Nat /\ peak[x] <= peak[x]
  BY StepKindsAre DEF AdmissionTypeOK
<1>1. CASE UNCHANGED <<call, peak>> BY <1>1, <1>0 DEF InProgress, OfOwner, PeaksKnown
<1>2. CASE \E c \in Calls : OneCall(c) /\ UNCHANGED peak /\ call[c].pc # "new"
  <2>1. PICK c \in Calls : OneCall(c) /\ UNCHANGED peak /\ call[c].pc # "new" BY <1>2
  <2>2. \A d \in Calls : call'[d].pc \notin {"new", "end"} => call[d].pc \notin {"new", "end"}
    BY <2>1, OneCallBusy
  <2>3. ASSUME NEW k \in ApiKeys PROVE Cardinality(InProgress(k)') <= peak'[k]
    <3> DEFINE S == InProgress(k)
               T == InProgress(k)'
    <3>1. T \in SUBSET S /\ S \in SUBSET Calls BY <2>2 DEF InProgress
    <3>2. Cardinality(S) <= peak[k] BY DEF PeaksKnown
    <3> HIDE DEF S, T
    <3>3. Cardinality(T) <= Cardinality(S) /\ Cardinality(T) \in Nat /\ Cardinality(S) \in Nat BY <3>1, FewerCalls, CallsFinite
    <3>4. Cardinality(T) <= peak[k] BY <1>0, <3>2, <3>3
    <3> QED BY <2>1, <3>4 DEF T
  <2>4. ASSUME NEW o \in Owners PROVE Cardinality(OfOwner(o)') <= peak'[o]
    <3> DEFINE S == OfOwner(o)
               T == OfOwner(o)'
    <3>1. T \in SUBSET S /\ S \in SUBSET Calls BY <2>2 DEF OfOwner
    <3>2. Cardinality(S) <= peak[o] BY DEF PeaksKnown
    <3> HIDE DEF S, T
    <3>3. Cardinality(T) <= Cardinality(S) /\ Cardinality(T) \in Nat /\ Cardinality(S) \in Nat BY <3>1, FewerCalls, CallsFinite
    <3>4. Cardinality(T) <= peak[o] BY <1>0, <3>2, <3>3
    <3> QED BY <2>1, <3>4 DEF T
  <2> QED BY <1>0, <2>1, <2>3, <2>4 DEF PeaksKnown
<1>3. CASE \E c \in Calls : OneCall(c) /\ ReadKey(c)
  <2>1. PICK c \in Calls : OneCall(c) /\ ReadKey(c) BY <1>3
  <2> DEFINE x == CallKey[c]
             y == KeyOwner[x]
  <2>2. \A d \in Calls : d # c => call'[d] = call[d] BY <2>1, OneCallBusy
  <2>3. call[c].pc = "new" BY <2>1 DEF ReadKey
  <2>4. /\ \A z \in ApiKeys \cup Owners : peak[z] <= peak'[z]
        /\ 1 + Cardinality(InProgress(x)) <= peak'[x]
        /\ 1 + Cardinality(OfOwner(y)) <= peak'[y]
    BY <2>1, PeakTyped
  <2>5. \A m, n, p \in Nat : m <= n /\ n <= p => m <= p OBVIOUS
  <2>6. ASSUME NEW k \in ApiKeys PROVE Cardinality(InProgress(k)') <= peak'[k]
    <3> DEFINE S == InProgress(k)
               T == InProgress(k)'
    <3>1. S \in SUBSET Calls /\ T \in SUBSET (S \cup {c}) /\ c \notin S /\ (k # x => T \in SUBSET S)
      BY <2>2, <2>3 DEF InProgress
    <3>2. Cardinality(S) <= peak[k] /\ (k = x => 1 + Cardinality(S) <= peak'[k]) BY <2>4 DEF PeaksKnown
    <3> HIDE DEF S, T
    <3>3. IsFiniteSet(S) /\ Cardinality(S) \in Nat /\ S \cup {c} \in SUBSET Calls /\ T \in SUBSET Calls BY <3>1, CallsFinite
    <3>4. Cardinality(S \cup {c}) = Cardinality(S) + 1 BY <3>1, <3>3, FS_AddElement
    <3>5. Cardinality(T) <= Cardinality(S \cup {c}) /\ Cardinality(T) \in Nat BY <3>1, <3>3, FewerCalls, CallsFinite
    <3>6. CASE k = x BY <1>0, <2>5, <3>2, <3>3, <3>4, <3>5, <3>6 DEF T
    <3>7. CASE k # x
      <4>1. Cardinality(T) <= Cardinality(S) BY <3>1, <3>7, FewerCalls
      <4>2. Cardinality(T) <= peak[k] BY <1>0, <2>5, <3>2, <3>3, <3>5, <4>1
      <4>3. peak[k] <= peak'[k] /\ peak[k] \in Nat /\ peak'[k] \in Nat BY <1>0, <2>4
      <4> QED BY <2>5, <3>5, <4>2, <4>3 DEF T
    <3> QED BY <3>6, <3>7
  <2>7. ASSUME NEW o \in Owners PROVE Cardinality(OfOwner(o)') <= peak'[o]
    <3> DEFINE S == OfOwner(o)
               T == OfOwner(o)'
    <3>1. S \in SUBSET Calls /\ T \in SUBSET (S \cup {c}) /\ c \notin S /\ (o # y => T \in SUBSET S)
      BY <2>2, <2>3 DEF OfOwner
    <3>2. Cardinality(S) <= peak[o] /\ (o = y => 1 + Cardinality(S) <= peak'[o]) BY <2>4 DEF PeaksKnown
    <3> HIDE DEF S, T
    <3>3. IsFiniteSet(S) /\ Cardinality(S) \in Nat /\ S \cup {c} \in SUBSET Calls /\ T \in SUBSET Calls BY <3>1, CallsFinite
    <3>4. Cardinality(S \cup {c}) = Cardinality(S) + 1 BY <3>1, <3>3, FS_AddElement
    <3>5. Cardinality(T) <= Cardinality(S \cup {c}) /\ Cardinality(T) \in Nat BY <3>1, <3>3, FewerCalls, CallsFinite
    <3>6. CASE o = y BY <1>0, <2>5, <3>2, <3>3, <3>4, <3>5, <3>6 DEF T
    <3>7. CASE o # y
      <4>1. Cardinality(T) <= Cardinality(S) BY <3>1, <3>7, FewerCalls
      <4>2. Cardinality(T) <= peak[o] BY <1>0, <2>5, <3>2, <3>3, <3>5, <4>1
      <4>3. peak[o] <= peak'[o] /\ peak[o] \in Nat /\ peak'[o] \in Nat BY <1>0, <2>4
      <4> QED BY <2>5, <3>5, <4>2, <4>3 DEF T
    <3> QED BY <3>6, <3>7
  <2> QED BY <2>4, <2>6, <2>7 DEF PeaksKnown
<1> QED BY <1>1, <1>2, <1>3, StepKindsAre DEF StartsPlan, Loosens

-----------------------------------------------------------------------------
(*                         Room for the calls of a key                     *)

\* What rows use after a step, and that they are among the rows before it.
UsedThen(S) == Total(S, [i \in S |-> usage'[i].amount])
Stay(T, S) == S \subseteq T /\ \A i \in S : usage'[i].amount = usage[i].amount

\* Rows that stay and calls that end leave the room there is.
LEMMA RoomStays ==
  ASSUME AdmissionTypeOK, NEW T \in SUBSET (DOMAIN usage), NEW S, Stay(T, S), NEW C \in SUBSET Calls, NEW D \in SUBSET C,
         NEW limit \in Nat, NEW p \in Nat, NEW q \in Nat, p <= q, Room(Used(T), C, limit, p)
  PROVE  Room(UsedThen(S), D, limit, q)
BY UsedType, UsedKept, CallsFinite, RoomKept DEF Stay, UsedThen

\* A call that leaves its row uses the room it had.
LEMMA RoomLogs ==
  ASSUME AdmissionTypeOK, NEW c \in Calls, NewRow(c), NEW T \in SUBSET (DOMAIN usage),
         NEW S \in SUBSET (T \cup {lastUsage + 1}), NEW C \in SUBSET Calls, c \in C, NEW D \in SUBSET (C \ {c}),
         NEW limit \in Nat, NEW p \in Nat, Room(Used(T), C, limit, p)
  PROVE  Room(UsedThen(S), D, limit, p)
BY UsedMore, UsedType, CallsFinite, RoomPays DEF NewRow, UsedThen

\* A peak is a number.
LEMMA PeakTypes ==
  ASSUME AdmissionTypeOK
  PROVE  \A x \in ApiKeys \cup Owners : peak[x] \in Nat /\ peak[x] <= peak[x]
BY DEF AdmissionTypeOK

\* What a key's limits and rows are.
LEMMA KeyTypes ==
  ASSUME AdmissionTypeOK, NEW k \in ApiKeys
  PROVE  /\ keyRow[k].quota \in Nat /\ keyRow[k].rate \in Nat /\ keyRow[k].quotaFrom \in Nat /\ keyRow[k].rateFrom \in Nat
         /\ windowStart \in Nat /\ k # NoKey
         /\ QuotaRows(k) \in SUBSET (DOMAIN usage) /\ RateRows(k) \in SUBSET (DOMAIN usage) /\ Passed(k) \in SUBSET Calls
BY AdmissionSets, RowTypes DEF AdmissionTypeOK, QuotaRows, RateRows, Passed, RowsOfKey

\* What the room of a key is after a step.
LEMMA KeyRoomThen ==
  ASSUME NEW k \in ApiKeys,
         keyRow'[k].quota > 0 => Room(UsedThen(QuotaRows(k)'), Passed(k)', keyRow'[k].quota, peak'[k]),
         keyRow'[k].rate > 0 => Room(UsedThen(RateRows(k)'), Passed(k)', keyRow'[k].rate, peak'[k])
  PROVE  KeyRoom(k)'
  BY DEF KeyRoom, Room, Used, UsedThen, Allowance, MaxAmount

\* A step that leaves a key its limits, its rows or some of them, and its calls.
LEMMA KeyRoomStays ==
  ASSUME AdmissionTypeOK, AdmissionTypeOK', NEW k \in ApiKeys, KeyRoom(k),
         Stay(QuotaRows(k), QuotaRows(k)'), Stay(RateRows(k), RateRows(k)'), Passed(k)' \in SUBSET Passed(k),
         keyRow'[k].quota = keyRow[k].quota, keyRow'[k].rate = keyRow[k].rate, peak[k] <= peak'[k]
  PROVE  KeyRoom(k)'
BY KeyTypes, RoomStays, KeyRoomThen DEF AdmissionTypeOK, KeyRoom

\* An edit leaves room for the calls of a key it does not mark.
LEMMA KeyRoomLoosens ==
  ASSUME AdmissionTypeOK, AdmissionTypeOK', NEW k \in ApiKeys, k \notin loosened', KeyRoom(k), Loosens
  PROVE  KeyRoom(k)'
<1>1. UsageKept /\ SameLimits(k) /\ windowStart <= windowStart' /\ UNCHANGED <<call, peak>> BY DEF Loosens
<1>2. /\ keyRow[k].quotaFrom \in Nat /\ keyRow[k].rateFrom \in Nat /\ windowStart \in Nat /\ k # NoKey
      /\ keyRow'[k].quotaFrom \in Nat /\ keyRow'[k].rateFrom \in Nat /\ windowStart' \in Nat
  BY KeyTypes, RowTypes DEF AdmissionTypeOK
<1>3. \A i \in DOMAIN usage : i \in Nat BY UsageTypes
<1>4. \A x, y, i \in Nat : x <= y /\ i > y => i > x OBVIOUS
<1>5. \A i \in DOMAIN usage' : /\ i \in DOMAIN usage /\ i \in Nat /\ usage'[i].amount = usage[i].amount
                               /\ usage'[i].key = k => usage[i].key = k
  BY <1>1, <1>2, <1>3 DEF UsageKept
<1>6. Stay(QuotaRows(k), QuotaRows(k)') BY <1>1, <1>2, <1>4, <1>5 DEF Stay, QuotaRows, RowsOfKey, SameLimits
<1>7. Stay(RateRows(k), RateRows(k)') BY <1>1, <1>2, <1>4, <1>5 DEF Stay, RateRows, RowsOfKey, SameLimits
<1>8. Passed(k)' \in SUBSET Passed(k) BY <1>1 DEF Passed
<1>9. peak[k] <= peak'[k] BY <1>1, PeakTypes
<1> QED BY <1>1, <1>6, <1>7, <1>8, <1>9, KeyRoomStays DEF SameLimits

\* Rows that a quota counts are rows the call's own row counts.
LEMMA PolicyRoom ==
  ASSUME AdmissionTypeOK, AdmissionTypeOK', Snapshots, PeaksKnown', NEW c \in Calls, OneCall(c), UNCHANGED usage,
         call[c].pc = "policy", WithinPolicy(CallKey[c], call[c].row), CallKey[c] \notin loosened
  PROVE  KeyRoom(CallKey[c])'
<1> DEFINE k == CallKey[c]
           r == call[c].row
           W == {i \in DOMAIN usage : i > windowStart}
<1>0. k \in ApiKeys /\ r \in KeyRow BY CallTypes
<1>1. UNCHANGED <<keyRow, windowStart>> BY OneCallBusy
<1>2. /\ r.quota = keyRow[k].quota /\ r.quotaFrom <= keyRow[k].quotaFrom
      /\ r.rate = keyRow[k].rate /\ r.rateFrom <= keyRow[k].rateFrom
  BY DEF Snapshots, Busy
<1>3. /\ r.quotaFrom \in Nat /\ r.rateFrom \in Nat /\ keyRow[k].quotaFrom \in Nat /\ keyRow[k].rateFrom \in Nat
      /\ keyRow[k].quota \in Nat /\ keyRow[k].rate \in Nat
  BY <1>0, RowTypes, KeyTypes
<1>4. \A i \in DOMAIN usage : i \in Nat BY UsageTypes
<1>5. \A x, y, i \in Nat : x <= y /\ i > y => i > x OBVIOUS
<1>6. Passed(k)' \in SUBSET (InProgress(k)') /\ InProgress(k)' \in SUBSET Calls BY DEF Passed, InProgress
<1>7. peak'[k] \in Nat /\ Cardinality(Passed(k)') <= peak'[k] /\ IsFiniteSet(Passed(k)')
  <2>1. peak'[k] \in Nat BY <1>0 DEF AdmissionTypeOK
  <2>2. Cardinality(InProgress(k)') <= peak'[k] BY <1>0 DEF PeaksKnown
  <2> DEFINE P == Passed(k)'
             Q == InProgress(k)'
  <2>3. P \in SUBSET Q /\ Q \in SUBSET Calls /\ Cardinality(Q) <= peak'[k] BY <1>6, <2>2
  <2> HIDE DEF P, Q
  <2>4. Cardinality(P) <= Cardinality(Q) /\ Cardinality(P) \in Nat /\ Cardinality(Q) \in Nat /\ IsFiniteSet(P)
    BY <2>3, FewerCalls, CallsFinite
  <2>5. Cardinality(P) <= peak'[k] BY <2>1, <2>3, <2>4
  <2> QED BY <2>1, <2>4, <2>5 DEF P
<1>8. \A S : UsedThen(S) = Used(S) BY DEF UsedThen, Used
<1>9. ASSUME keyRow[k].quota > 0
      PROVE  Room(UsedThen(QuotaRows(k)'), Passed(k)', keyRow'[k].quota, peak'[k])
  <2> DEFINE S == QuotaRows(k)'
             T == RowsOfKey(k, r.quotaFrom)
  <2>1. Used(T) < keyRow[k].quota BY <1>2, <1>9 DEF WithinPolicy
  <2>2. S \in SUBSET T /\ T \in SUBSET (DOMAIN usage) BY <1>1, <1>2, <1>3, <1>4, <1>5 DEF QuotaRows, RowsOfKey
  <2> HIDE DEF S, T
  <2>3. Used(S) <= Used(T) /\ Used(S) \in Nat /\ Used(T) \in Nat BY <2>2, UsedLess, UsedType
  <2>4. Used(S) < keyRow[k].quota BY <1>3, <2>1, <2>3
  <2>5. Room(Used(S), Passed(k)', keyRow[k].quota, peak'[k]) BY <1>3, <1>7, <2>3, <2>4, RoomStarts
  <2> QED BY <1>1, <1>8, <2>5 DEF S
<1>10. ASSUME keyRow[k].rate > 0
       PROVE  Room(UsedThen(RateRows(k)'), Passed(k)', keyRow'[k].rate, peak'[k])
  <2> DEFINE S == RateRows(k)'
             T == RowsOfKey(k, r.rateFrom) \cap W
  <2>1. Used(T) < keyRow[k].rate BY <1>2, <1>10 DEF WithinPolicy
  <2>2. S \in SUBSET T /\ T \in SUBSET (DOMAIN usage) BY <1>1, <1>2, <1>3, <1>4, <1>5 DEF RateRows, RowsOfKey
  <2> HIDE DEF S, T
  <2>3. Used(S) <= Used(T) /\ Used(S) \in Nat /\ Used(T) \in Nat BY <2>2, UsedLess, UsedType
  <2>4. Used(S) < keyRow[k].rate BY <1>3, <2>1, <2>3
  <2>5. Room(Used(S), Passed(k)', keyRow[k].rate, peak'[k]) BY <1>3, <1>7, <2>3, <2>4, RoomStarts
  <2> QED BY <1>1, <1>8, <2>5 DEF S
<1> QED BY <1>0, <1>1, <1>9, <1>10, KeyRoomThen

\* A call passes its key's policy by EnforcePolicy, and else it had passed it.
LEMMA OneCallPassed ==
  ASSUME AdmissionTypeOK, NEW c \in Calls, OneCall(c), call'[c].pc \notin {"new", "policy", "end"},
         ~ (call[c].pc = "policy" /\ WithinPolicy(CallKey[c], call[c].row) /\ UNCHANGED usage)
  PROVE  call[c].pc \notin {"new", "policy", "end"}
BY DEF CallMoved, From, OneCall

\* A check leaves room: a call that passes its policy found its limits unused.
LEMMA KeyRoomMoves ==
  ASSUME AdmissionTypeOK, AdmissionTypeOK', Snapshots, PeaksKnown', NEW c \in Calls, OneCall(c),
         NEW k \in ApiKeys, k \notin loosened, KeyRoom(k), peak[k] <= peak'[k], UNCHANGED usage
  PROVE  KeyRoom(k)'
<1>1. UNCHANGED <<keyRow, windowStart>> /\ \A d \in Calls : d # c => call'[d] = call[d] BY OneCallBusy
<1>2. CASE CallKey[c] = k /\ call[c].pc = "policy" /\ WithinPolicy(CallKey[c], call[c].row)
  BY <1>2, PolicyRoom
<1>3. CASE ~ (CallKey[c] = k /\ call[c].pc = "policy" /\ WithinPolicy(CallKey[c], call[c].row))
  BY <1>1, <1>3, OneCallPassed, KeyRoomStays DEF Passed, Stay, QuotaRows, RateRows, RowsOfKey
<1> QED BY <1>2, <1>3

\* A row that is written uses the room of its call.
LEMMA KeyRoomLogs ==
  ASSUME AdmissionTypeOK, AdmissionTypeOK', NEW c \in Calls, CallAlone(c), NewRow(c), UNCHANGED peak,
         call[c].pc = "serving", call'[c].pc = "end",
         NEW k \in ApiKeys, KeyRoom(k)
  PROVE  KeyRoom(k)'
<1> DEFINE n == lastUsage + 1
<1>1. /\ UNCHANGED <<keyRow, windowStart>> /\ \A d \in Calls : d # c => call'[d] = call[d]
      /\ n \notin DOMAIN usage /\ DOMAIN usage' = DOMAIN usage \cup {n}
      /\ \A i \in DOMAIN usage : usage'[i] = usage[i]
      /\ usage'[n].key = CallKey[c]
  BY DEF CallAlone, NewRow
<1> HIDE DEF n
<1>2. CASE CallKey[c] = k
  <2>1. c \in Passed(k) /\ Passed(k)' \in SUBSET (Passed(k) \ {c}) BY <1>1, <1>2 DEF Passed
  <2>2. QuotaRows(k)' \in SUBSET (QuotaRows(k) \cup {n}) /\ RateRows(k)' \in SUBSET (RateRows(k) \cup {n})
    BY <1>1 DEF QuotaRows, RateRows, RowsOfKey
  <2>3. /\ keyRow[k].quota > 0 => Room(Used(QuotaRows(k)), Passed(k), keyRow[k].quota, peak[k])
        /\ keyRow[k].rate > 0 => Room(Used(RateRows(k)), Passed(k), keyRow[k].rate, peak[k])
    BY DEF KeyRoom
  <2>4. keyRow'[k].quota > 0 => Room(UsedThen(QuotaRows(k)'), Passed(k)', keyRow'[k].quota, peak'[k])
    BY <1>1, <2>1, <2>2, <2>3, KeyTypes, PeakTypes, RoomLogs DEF n
  <2>5. keyRow'[k].rate > 0 => Room(UsedThen(RateRows(k)'), Passed(k)', keyRow'[k].rate, peak'[k])
    BY <1>1, <2>1, <2>2, <2>3, KeyTypes, PeakTypes, RoomLogs DEF n
  <2> QED BY <2>4, <2>5, KeyRoomThen
<1>3. CASE CallKey[c] # k BY <1>1, <1>3, KeyRoomStays, PeakTypes DEF Passed, Stay, QuotaRows, RateRows, RowsOfKey
<1> QED BY <1>2, <1>3

\* Every step leaves room for the calls of a key that is not marked.
LEMMA KeyRoomsKept ==
  ASSUME CountSafe, \A k \in ApiKeys \ loosened : KeyRoom(k), AdmissionNext
  PROVE  \A k \in ApiKeys \ loosened' : KeyRoom(k)'
<1> USE DEF CountSafe
<1> SUFFICES ASSUME NEW k \in ApiKeys, k \notin loosened' PROVE KeyRoom(k)'
  OBVIOUS
<1>1. AdmissionTypeOK' /\ PeaksKnown' /\ peak[k] <= peak'[k] BY StepKindsAre, PeaksKept
<1>2. CASE \E c \in Calls : OneCall(c) /\ (ReadKey(c) \/ (UNCHANGED peak /\ call[c].pc # "new"))
  <2>1. PICK c \in Calls : OneCall(c) /\ (ReadKey(c) \/ (UNCHANGED peak /\ call[c].pc # "new")) BY <1>2
  <2>2. k \notin loosened BY <2>1, OneCallBusy
  <2>3. KeyRoom(k) BY <2>2
  <2>4. CASE UNCHANGED usage BY <1>1, <2>1, <2>2, <2>3, <2>4, KeyRoomMoves
  <2>5. CASE ~ UNCHANGED usage BY <2>1, <2>5, <1>1, <2>3, KeyRoomLogs DEF OneCall, ReadKey
  <2> QED BY <2>4, <2>5
<1>3. CASE \E o \in Owners, s \in Scopes : StartsPlan(o, s)
  BY <1>3, <1>1, KeyRoomStays DEF StartsPlan, Passed, Stay, QuotaRows, RateRows, RowsOfKey
<1>4. CASE Loosens BY <1>4, <1>1, KeyRoomLoosens DEF Loosens
<1> QED BY <1>2, <1>3, <1>4, StepKindsAre

-----------------------------------------------------------------------------
(*                    Room for the calls of a subscription                 *)

\* What a subscription's limit and rows are.
LEMMA PlanTypes ==
  ASSUME AdmissionTypeOK, NEW o \in Owners, NEW g \in KeyGroups
  PROVE  /\ Plan(o, g) \in Subscription /\ Plan(o, g).limit \in Nat /\ Plan(o, g).from \in Nat
         /\ PlanRows(o, g) \in SUBSET (DOMAIN usage) /\ Unmeasured(o, g) \in SUBSET Calls
         /\ peak[o] \in Nat /\ g # NoGroup
BY RowTypes, AdmissionSets DEF AdmissionTypeOK, Plan, PlanRows, RowsOfPlan, Unmeasured

\* What the room of a subscription is after a step.
LEMMA PlanRoomThen ==
  ASSUME NEW o \in Owners, NEW g \in KeyGroups,
         Limited(o, g)' => Room(UsedThen(PlanRows(o, g)'), Unmeasured(o, g)', subscription'[<<o, g>>].limit, peak'[o])
  PROVE  PlanRoom(o, g)'
  BY DEF PlanRoom, Plan, Room, Used, UsedThen, Allowance, MaxAmount

\* A step that leaves a subscription, its rows or some of them, and its calls.
LEMMA PlanRoomStays ==
  ASSUME AdmissionTypeOK, AdmissionTypeOK', NEW o \in Owners, NEW g \in KeyGroups, Limited(o, g), PlanRoom(o, g),
         Stay(PlanRows(o, g), PlanRows(o, g)'), Unmeasured(o, g)' \in SUBSET Unmeasured(o, g),
         subscription'[<<o, g>>] = subscription[<<o, g>>], peak[o] <= peak'[o]
  PROVE  PlanRoom(o, g)'
BY PlanTypes, RoomStays, PlanRoomThen DEF PlanRoom, AdmissionTypeOK, Plan

\* An edit leaves room for the calls of a subscription, as long as no key of
\* its owner is marked.
LEMMA PlanRoomLoosens ==
  ASSUME AdmissionTypeOK, AdmissionTypeOK', RowsOwned, NEW o \in Owners, NEW g \in KeyGroups, PlanRoom(o, g), Loosens
  PROVE  PlanRoom(o, g)'
<1> SUFFICES ASSUME Limited(o, g)' PROVE PlanRoom(o, g)'
  BY DEF PlanRoom
<1>1. /\ UNCHANGED <<call, peak>> /\ UsageKept /\ loosened \subseteq loosened'
      /\ \A k \in ApiKeys \ loosened' : SameLimits(k)
  BY DEF Loosens
<1>2. subscription'[<<o, g>>] = subscription[<<o, g>>] BY RowTypes DEF Limited, Plan, Loosens
<1>3. Limited(o, g) BY <1>1, <1>2 DEF Limited, Plan
<1>4. \A k \in loosened' : KeyOwner[k] # o BY DEF Limited
<1>5. ASSUME NEW i \in PlanRows(o, g)' PROVE i \in PlanRows(o, g) /\ usage'[i].amount = usage[i].amount
  BY PlanTypes, <1>1, UsageTypes, <1>4, <1>2 DEF PlanRows, RowsOfPlan, UsageKept, RowsOwned, SameLimits, Plan
<1>6. Stay(PlanRows(o, g), PlanRows(o, g)') BY <1>5 DEF Stay
<1>7. Unmeasured(o, g)' \in SUBSET Unmeasured(o, g) BY <1>1, <1>2 DEF Unmeasured, Plan
<1>8. peak[o] <= peak'[o] BY <1>1, PeakTypes
<1> QED BY <1>2, <1>3, <1>6, <1>7, <1>8, PlanRoomStays

\* No calls of an owner are more than were ever in progress.
LEMMA UnmeasuredFew ==
  ASSUME AdmissionTypeOK', PeaksKnown', NEW o \in Owners, NEW g \in KeyGroups
  PROVE  peak'[o] \in Nat /\ Cardinality(Unmeasured(o, g)') <= peak'[o] /\ IsFiniteSet(Unmeasured(o, g)')
<1>1. peak'[o] \in Nat BY DEF AdmissionTypeOK
<1> DEFINE P == Unmeasured(o, g)'
           Q == OfOwner(o)'
<1>2. P \in SUBSET Q /\ Q \in SUBSET Calls BY DEF Unmeasured, OfOwner
<1>3. Cardinality(Q) <= peak'[o] BY DEF PeaksKnown
<1> HIDE DEF P, Q
<1>4. Cardinality(P) <= Cardinality(Q) /\ Cardinality(P) \in Nat /\ Cardinality(Q) \in Nat /\ IsFiniteSet(P)
  BY <1>2, FewerCalls, CallsFinite
<1>5. Cardinality(P) <= peak'[o] BY <1>1, <1>3, <1>4
<1> QED BY <1>1, <1>4, <1>5 DEF P

\* A new period counts no row there is.
LEMMA PlanRoomStarts ==
  ASSUME AdmissionTypeOK, AdmissionTypeOK', PeaksKnown', NEW o \in Owners, NEW g \in KeyGroups, StartsPlan(o, g)
  PROVE  PlanRoom(o, g)'
<1> SUFFICES ASSUME Limited(o, g)'
    PROVE Room(UsedThen(PlanRows(o, g)'), Unmeasured(o, g)', subscription'[<<o, g>>].limit, peak'[o])
  BY PlanRoomThen
<1>1. UNCHANGED usage /\ subscription'[<<o, g>>].from = lastUsage BY DEF StartsPlan
<1>2. \A i \in DOMAIN usage : ~ (i > lastUsage) BY UsageTypes
<1>3. PlanRows(o, g)' = {} BY <1>1, <1>2 DEF PlanRows, RowsOfPlan, Plan
<1>4. UsedThen({}) = 0 BY TotalEmpty DEF UsedThen
<1>5. subscription'[<<o, g>>].limit \in Nat /\ 0 < subscription'[<<o, g>>].limit
  BY RowTypes DEF AdmissionTypeOK, Limited, Plan
<1> QED BY <1>3, <1>4, <1>5, UnmeasuredFew, RoomStarts

\* A call of a group with a subscription gets past its quota only when the
\* rows are below the limit.
LEMMA OneCallMeasured ==
  ASSUME AdmissionTypeOK, NEW c \in Calls, OneCall(c), UNCHANGED usage, NEW o \in Owners, NEW g \in KeyGroups, Limited(o, g),
         c \in Unmeasured(o, g)'
  PROVE  c \in Unmeasured(o, g) \/ Used(PlanRows(o, g)) < Plan(o, g).limit
<1>1. /\ KeyOwner[CallKey[c]] = o /\ call'[c].row.group = g /\ UNCHANGED <<keyRow, subscription>>
      /\ \/ call'[c].pc \in {"group", "model", "serving"}
         \/ call'[c].pc = "sum" /\ ~(call'[c].scope = g /\ call'[c].plan = Plan(o, g))
  BY OneCallBusy DEF Unmeasured, Plan
<1>2. CallMoved(c) BY <1>1 DEF OneCall
<1>3. call'[c].row = call[c].row BY <1>2 DEF CallMoved, From, Kept
<1>4. Plan(o, g) = subscription[<<o, g>>] /\ Plan(o, g).state = "active" /\ Plan(o, g).limit # 0 /\ g # NoGroup
  BY PlanTypes DEF Limited, Plan
<1>5. OwnScope(c) = g BY <1>1, <1>3, <1>4 DEF OwnScope
<1>6. CASE call[c].pc \in {"group", "model"} BY <1>1, <1>3, <1>6 DEF Unmeasured
<1>7. CASE From(c, "sum") /\ AfterQuota(c) /\ Used(CountedRows(c)) < call[c].plan.limit
  BY <1>1, <1>7, <1>3 DEF CountedRows, PlanRows, Unmeasured, From
<1> QED BY <1>1, <1>2, <1>3, <1>4, <1>5, <1>6, <1>7 DEF CallMoved, From, AfterQuota

\* A check leaves room: a call that is measured found its limit unused.
LEMMA PlanRoomMoves ==
  ASSUME AdmissionTypeOK, AdmissionTypeOK', PeaksKnown', NEW c \in Calls, OneCall(c), UNCHANGED usage,
         NEW o \in Owners, NEW g \in KeyGroups, PlanRoom(o, g), peak[o] <= peak'[o]
  PROVE  PlanRoom(o, g)'
<1>1. UNCHANGED <<keyRow, subscription, loosened>> /\ \A d \in Calls : d # c => call'[d] = call[d] BY OneCallBusy
<1> SUFFICES ASSUME Limited(o, g)' PROVE PlanRoom(o, g)'
  BY DEF PlanRoom
<1>2. Limited(o, g) BY <1>1 DEF Limited, Plan
<1>3. PlanRows(o, g)' = PlanRows(o, g) BY <1>1 DEF PlanRows, RowsOfPlan, Plan
<1>4. CASE Used(PlanRows(o, g)) < Plan(o, g).limit
  <2>1. UsedThen(PlanRows(o, g)) = Used(PlanRows(o, g)) BY DEF UsedThen, Used
  <2>2. Used(PlanRows(o, g)) \in Nat BY PlanTypes, UsedType
  <2>3. Room(Used(PlanRows(o, g)), Unmeasured(o, g)', Plan(o, g).limit, peak'[o])
    BY <1>4, <2>2, PlanTypes, UnmeasuredFew, RoomStarts
  <2>4. subscription'[<<o, g>>].limit = Plan(o, g).limit BY <1>1 DEF Plan
  <2> QED BY <1>3, <2>1, <2>3, <2>4, PlanRoomThen
<1>5. CASE ~ (Used(PlanRows(o, g)) < Plan(o, g).limit)
  <2>1. c \in Unmeasured(o, g)' => c \in Unmeasured(o, g) BY <1>2, <1>5, OneCallMeasured
  <2>2. Unmeasured(o, g)' \in SUBSET Unmeasured(o, g) BY <1>1, <2>1 DEF Unmeasured, Plan
  <2>3. Stay(PlanRows(o, g), PlanRows(o, g)') BY <1>3 DEF Stay
  <2> QED BY <1>1, <1>2, <2>2, <2>3, PlanRoomStays
<1> QED BY <1>4, <1>5

\* A row that is written uses the room of its call, and counts for no other
\* subscription.
LEMMA PlanRoomLogs ==
  ASSUME AdmissionTypeOK, AdmissionTypeOK', Snapshots, NEW c \in Calls, CallAlone(c), NewRow(c), UNCHANGED peak,
         call[c].pc = "serving", call'[c].pc = "end", call'[c].row = call[c].row,
         NEW o \in Owners, NEW g \in KeyGroups, PlanRoom(o, g)
  PROVE  PlanRoom(o, g)'
<1> DEFINE n == lastUsage + 1
           k == CallKey[c]
<1>0. k \in ApiKeys BY CallTypes
<1>1. /\ UNCHANGED <<keyRow, subscription, loosened>> /\ \A d \in Calls : d # c => call'[d] = call[d]
      /\ n \notin DOMAIN usage /\ DOMAIN usage' = DOMAIN usage \cup {n}
      /\ \A i \in DOMAIN usage : usage'[i] = usage[i]
      /\ usage'[n].key = k /\ usage'[n].owner = KeyOwner[k]
  BY DEF CallAlone, NewRow
<1> SUFFICES ASSUME Limited(o, g)' PROVE PlanRoom(o, g)'
  BY DEF PlanRoom
<1>2. Limited(o, g) /\ g # NoGroup BY <1>1, PlanTypes DEF Limited, Plan
<1>3. subscription'[<<o, g>>].limit = Plan(o, g).limit BY <1>1 DEF Plan
<1>4. Unmeasured(o, g)' \in SUBSET (Unmeasured(o, g) \ {c}) BY <1>1 DEF Unmeasured, Plan
<1>5. PlanRows(o, g)' \in SUBSET (PlanRows(o, g) \cup {lastUsage + 1}) BY <1>1 DEF PlanRows, RowsOfPlan, Plan
<1> HIDE DEF n
<1>6. CASE KeyOwner[k] = o /\ call[c].row.group = g
  <2>1. c \in Unmeasured(o, g) BY <1>6 DEF Unmeasured
  <2>2. Room(Used(PlanRows(o, g)), Unmeasured(o, g), Plan(o, g).limit, peak[o]) BY <1>2 DEF PlanRoom
  <2>3. Room(UsedThen(PlanRows(o, g)'), Unmeasured(o, g)', Plan(o, g).limit, peak[o])
    BY <1>4, <1>5, <2>1, <2>2, PlanTypes, RoomLogs
  <2> QED BY <1>3, <2>3, PlanRoomThen
<1>7. CASE ~ (KeyOwner[k] = o /\ call[c].row.group = g)
  <2>1. KeyOwner[k] = o => keyRow[k].group # g BY <1>2, <1>7 DEF Limited, Snapshots, Busy
  <2>2. n \notin PlanRows(o, g)' BY <1>1, <1>2, <2>1 DEF PlanRows, RowsOfPlan, Plan
  <2>3. PlanRows(o, g)' \in SUBSET PlanRows(o, g) BY <1>5, <2>2 DEF n
  <2>4. Stay(PlanRows(o, g), PlanRows(o, g)') BY <1>1, <2>3, PlanTypes DEF Stay
  <2> QED BY <1>1, <1>2, <1>4, <2>4, PlanRoomStays, PeakTypes
<1> QED BY <1>6, <1>7

\* Every step leaves room for the calls of a subscription.
LEMMA PlanRoomsKept ==
  ASSUME CountSafe, NEW o \in Owners, NEW g \in KeyGroups, PlanRoom(o, g), AdmissionNext
  PROVE  PlanRoom(o, g)'
<1> USE DEF CountSafe
<1>1. AdmissionTypeOK' /\ PeaksKnown' /\ peak[o] <= peak'[o] BY StepKindsAre, PeaksKept
<1>2. CASE \E c \in Calls : OneCall(c) /\ (ReadKey(c) \/ (UNCHANGED peak /\ call[c].pc # "new"))
  <2>1. PICK c \in Calls : OneCall(c) /\ (ReadKey(c) \/ (UNCHANGED peak /\ call[c].pc # "new")) BY <1>2
  <2>2. CASE UNCHANGED usage BY <1>1, <2>1, <2>2, PlanRoomMoves
  <2>3. CASE ~ UNCHANGED usage BY <2>1, <2>3, <1>1, PlanRoomLogs DEF OneCall, ReadKey
  <2> QED BY <2>2, <2>3
<1>3. CASE \E p \in Owners, s \in Scopes : StartsPlan(p, s)
  <2>1. PICK p \in Owners, s \in Scopes : StartsPlan(p, s) BY <1>3
  <2>2. CASE p = o /\ s = g BY <1>1, <2>1, <2>2, PlanRoomStarts
  <2>3. CASE ~ (p = o /\ s = g)
    <3>1. subscription'[<<o, g>>] = subscription[<<o, g>>] /\ UNCHANGED <<keyRow, loosened, usage, call, peak>>
      BY <2>3, RowTypes, <2>1 DEF StartsPlan
    <3>2. Stay(PlanRows(o, g), PlanRows(o, g)') BY <3>1 DEF Stay, PlanRows, RowsOfPlan, Plan
    <3>3. Unmeasured(o, g)' \in SUBSET Unmeasured(o, g) BY <3>1 DEF Unmeasured, Plan
    <3>4. Limited(o, g)' => Limited(o, g) BY <3>1 DEF Limited, Plan
    <3>5. CASE Limited(o, g)' BY <1>1, <3>1, <3>2, <3>3, <3>4, <3>5, PlanRoomStays
    <3>6. CASE ~ Limited(o, g)' BY <3>6 DEF PlanRoom
    <3> QED BY <3>5, <3>6
  <2> QED BY <2>2, <2>3
<1>4. CASE Loosens BY <1>1, <1>4, PlanRoomLoosens
<1> QED BY <1>2, <1>3, <1>4, StepKindsAre

-----------------------------------------------------------------------------
(*                      What a call has been checked for                   *)

\* The places of a call whose owner was enabled, and the conditions a call has
\* seen hold by the place it is at.
PastOwner == {"access", "member", "quota", "sum", "group", "model", "serving"}
HeldOf(c) ==
  LET g == call[c].row.group IN
  /\ Busy(c) => "key" \in held[c]
  /\ call[c].pc \in PastOwner => "owner" \in held[c] /\ (g = NoGroup => {"group", "access"} \subseteq held[c])
  /\ call[c].pc \in PastOwner \ {"access"} => "group" \in held[c]
  /\ call[c].pc \in PastOwner \ {"access", "member"} => "access" \in held[c] \/ "changed" \in held[c]
  /\ call[c].pc = "member" => call[c].group.subscribers = groupRow[g].subscribers \/ "changed" \in held[c]

HeldOK == \A c \in Calls : HeldOf(c)

\* What a call remembers after a step: what held before it.
LEMMA HeldThen ==
  ASSUME AdmissionTypeOK, Remembers, NEW c \in Calls, call'[c].pc # "end"
  PROVE  /\ call[c].pc = "new" /\ call'[c].pc # "new" => "key" \in held'[c]
         /\ call[c].pc # "new" => /\ held[c] \cup True(c) \subseteq held'[c]
                                  /\ KindChanges(c) => "changed" \in held'[c]
  BY DEF Remembers

\* When a condition holds.
LEMMA TrueIs ==
  ASSUME NEW c \in Calls
  PROVE  LET o == KeyOwner[CallKey[c]]
             g == call[c].row.group
         IN /\ ownerRow[o].enabled => "owner" \in True(c)
            /\ g = NoGroup \/ groupRow[g].enabled => "group" \in True(c)
            /\ g = NoGroup \/ CanUse(o, g) => "access" \in True(c)
BY DEF Conditions, True

\* A call that stands still.
LEMMA HeldStill ==
  ASSUME AdmissionTypeOK, Grouped, Remembers, NEW c \in Calls, HeldOf(c), call'[c] = call[c]
  PROVE  HeldOf(c)'
<1>1. CASE call[c].pc \in {"new", "end"} BY <1>1 DEF HeldOf, Busy, PastOwner
<1>2. CASE call[c].pc \notin {"new", "end"} BY <1>2, HeldThen DEF KindChanges, Grouped, HeldOf, Busy
<1> QED BY <1>1, <1>2

\* A check that passes saw its condition hold.
LEMMA HeldMoves ==
  ASSUME AdmissionTypeOK, Grouped, Remembers, NEW c \in Calls, HeldOf(c), CallMoved(c), CallAlone(c)
  PROVE  HeldOf(c)'
<1> DEFINE o == KeyOwner[CallKey[c]]
           g == call[c].row.group
<1>1. CASE call'[c].pc = "end" BY <1>1 DEF HeldOf, Busy, PastOwner
<1>2. CASE call'[c].pc # "end"
  <2>0. UNCHANGED <<ownerRow, groupRow>> /\ call'[c].row = call[c].row /\ call[c].pc \notin {"new", "end"}
    BY <1>2 DEF CallAlone, CallMoved, From, Kept
  <2>1. held[c] \cup True(c) \subseteq held'[c] BY <1>2, <2>0, HeldThen
  <2>2. "key" \in held'[c] BY <2>0, <2>1 DEF HeldOf, Busy
  <2>3. CASE From(c, "policy") /\ call'[c].pc = "owner" BY <2>2, <2>3 DEF HeldOf, Busy, PastOwner
  <2>4. CASE From(c, "owner") /\ call'[c].pc = (IF g = NoGroup THEN "quota" ELSE "access") /\ ownerRow[o].enabled
    BY <2>1, <2>4, TrueIs, <2>0, <2>2 DEF HeldOf, Busy, PastOwner
  <2>5. CASE /\ From(c, "access") /\ call'[c].pc \in {"quota", "member"} /\ groupRow[g].enabled
             /\ call'[c].group = groupRow[g]
             /\ call'[c].pc = "quota" =>
                  \/ o \in Administrators
                  \/ ~groupRow[g].subscribers /\ ownerRow[o].allowAll /\ ~groupRow[g].exclusive
    <3>1. "owner" \in held'[c] /\ g # NoGroup BY <2>1, <2>5 DEF HeldOf, PastOwner, From, Grouped
    <3>2. "group" \in held'[c] BY SMTT(30), <2>1, <2>5, TrueIs
    <3>3. call'[c].pc = "quota" => "access" \in held'[c] BY <2>5, <2>1, TrueIs DEF CanUse
    <3> QED BY <2>0, <2>2, <2>5, <3>1, <3>2, <3>3 DEF HeldOf, Busy, PastOwner
  <2>6. CASE From(c, "member") /\ call'[c].pc = "quota" /\ Member(c)
    <3>1. "owner" \in held'[c] /\ "group" \in held'[c] /\ g # NoGroup
      BY <2>1, <2>6 DEF HeldOf, PastOwner, From, Grouped
    <3>2. call[c].group.subscribers = groupRow[g].subscribers \/ "changed" \in held[c] BY <2>6 DEF HeldOf, From
    <3>3. call[c].group.subscribers = groupRow[g].subscribers => CanUse(o, g) BY <2>6 DEF Member, CanUse
    <3>4. "access" \in held'[c] \/ "changed" \in held'[c] BY <2>1, <3>2, <3>3, TrueIs
    <3> QED BY <2>0, <2>2, <2>6, <3>1, <3>4 DEF HeldOf, Busy, PastOwner
  <2>7. CASE call[c].pc \in {"quota", "sum", "group", "model"} /\ call'[c].pc \in {"sum", "group", "model", "serving"}
    BY <2>7, <2>0, <2>1, <2>2 DEF HeldOf, PastOwner, Busy
  <2> QED BY <1>2, <2>3, <2>4, <2>5, <2>6, <2>7 DEF CallMoved, From, AfterQuota
<1> QED BY <1>1, <1>2

\* A call has seen what it was checked for: kept by every step.
LEMMA HeldKept ==
  ASSUME AdmissionTypeOK, Grouped, HeldOK, AdmissionNext
  PROVE  HeldOK'
<1>0. Remembers BY StepKindsAre
<1>1. CASE UNCHANGED call BY <1>0, <1>1, HeldStill DEF HeldOK
<1>2. CASE \E c \in Calls : OneCall(c)
  <2>1. PICK c \in Calls : OneCall(c) BY <1>2
  <2>2. \A d \in Calls : d # c => call'[d] = call[d] BY <2>1, OneCallBusy
  <2>3. HeldOf(c)'
    <3>1. CASE CallMoved(c) BY <1>0, <2>1, <3>1, HeldMoves DEF HeldOK, OneCall
    <3>2. CASE call'[c].pc = "end" BY <3>2 DEF HeldOf, Busy, PastOwner
    <3>3. CASE call[c].pc = "new" /\ call'[c].pc = "policy" BY <1>0, <3>3, HeldThen DEF HeldOf, Busy, PastOwner
    <3> QED BY <2>1, <3>1, <3>2, <3>3 DEF OneCall
  <2>4. ASSUME NEW d \in Calls, d # c PROVE HeldOf(d)'
    BY <1>0, <2>2, <2>4, HeldStill DEF HeldOK
  <2> QED BY <2>3, <2>4 DEF HeldOK
<1> QED BY <1>1, <1>2, StepKindsAre DEF StartsPlan, Loosens

-----------------------------------------------------------------------------
(*                              The theorem                                *)

\* What is true of every reachable state.
AdmissionInv == CountSafe /\ Counts /\ HeldOK

\* The rows a behaviour begins with have their types.
LEMMA InitTyped ==
  ASSUME AdmissionInit
  PROVE  AdmissionTypeOK /\ usage = <<>> /\ \A c \in Calls : call[c].pc \in {"new", "end"}
<1>1. PICK s \in AdmissionStarts, model \in [Calls -> Models] :
       /\ keyRow = s.keys /\ ownerRow = s.owners /\ groupRow = s.groups /\ subscription = s.subscriptions
       /\ edits = s.edits
       /\ call = [c \in Calls |->
                   [pc |-> IF c \in s.calls THEN "new" ELSE "end", row |-> s.keys[CallKey[c]],
                    group |-> NoRow, scope |-> NoGroup, plan |-> NoPlan, model |-> model[c]]]
  BY DEF AdmissionInit
<1>2. /\ windowStart = 0 /\ usage = <<>> /\ lastUsage = 0 /\ cleanup = NoCleanup
      /\ held = [c \in Calls |-> {}] /\ peak = [x \in ApiKeys \cup Owners |-> 0] /\ loosened = {}
  BY DEF AdmissionInit
<1>3. /\ s.keys \in [ApiKeys -> KeyRow] /\ \A k \in ApiKeys : s.keys[k].quotaFrom = 0 /\ s.keys[k].rateFrom = 0
      /\ s.owners \in [Owners -> OwnerRow] /\ s.groups \in [KeyGroups -> GroupRow]
      /\ s.subscriptions \in [Owners \X Scopes -> Subscription]
      /\ \A x \in Owners \X Scopes : s.subscriptions[x].from = 0
      /\ s.edits \in Nat
  BY AdmissionRows
<1>4. call \in [Calls -> CallState] /\ \A c \in Calls : call[c].pc \in {"new", "end"}
  BY <1>3, AdmissionSets, <1>1, RowTypes DEF CallState
<1>5. /\ windowStart \in 0 .. lastUsage /\ lastUsage \in Nat
      /\ \A k \in ApiKeys : keyRow[k].quotaFrom <= lastUsage /\ keyRow[k].rateFrom <= lastUsage
      /\ \A x \in Owners \X Scopes : subscription[x].from <= lastUsage
      /\ DOMAIN usage = {}
  BY <1>1, <1>2, <1>3
<1>6. cleanup \in [open : BOOLEAN, key : ApiKeys \cup {NoKey}, max : Nat, shown : SUBSET (1 .. lastUsage)]
  BY <1>2 DEF NoCleanup
<1>7. held \in [Calls -> SUBSET Conditions] /\ peak \in [ApiKeys \cup Owners -> Nat] BY <1>2
<1> QED BY <1>1, <1>2, <1>3, <1>4, <1>5, <1>6, <1>7 DEF AdmissionTypeOK

\* The invariant holds at first, ...
LEMMA InitInv == AdmissionInit => AdmissionInv
<1> SUFFICES ASSUME AdmissionInit PROVE AdmissionInv OBVIOUS
<1>1. AdmissionTypeOK /\ usage = <<>> /\ \A c \in Calls : call[c].pc \in {"new", "end"} BY InitTyped
<1>2. DOMAIN usage = {} BY <1>1
<1>3. Grouped BY <1>1 DEF Grouped
<1>4. Snapshots BY <1>1 DEF Snapshots, Busy
<1>5. RowsOwned BY <1>2 DEF RowsOwned
<1>6. Cardinality({}) = 0 /\ IsFiniteSet({}) BY FS_EmptySet
<1>7. \A x \in ApiKeys \cup Owners : peak[x] = 0 BY DEF AdmissionInit
<1>8. /\ \A k \in ApiKeys : InProgress(k) = {} /\ Passed(k) = {} /\ QuotaRows(k) = {} /\ RateRows(k) = {}
      /\ \A o \in Owners : OfOwner(o) = {}
      /\ \A o \in Owners, g \in KeyGroups : Unmeasured(o, g) = {} /\ PlanRows(o, g) = {}
  BY <1>1, <1>2 DEF InProgress, Passed, QuotaRows, RateRows, RowsOfKey, OfOwner, Unmeasured, PlanRows, RowsOfPlan
<1>9. PeaksKnown
  <2>1. ASSUME NEW k \in ApiKeys PROVE Cardinality(InProgress(k)) <= peak[k] BY <1>7, <1>8, <1>6
  <2>2. ASSUME NEW o \in Owners PROVE Cardinality(OfOwner(o)) <= peak[o] BY <1>7, <1>8, <1>6
  <2> QED BY <2>1, <2>2 DEF PeaksKnown
<1>10. Used({}) = 0 BY TotalEmpty DEF Used
<1>11. \A n \in Nat : n > 0 => 0 < n OBVIOUS
<1>12. ASSUME NEW limit \in Nat, limit > 0 PROVE Room(Used({}), {}, limit, 0)
  BY <1>6, <1>10, <1>12, RoomStarts
<1>13. ASSUME NEW k \in ApiKeys PROVE KeyRoom(k)
  BY <1>1, <1>7, <1>8, <1>12, KeyTypes DEF KeyRoom
<1>14. ASSUME NEW o \in Owners, NEW g \in KeyGroups PROVE PlanRoom(o, g)
  BY <1>1, <1>7, <1>8, <1>12, PlanTypes DEF PlanRoom, Limited
<1>15. HeldOK BY <1>1 DEF HeldOK, HeldOf, Busy, PastOwner
<1> QED BY <1>1, <1>3, <1>4, <1>5, <1>9, <1>13, <1>14, <1>15 DEF AdmissionInv, CountSafe, Counts

\* ... every step keeps it, ...
LEMMA NextInv == AdmissionInv /\ AdmissionNext => AdmissionInv'
<1> SUFFICES ASSUME AdmissionInv, AdmissionNext PROVE AdmissionInv' OBVIOUS
<1>1. CountSafe /\ Counts /\ HeldOK BY DEF AdmissionInv
<1>2. CountSafe'
  BY <1>1, StepKindsAre, GroupedKept, SnapshotsKept, RowsOwnedKept, PeaksKept DEF CountSafe
<1>3. \A k \in ApiKeys \ loosened' : KeyRoom(k)' BY <1>1, KeyRoomsKept DEF Counts
<1>4. \A o \in Owners, g \in KeyGroups : PlanRoom(o, g)' BY <1>1, PlanRoomsKept DEF Counts
<1>5. HeldOK' BY <1>1, HeldKept DEF CountSafe
<1> QED BY <1>2, <1>3, <1>4, <1>5 DEF AdmissionInv, Counts

\* ... and so does a step that changes nothing.
LEMMA StutterInv == AdmissionInv /\ UNCHANGED admissionVars => AdmissionInv'
<1> SUFFICES ASSUME AdmissionInv, UNCHANGED admissionVars PROVE AdmissionInv' OBVIOUS
<1> USE DEF admissionVars, rows, logged
<1>1. AdmissionTypeOK' BY DEF AdmissionInv, CountSafe, AdmissionTypeOK
<1>2. Grouped' /\ Snapshots' /\ RowsOwned'
  BY DEF AdmissionInv, CountSafe, Grouped, Snapshots, RowsOwned, Busy
<1>3. PeaksKnown' BY DEF AdmissionInv, CountSafe, PeaksKnown, InProgress, OfOwner
<1>4. Counts'
  <2>1. /\ \A k \in ApiKeys : QuotaRows(k)' = QuotaRows(k) /\ RateRows(k)' = RateRows(k) /\ Passed(k)' = Passed(k)
        /\ \A o \in Owners, g \in KeyGroups : /\ PlanRows(o, g)' = PlanRows(o, g)
                                              /\ Unmeasured(o, g)' = Unmeasured(o, g)
    BY DEF PlanRows, RowsOfPlan, Plan, Unmeasured, QuotaRows, RateRows, RowsOfKey, Passed
  <2>2. \A S : UsedThen(S) = Used(S) BY DEF UsedThen, Used
  <2>3. ASSUME NEW k \in ApiKeys, k \notin loosened PROVE KeyRoom(k)'
    BY <2>3, <2>1, <2>2, KeyRoomThen DEF AdmissionInv, Counts, KeyRoom
  <2>4. ASSUME NEW o \in Owners, NEW g \in KeyGroups PROVE PlanRoom(o, g)'
    BY <2>1, <2>2, PlanRoomThen DEF AdmissionInv, Counts, Limited, Plan, PlanRoom
  <2> QED BY <2>3, <2>4 DEF Counts
<1>5. HeldOK' BY DEF AdmissionInv, HeldOK, HeldOf, Busy
<1> QED BY <1>1, <1>2, <1>3, <1>4, <1>5 DEF AdmissionInv, CountSafe

\* The invariant says that the policy is safe.
LEMMA InvSafe == AdmissionInv => PolicySafe
<1> SUFFICES ASSUME AdmissionInv PROVE PolicySafe OBVIOUS
<1>1. AdmissionTypeOK /\ Counts /\ HeldOK BY DEF AdmissionInv, CountSafe
<1>2. QuotaOvershoot
  <2> SUFFICES ASSUME NEW k \in ApiKeys, k \notin loosened
      PROVE  /\ keyRow[k].quota > 0 => Used(QuotaRows(k)) < keyRow[k].quota + Allowance(peak[k])
             /\ keyRow[k].rate > 0 => Used(RateRows(k)) < keyRow[k].rate + Allowance(peak[k])
    BY DEF QuotaOvershoot, QuotaRows, RateRows, Allowance
  <2>1. KeyRoom(k) BY <1>1 DEF Counts
  <2>2. Used(QuotaRows(k)) \in Nat /\ Used(RateRows(k)) \in Nat /\ IsFiniteSet(Passed(k)) /\ peak[k] \in Nat
    BY <1>1, KeyTypes, UsedType, CallsFinite, PeakTypes
  <2> QED BY <1>1, <2>1, <2>2, KeyTypes, RoomEnough DEF KeyRoom
<1>3. SubscriptionOvershoot
  <2> SUFFICES ASSUME NEW o \in Owners, NEW g \in KeyGroups, Limited(o, g)
      PROVE  Used(PlanRows(o, g)) < Plan(o, g).limit + Allowance(peak[o])
    BY DEF SubscriptionOvershoot, Limited, Plan, PlanRows, Allowance
  <2>1. PlanRoom(o, g) BY <1>1 DEF Counts
  <2>2. Used(PlanRows(o, g)) \in Nat /\ IsFiniteSet(Unmeasured(o, g)) /\ peak[o] \in Nat
    BY <1>1, PlanTypes, UsedType, CallsFinite
  <2> QED BY <1>1, <2>1, <2>2, PlanTypes, RoomEnough DEF PlanRoom
<1>4. CheckedDuringCall BY <1>1 DEF HeldOK, HeldOf, Busy, PastOwner, CheckedDuringCall
<1> QED BY <1>1, <1>2, <1>3, <1>4 DEF PolicySafe

\* Whatever calls, edits, resets and clean-ups come in between, a key's usage
\* and a subscription's exceed their limits by less than the calls ever in
\* progress at once may use, and a served call saw its key, owner, group and
\* access allowed (key_policy::enforce, api_key_guard).
THEOREM PolicyCorrect == AdmissionSpec => []PolicySafe
<1>1. AdmissionInv /\ [AdmissionNext]_admissionVars => AdmissionInv' BY NextInv, StutterInv
<1> QED BY InitInv, <1>1, InvSafe, PTL DEF AdmissionSpec

-----------------------------------------------------------------------------
(*                            Usage clean-up                               *)

\* A clean-up that has been previewed would delete only rows it counted: the
\* greatest id it noted has been given out, and later rows come after it.
CleanupCovers ==
  cleanup.open => cleanup.max <= lastUsage /\ CleanupRows(cleanup.key, cleanup.max) \subseteq cleanup.shown

\* What a step does to the usage rows and the clean-up.
LEMMA CleanupSteps ==
  ASSUME AdmissionNext
  PROVE  \/ UNCHANGED logged
         \/ \E c \in Calls : LogUsage(c)
         \/ \E k \in ApiKeys : DeleteKey(k)
         \/ CleanupPreview
         \/ CleanupConfirm
<1>1. CASE \E c \in Calls : ReadKey(c) BY SMTT(30), <1>1 DEF ReadKey, Others
<1>2. CASE \E c \in Calls : Checks(c)
  BY <1>2 DEF Checks, EnforcePolicy, CheckOwner, AccessRow, AccessMember, ChoosePlan, SumPlan, ReadGroup, CheckModel,
              CallDropped, Others
<1>3. CASE \E k \in ApiKeys : KeyEdits(k)
  BY <1>3 DEF KeyEdits, EditKeyModels, EditKeyLimit, MoveKey, SwitchKey, ResetUsage
<1>4. CASE \E o \in Owners, s \in Scopes : SubscriptionStarts(o, s) BY <1>4 DEF SubscriptionStarts
<1>5. CASE OtherEdits
  BY <1>5 DEF OtherEdits, SwitchOwner, EditOwnerGroups, SubscriptionEnds, EditGroup, EditChannel, WindowMoves
<1> QED BY <1>1, <1>2, <1>3, <1>4, <1>5, StepKinds

\* A preview notes the last of the rows it counts.
LEMMA PreviewCovers ==
  ASSUME AdmissionTypeOK, CleanupPreview
  PROVE  CleanupCovers'
<1>1. PICK k \in ApiKeys \cup {NoKey} :
       LET matched == {i \in DOMAIN usage : k # NoKey => usage[i].key = k}
           last == IF matched = {} THEN 0 ELSE CHOOSE i \in matched : \A j \in matched : j <= i
       IN  cleanup' = [open |-> TRUE, key |-> k, max |-> last, shown |-> matched]
  BY DEF CleanupPreview
<1> DEFINE matched == {i \in DOMAIN usage : k # NoKey => usage[i].key = k}
           last == IF matched = {} THEN 0 ELSE CHOOSE i \in matched : \A j \in matched : j <= i
<1>2. /\ cleanup'.key = k /\ cleanup'.max = last /\ cleanup'.shown = matched
      /\ UNCHANGED <<usage, lastUsage>>
  BY <1>1 DEF CleanupPreview
<1>3. /\ lastUsage \in Nat /\ IsFiniteSet(DOMAIN usage) /\ DOMAIN usage \subseteq Nat
      /\ \A i \in DOMAIN usage : i <= lastUsage
  BY UsageTypes
<1>4. matched \in SUBSET Nat /\ IsFiniteSet(matched) /\ \A i \in matched : i <= lastUsage BY <1>3, FS_Subset
<1> DEFINE M == matched
<1> HIDE DEF M
<1>7. last <= lastUsage
  <2>1. CASE M = {} BY <2>1, <1>3 DEF M
  <2>2. CASE M # {} BY <1>4, <2>2, GreatestOf DEF M
  <2> QED BY <2>1, <2>2
<1>8. {i \in DOMAIN usage' : (k # NoKey => usage'[i].key = k) /\ i <= last} \subseteq matched BY <1>2
<1> QED BY <1>2, <1>7, <1>8 DEF CleanupCovers, CleanupRows

\* Every step keeps it: a row logged since the preview has a greater id.
LEMMA CleanupKept ==
  ASSUME AdmissionTypeOK, CleanupCovers, AdmissionNext
  PROVE  CleanupCovers'
<1>0. /\ lastUsage \in Nat /\ \A i \in DOMAIN usage : i \in Nat
      /\ cleanup.max \in Nat /\ cleanup.key \in ApiKeys \cup {NoKey} /\ NoKey \notin ApiKeys
  BY UsageTypes, AdmissionSets DEF AdmissionTypeOK
<1>1. CASE UNCHANGED logged BY <1>1 DEF logged, CleanupCovers, CleanupRows
<1>2. CASE \E c \in Calls : LogUsage(c)
  <2>1. PICK c \in Calls : LogUsage(c) BY <1>2
  <2>2. UNCHANGED cleanup BY <2>1 DEF LogUsage
  <2>3. CASE UNCHANGED <<usage, lastUsage>> BY <2>2, <2>3 DEF CleanupCovers, CleanupRows
  <2>4. CASE ~ UNCHANGED <<usage, lastUsage>> BY <2>1, <2>4, <2>2, <1>0 DEF LogUsage, CleanupCovers, CleanupRows
  <2> QED BY <2>3, <2>4
<1>3. CASE \E k \in ApiKeys : DeleteKey(k)
  <2>1. PICK k \in ApiKeys : DeleteKey(k) BY <1>3
  <2>2. UNCHANGED <<cleanup, lastUsage>> /\ DOMAIN usage' = DOMAIN usage
        /\ \A i \in DOMAIN usage : usage'[i].key = usage[i].key \/ usage'[i].key = NoKey
    BY <2>1 DEF AdmissionTypeOK, DeleteKey
  <2>3. CleanupRows(cleanup.key, cleanup.max)' \subseteq CleanupRows(cleanup.key, cleanup.max)
    BY <2>2 DEF CleanupRows
  <2> QED BY <2>2, <2>3 DEF CleanupCovers
<1>4. CASE CleanupPreview BY <1>4, PreviewCovers
<1>5. CASE CleanupConfirm BY <1>5 DEF CleanupConfirm, NoCleanup, CleanupCovers
<1> QED BY <1>1, <1>2, <1>3, <1>4, <1>5, CleanupSteps

\* A step that deletes a row confirms a clean-up that counted it.
LEMMA DeletedWasShown ==
  ASSUME CleanupCovers, [AdmissionNext]_admissionVars
  PROVE  \A i \in DOMAIN usage : i \notin DOMAIN usage' => i \in cleanup.shown
<1>1. CASE UNCHANGED usage BY <1>1
<1>2. CASE \E c \in Calls : LogUsage(c) BY <1>2 DEF LogUsage
<1>3. CASE \E k \in ApiKeys : DeleteKey(k) BY <1>3 DEF DeleteKey
<1>4. CASE CleanupPreview BY <1>1, <1>4 DEF CleanupPreview
<1>5. CASE CleanupConfirm BY <1>5 DEF CleanupConfirm, CleanupCovers
<1> QED BY <1>1, <1>2, <1>3, <1>4, <1>5, CleanupSteps DEF admissionVars, logged

\* Whatever calls log and administrators edit between the preview and the
\* confirmation of a clean-up, it deletes only rows that the preview counted
\* (cleanup_preview, cleanup_confirm).
THEOREM CleanupCorrect == AdmissionSpec => CleanupDeletesShown
<1>1. AdmissionInit => CleanupCovers BY DEF AdmissionInit, NoCleanup, CleanupCovers
<1>2. AdmissionInv /\ CleanupCovers /\ [AdmissionNext]_admissionVars => AdmissionInv' /\ CleanupCovers'
  BY CleanupKept, NextInv, StutterInv DEF AdmissionInv, CountSafe, admissionVars, logged, CleanupCovers, CleanupRows
<1>3. CleanupCovers /\ [AdmissionNext]_admissionVars
      => [\A i \in DOMAIN usage : i \notin DOMAIN usage' => i \in cleanup.shown]_admissionVars
  BY DeletedWasShown
<1> QED BY InitInv, <1>1, <1>2, <1>3, PTL DEF AdmissionSpec, CleanupDeletesShown

-----------------------------------------------------------------------------
(*                       Moderation: the invariant                         *)

\* A check that tries a key has an attempt left, and one in flight has its key.
ChecksTry ==
  \A c \in Checked :
    /\ check[c].pc = "track" => check[c].attempts > 0
    /\ check[c].pc \in {"calling", "outcome"} => check[c].key \in ModerationKeys

\* The checks of a user that are at one of some places.
OfUser(u, places) == {c \in Checked : UserOf[c] = u /\ check[c].pc \in places}
Unlogged == {"new", "known", "choose", "track", "calling", "outcome", "count", "ban", "log"}

\* Each check logs one hit at most.
HitsFit == \A u \in Users : hits[u] + Cardinality(OfUser(u, Unlogged)) <= Cardinality(Checked)

\* While a user is not banned, the hits logged and those counted and about to
\* be logged stay below the threshold and what was ever recorded at once.
Ahead(u) == hits[u] + Cardinality(OfUser(u, {"log"}))
HitsAhead ==
  \A u \in Users \ (Exempt \cup pardoned) :
    enabled[u] => Ahead(u) = 0 \/ Ahead(u) + 2 <= BanThreshold + together[u]

\* A known text is never sent to the moderation service.
KnownStay ==
  \A c \in known :
    /\ InputOf[c] \in hashes /\ check[c].pc \notin {"new", "choose", "track", "calling", "outcome"}
    /\ check[c].mode = "pre_block" => answer[c] # "served"

RiskInv == RiskTypeOK /\ LoadAccounted /\ ChecksTry /\ HitsFit /\ HitsAhead /\ KnownStay

CheckPlaces == {"new", "known", "choose", "track", "calling", "outcome", "end"} \cup Recording

\* The fields of a check.
LEMMA CheckTypes ==
  ASSUME RiskTypeOK, NEW c \in Checked
  PROVE  /\ check \in [Checked -> CheckState] /\ check[c] \in CheckState /\ check[c].pc \in CheckPlaces
         /\ check[c].mode \in {"off", "observe", "pre_block"}
         /\ check[c].keys \subseteq ModerationKeys /\ check[c].left \subseteq ModerationKeys \X Nat
         /\ check[c].attempts \in Nat /\ UserOf[c] \in Users /\ InputOf[c] \in Inputs
  BY DEF RiskTypeOK, CheckState, CheckPlaces, Users, Inputs

\* A check moves, or ends with or without a hit.
LEMMA CheckGoes ==
  ASSUME RiskTypeOK, NEW c \in Checked, NEW pc \in CheckPlaces, Go(c, pc)
  PROVE  /\ check' \in [Checked -> CheckState] /\ \A d \in Checked : d # c => check'[d] = check[d]
         /\ check'[c].pc = pc /\ check'[c].mode = check[c].mode /\ check'[c].key = check[c].key
         /\ check'[c].attempts = check[c].attempts
  BY CheckTypes DEF Go, CheckState, CheckPlaces

\* A check ends its moderation and goes on to record a hit, or is over.
LEMMA CheckEnds ==
  ASSUME RiskTypeOK, NEW c \in Checked, NEW pc \in CheckPlaces, EndCheck(c, pc)
  PROVE  /\ check' \in [Checked -> CheckState] /\ \A d \in Checked : d # c => check'[d] = check[d]
         /\ check'[c].pc = pc /\ check'[c].mode = check[c].mode
<1> DEFINE ended == [Fresh EXCEPT !.pc = pc, !.mode = check[c].mode]
<1>1. Fresh \in CheckState BY DEF Fresh, CheckState
<1>2. ended \in CheckState /\ ended.pc = pc /\ ended.mode = check[c].mode
  <2>1. [Fresh EXCEPT !.pc = pc] \in CheckState /\ [Fresh EXCEPT !.pc = pc].pc = pc
    BY <1>1 DEF CheckState, CheckPlaces
  <2> DEFINE f == [Fresh EXCEPT !.pc = pc]
  <2>2. f \in CheckState /\ f.pc = pc BY <2>1
  <2> HIDE DEF f
  <2>3. check[c].mode \in {"off", "observe", "pre_block"} BY CheckTypes
  <2>4. [f EXCEPT !.mode = check[c].mode] \in CheckState /\ [f EXCEPT !.mode = check[c].mode].mode = check[c].mode
        /\ [f EXCEPT !.mode = check[c].mode].pc = pc
    BY <2>2, <2>3 DEF CheckState
  <2>5. ended = [f EXCEPT !.mode = check[c].mode] BY DEF f
  <2> QED BY <2>4, <2>5
<1> HIDE DEF ended
<1>3. check \in [Checked -> CheckState] BY CheckTypes
<1>4. check' = [check EXCEPT ![c] = ended] BY DEF EndCheck, ended
<1> QED BY <1>2, <1>3, <1>4

\* What each kind of step does to its check.
Only(c) == \A d \in Checked : d # c => check'[d] = check[d]
Walks(c, from, to) == check[c].pc \in from /\ check'[c].pc \in to /\ Only(c) /\ check'[c].mode = check[c].mode

\* A check that chooses keys has an attempt, or no key is left and it passes.
LEMMA ChoosesKeys ==
  ASSUME RiskTypeOK, NEW c \in Checked, ChooseKeys(c)
  PROVE  /\ check' \in [Checked -> CheckState] /\ Walks(c, {"choose"}, {"track", "end"})
         /\ check'[c].pc = "track" => check'[c].attempts > 0
         /\ \/ check'[c].pc = "end" /\ Answer(c, "served")
            \/ UNCHANGED answer
<1> DEFINE left == {<<k, active[k]>> : k \in {k \in check[c].keys : ~frozen[k]}}
<1>1. check \in [Checked -> CheckState] /\ check[c] \in CheckState BY CheckTypes
<1>2. CASE left = {} BY <1>2, CheckEnds DEF ChooseKeys, Passes, At, Walks, Only, CheckPlaces
<1>3. CASE left # {}
  <2>1. left \subseteq ModerationKeys \X Nat BY CheckTypes DEF RiskTypeOK
  <2>2. /\ check' = [check EXCEPT ![c].pc = "track", ![c].left = left, ![c].attempts = Retries + 1]
        /\ UNCHANGED answer /\ check[c].pc = "choose"
    BY <1>3 DEF ChooseKeys, At
  <2>3. Retries + 1 \in Nat /\ Retries + 1 > 0 BY RiskSets
  <2> HIDE DEF left
  <2> DEFINE t == [check[c] EXCEPT !.pc = "track", !.left = left, !.attempts = Retries + 1]
  <2>4. check' = [check EXCEPT ![c] = t] BY <1>1, <2>2
  <2>5. t \in CheckState /\ t.pc = "track" /\ t.attempts = Retries + 1 /\ t.mode = check[c].mode
    BY <1>1, <2>1, <2>3 DEF CheckState
  <2> HIDE DEF t
  <2>6. check' \in [Checked -> CheckState] /\ check'[c] = t /\ Only(c) BY <1>1, <2>4, <2>5 DEF Only
  <2> QED BY <2>2, <2>3, <2>5, <2>6 DEF Walks
<1> QED BY <1>2, <1>3

\* A check takes a key and counts up its load, ...
LEMMA BeginsLoad ==
  ASSUME RiskTypeOK, NEW c \in Checked, ChecksTry, BeginLoad(c)
  PROVE  /\ check' \in [Checked -> CheckState] /\ Walks(c, {"track"}, {"calling"})
         /\ \E k \in ModerationKeys : check'[c].key = k /\ active' = [active EXCEPT ![k] = @ + 1]
         /\ UNCHANGED <<mode, modKeys, frozen, release, drifted, answer, record, known, riskBudget>>
<1>1. check \in [Checked -> CheckState] /\ check[c] \in CheckState BY CheckTypes
<1>2. PICK x \in check[c].left :
        /\ check[c].pc = "track" /\ active' = [active EXCEPT ![x[1]] = @ + 1]
        /\ check' = [check EXCEPT ![c].pc = "calling", ![c].key = x[1], ![c].left = @ \ {x}, ![c].attempts = @ - 1]
        /\ UNCHANGED <<mode, modKeys, frozen, release, drifted, answer, record, known, riskBudget>>
  BY DEF BeginLoad, At
<1>3. x[1] \in ModerationKeys BY CheckTypes
<1>4. check[c].attempts - 1 \in Nat BY <1>2, CheckTypes DEF ChecksTry
<1>5. check[c].left \ {x} \in SUBSET (ModerationKeys \X Nat) BY CheckTypes
<1> DEFINE t == [check[c] EXCEPT !.pc = "calling", !.key = x[1], !.left = @ \ {x}, !.attempts = @ - 1]
<1>6. check' = [check EXCEPT ![c] = t] BY <1>1, <1>2
<1>7. t \in CheckState /\ t.pc = "calling" /\ t.key = x[1] /\ t.mode = check[c].mode
  BY <1>1, <1>3, <1>4, <1>5 DEF CheckState
<1> HIDE DEF t
<1>8. check' \in [Checked -> CheckState] /\ check'[c] = t /\ Only(c) BY <1>1, <1>6, <1>7 DEF Only
<1> QED BY <1>2, <1>3, <1>7, <1>8 DEF Walks

\* ... hears the answer, ...
LEMMA HearsAnswer ==
  ASSUME RiskTypeOK, NEW c \in Checked, Answers(c)
  PROVE  /\ check' \in [Checked -> CheckState] /\ Walks(c, {"calling"}, {"outcome"})
         /\ check'[c].key = check[c].key
<1>1. check \in [Checked -> CheckState] /\ check[c] \in CheckState BY CheckTypes
<1>2. PICK r \in {"flagged", "passed", "freezes", "fails"} :
        check[c].pc = "calling" /\ check' = [check EXCEPT ![c].pc = "outcome", ![c].result = r]
  BY DEF Answers, At
<1> DEFINE t == [check[c] EXCEPT !.pc = "outcome", !.result = r]
<1>3. check' = [check EXCEPT ![c] = t] BY <1>1, <1>2
<1>4. t \in CheckState /\ t.pc = "outcome" /\ t.key = check[c].key /\ t.mode = check[c].mode BY <1>1 DEF CheckState
<1> HIDE DEF t
<1>5. check' \in [Checked -> CheckState] /\ check'[c] = t /\ Only(c) BY <1>1, <1>3, <1>4 DEF Only
<1> QED BY <1>2, <1>4, <1>5 DEF Walks

\* ... and passes, tries another key, or goes on to record the hit.
LEMMA HasOutcome ==
  ASSUME RiskTypeOK, NEW c \in Checked, AfterOutcome(c), check[c].pc = "outcome"
  PROVE  /\ check' \in [Checked -> CheckState] /\ Walks(c, {"outcome"}, {"track", "count", "end"})
         /\ check'[c].pc = "track" => check'[c].attempts > 0
         /\ Answer(c, "served") \/ UNCHANGED answer
BY CheckEnds, CheckGoes DEF Walks, Only, CheckPlaces, Recording, Passes, AfterOutcome

\* A check begins, with the mode and the keys of the moment.
LEMMA Inspects ==
  ASSUME RiskTypeOK, NEW c \in Checked, Inspect(c)
  PROVE  /\ check' \in [Checked -> CheckState] /\ check[c].pc = "new" /\ Only(c)
         /\ check'[c].pc \in {"end", "known"} /\ check'[c].mode = mode
<1>1. check \in [Checked -> CheckState] /\ check[c] \in CheckState /\ modKeys \subseteq ModerationKeys
      /\ mode \in {"off", "observe", "pre_block"}
  BY CheckTypes DEF RiskTypeOK
<1> DEFINE p == IF mode = "off" THEN "end" ELSE "known"
           t == [check[c] EXCEPT !.pc = p, !.mode = mode, !.keys = modKeys]
<1>2. p \in {"end", "known"} OBVIOUS
<1>3. check[c].pc = "new" /\ check' = [check EXCEPT ![c].pc = p, ![c].mode = mode, ![c].keys = modKeys]
  BY DEF Inspect, At
<1> HIDE DEF p
<1>4. check' = [check EXCEPT ![c] = t] BY <1>1, <1>3
<1>5. t \in CheckState /\ t.pc = p /\ t.mode = mode BY <1>1, <1>2 DEF CheckState
<1> HIDE DEF t
<1>6. check' \in [Checked -> CheckState] /\ check'[c] = t /\ Only(c) BY <1>1, <1>4, <1>5 DEF Only
<1> QED BY <1>2, <1>3, <1>5, <1>6

\* The steps of a check that do not concern the load of a key.
Plain(c) ==
  \/ Walks(c, {"known"}, {"count", "choose", "end"}) /\ LookUp(c)
  \/ Walks(c, {"choose"}, {"track", "end"}) /\ ChooseKeys(c)
  \/ Walks(c, {"count"}, {"ban", "log"}) /\ CountHits(c)
  \/ Walks(c, {"ban"}, {"log"}) /\ Ban(c)
  \/ Walks(c, {"log"}, {"hash", "end"}) /\ LogHit(c)
  \/ Walks(c, {"hash"}, {"end"}) /\ KeepHash(c)

\* Every step of a check is one of these.
LEMMA CheckStepIs ==
  ASSUME RiskTypeOK, ChecksTry, NEW c \in Checked, CheckStep(c) \/ CheckDropped(c)
  PROVE  /\ check' \in [Checked -> CheckState]
         /\ \/ Plain(c)
            \/ Walks(c, {"track"}, {"calling"}) /\ BeginLoad(c)
            \/ Walks(c, {"calling"}, {"outcome"}) /\ Answers(c) /\ check'[c].key = check[c].key
            \/ Walks(c, {"outcome"}, {"track", "count", "end"}) /\ (Outcome(c) \/ OutcomeFails(c))
            \/ Walks(c, CheckPlaces \ {"new", "end"}, {"end"}) /\ CheckDropped(c)
<1>1. CASE LookUp(c)
  <2>1. CASE EndCheck(c, "count") BY <1>1, <2>1, CheckEnds DEF LookUp, Walks, Only, CheckPlaces, Recording, Plain, At
  <2>2. CASE Passes(c) BY <1>1, <2>2, CheckEnds DEF LookUp, Passes, Walks, Only, CheckPlaces, Plain, At
  <2>3. CASE Go(c, "choose") BY <1>1, <2>3, CheckGoes DEF LookUp, Walks, Only, CheckPlaces, Plain, At
  <2> QED BY <1>1, <2>1, <2>2, <2>3 DEF LookUp
<1>2. CASE ChooseKeys(c) BY <1>2, ChoosesKeys DEF Plain
<1>3. CASE BeginLoad(c) BY <1>3, BeginsLoad
<1>4. CASE Answers(c) BY <1>4, HearsAnswer
<1>5. CASE Outcome(c) BY <1>5, HasOutcome DEF Outcome, At
<1>6. CASE OutcomeFails(c) BY <1>6, HasOutcome DEF OutcomeFails, At
<1>7. CASE CountHits(c)
  <2>1. PICK pc \in {"ban", "log"} : Go(c, pc) /\ check[c].pc = "count" BY <1>7 DEF CountHits, At
  <2> QED BY <1>7, <2>1, CheckGoes DEF Walks, Only, CheckPlaces, Recording, Plain
<1>8. CASE Ban(c) BY <1>8, CheckGoes DEF Ban, At, Walks, Only, CheckPlaces, Recording, Plain
<1>9. CASE LogHit(c)
  <2>1. CASE Go(c, "hash") BY <1>9, <2>1, CheckGoes DEF LogHit, At, Walks, Only, CheckPlaces, Recording, Plain
  <2>2. CASE EndCheck(c, "end") BY <1>9, <2>2, CheckEnds DEF LogHit, At, Walks, Only, CheckPlaces, Plain
  <2> QED BY <1>9, <2>1, <2>2 DEF LogHit
<1>10. CASE KeepHash(c) BY <1>10, CheckEnds DEF KeepHash, At, Walks, Only, CheckPlaces, Plain
<1>11. CASE CheckDropped(c)
  BY <1>11, CheckEnds, CheckTypes DEF CheckDropped, Walks, Only, CheckPlaces
<1> QED BY <1>1, <1>2, <1>3, <1>4, <1>5, <1>6, <1>7, <1>8, <1>9, <1>10, <1>11 DEF CheckStep

\* The steps of administrators, tasks and restarts.
OtherStep ==
  \/ \E k \in ModerationKeys : ReleaseLoad(k) \/ Thaw(k)
  \/ \E u \in Users : Unban(u)
  \/ \E i \in Inputs : DeleteHash(i)
  \/ SaveRiskConfig \/ RiskRestart

\* Every step is one of a check or one of the others.
LEMMA RiskSteps ==
  ASSUME RiskNext
  PROVE  \/ \E c \in Checked : CheckStep(c) \/ CheckDropped(c) \/ Inspect(c)
         \/ OtherStep
  BY DEF RiskNext, OtherStep

\* A load that is counted down stays a number.
LEMMA LessByOne ==
  /\ \A n \in Nat : Decremented(n) \in Nat
  /\ \A n \in Nat : n > 0 => Decremented(n) = n - 1 /\ n - 1 \in Nat
  BY DEF Decremented

\* A bound that is used up stays a number.
LEMMA SpendTyped ==
  ASSUME RiskTypeOK, NEW what \in {"edits", "restarts", "drops", "faults"}, RiskSpend(what)
  PROVE  riskBudget' \in [edits : Nat, restarts : Nat, drops : Nat, faults : Nat]
BY DEF RiskSpend, RiskTypeOK

\* Loads are numbers, keys freeze and thaw.
LoadTyped ==
  /\ active \in [ModerationKeys -> Nat] /\ frozen \in [ModerationKeys -> BOOLEAN]
  /\ release \in [ModerationKeys -> Nat] /\ drifted \subseteq ModerationKeys

\* Every step keeps the types of loads, ...
LEMMA LoadSteps ==
  ASSUME RiskTypeOK, ChecksTry, RiskNext
  PROVE  LoadTyped'
<1> USE DEF LoadTyped
<1>1. LoadTyped BY DEF RiskTypeOK
<1>2. CASE UNCHANGED load BY <1>1, <1>2 DEF load
<1>3. ASSUME NEW c \in Checked, CheckStep(c) \/ CheckDropped(c) PROVE LoadTyped'
  <2>1. CASE BeginLoad(c) BY <2>1, BeginsLoad, <1>1
  <2>2. check[c].pc \in {"calling", "outcome"} => check[c].key \in ModerationKeys BY DEF ChecksTry
  <2>6. ASSUME NEW k \in ModerationKeys, GuardDrops(k) PROVE release' \in [ModerationKeys -> Nat]
    BY <1>1, <2>6 DEF GuardDrops
  <2>3. CASE Outcome(c) BY <2>3, <1>1, <2>2, LessByOne DEF Outcome, At
  <2>4. CASE OutcomeFails(c) BY <1>1, <2>2, <2>4, <2>6 DEF OutcomeFails, At
  <2>5. CASE CheckDropped(c)
    <3>1. CASE UNCHANGED load BY <1>2, <3>1
    <3>2. CASE /\ check[c].pc \in {"calling", "outcome"} /\ GuardDrops(check[c].key)
               /\ UNCHANGED <<active, frozen, drifted>>
      BY <1>1, <2>2, <2>6, <3>2
    <3>3. ASSUME NEW x \in check[c].left, active' = [active EXCEPT ![x[1]] = @ + 1], drifted' = drifted \cup {x[1]},
                 UNCHANGED <<frozen, release>>
          PROVE  LoadTyped'
      BY CheckTypes, <1>1, <3>3
    <3>4. CASE /\ check[c].pc = "outcome" /\ GuardDrops(check[c].key)
               /\ active' = [active EXCEPT ![check[c].key] = Decremented(@)] /\ drifted' = drifted \cup {check[c].key}
               /\ frozen' = [frozen EXCEPT ![check[c].key] = check[c].result = "freezes"]
      BY <1>1, <2>2, <3>4, LessByOne, <2>6
    <3> QED BY <2>5, <3>1, <3>2, <3>3, <3>4 DEF CheckDropped, At
  <2> QED BY <1>2, <1>3, <2>1, <2>3, <2>4, <2>5
    DEF CheckStep, LookUp, ChooseKeys, Answers, CountHits, Ban, LogHit, KeepHash
<1>4. ASSUME NEW c \in Checked, Inspect(c) PROVE LoadTyped' BY <1>2, <1>4 DEF Inspect
<1>5. ASSUME NEW k \in ModerationKeys, ReleaseLoad(k) PROVE LoadTyped' BY <1>1, <1>5, LessByOne DEF ReleaseLoad
<1>6. ASSUME NEW k \in ModerationKeys, Thaw(k) PROVE LoadTyped' BY <1>1, <1>6 DEF Thaw
<1>7. ASSUME NEW u \in Users, Unban(u) PROVE LoadTyped' BY <1>2, <1>7 DEF Unban
<1>8. ASSUME NEW i \in Inputs, DeleteHash(i) PROVE LoadTyped' BY <1>2, <1>8 DEF DeleteHash
<1>9. CASE SaveRiskConfig BY <1>9, <1>1 DEF SaveRiskConfig, RiskTypeOK
<1>10. CASE RiskRestart BY <1>1, <1>10 DEF RiskRestart, LoadAfterRestart
<1> QED BY <1>3, <1>4, <1>5, <1>6, <1>7, <1>8, <1>9, <1>10, RiskSteps DEF OtherStep

\* Checks are checks, also after a restart.
LEMMA ChecksTyped ==
  ASSUME RiskTypeOK, ChecksTry, RiskNext
  PROVE  check' \in [Checked -> CheckState]
<1>1. ASSUME NEW c \in Checked, CheckStep(c) \/ CheckDropped(c) \/ Inspect(c) PROVE check' \in [Checked -> CheckState]
  BY <1>1, CheckStepIs, Inspects
<1>2. CASE RiskRestart
  <2>1. Fresh \in CheckState BY DEF Fresh, CheckState
  <2>2. ASSUME NEW m \in {"off", "observe", "pre_block"} PROVE [Fresh EXCEPT !.pc = "end", !.mode = m] \in CheckState
    BY <2>1 DEF CheckState
  <2> QED BY <1>2, <2>2, CheckTypes DEF RiskRestart
<1>3. CASE check' = check BY <1>3 DEF RiskTypeOK
<1> QED BY <1>1, <1>2, <1>3, RiskSteps DEF OtherStep, ReleaseLoad, Thaw, Unban, DeleteHash, SaveRiskConfig

\* What is recorded and answered keeps its type.
RecordTyped ==
  /\ mode \in {"off", "observe", "pre_block"} /\ modKeys \subseteq ModerationKeys
  /\ answer \in [Checked -> {"waiting", "served", "blocked", "gone"}]
  /\ enabled \in [Users -> BOOLEAN] /\ hashes \subseteq Inputs /\ pardoned \subseteq Users /\ known \subseteq Checked
  /\ riskBudget \in [edits : Nat, restarts : Nat, drops : Nat, faults : Nat]

\* ... and of what is recorded and answered.
LEMMA RecordSteps ==
  ASSUME RiskTypeOK, ChecksTry, RiskNext
  PROVE  RecordTyped'
<1> USE DEF RecordTyped, record
<1>1. RecordTyped BY DEF RiskTypeOK
<1>2. ASSUME NEW c \in Checked, NEW what \in {"served", "blocked"}, Answer(c, what)
      PROVE  answer' \in [Checked -> {"waiting", "served", "blocked", "gone"}]
  BY <1>1, <1>2 DEF Answer
<1>3. ASSUME NEW c \in Checked, CheckStep(c) PROVE RecordTyped'
  <2>1. CASE LookUp(c) BY <1>1, <1>2, <2>1 DEF LookUp, Passes
  <2>2. CASE ChooseKeys(c) BY <2>2, <1>1, <1>2, ChoosesKeys DEF ChooseKeys
  <2>3. CASE BeginLoad(c) BY <1>1, <2>3, BeginsLoad
  <2>4. CASE Answers(c) BY <1>1, <2>4 DEF Answers
  <2>5. CASE Outcome(c) BY <1>1, <1>2, <2>5, HasOutcome DEF Outcome, At
  <2>6. CASE OutcomeFails(c) BY <1>1, <1>2, <2>6, HasOutcome, SpendTyped DEF OutcomeFails, At
  <2>7. CASE CountHits(c) BY <1>1, <2>7 DEF CountHits
  <2>8. CASE Ban(c) BY <1>1, <2>8, CheckTypes DEF Ban
  <2>9. CASE LogHit(c) BY <1>1, <1>2, <2>9, SpendTyped DEF LogHit
  <2>10. CASE KeepHash(c) BY <1>1, <1>2, <2>10, CheckTypes DEF KeepHash
  <2> QED BY <1>3, <2>1, <2>2, <2>3, <2>4, <2>5, <2>6, <2>7, <2>8, <2>9, <2>10 DEF CheckStep
<1>4. ASSUME NEW c \in Checked, CheckDropped(c) PROVE RecordTyped' BY <1>4, <1>1, SpendTyped DEF CheckDropped
<1>5. ASSUME NEW c \in Checked, Inspect(c) PROVE RecordTyped' BY <1>1, <1>5 DEF Inspect
<1>6. ASSUME NEW k \in ModerationKeys, ReleaseLoad(k) PROVE RecordTyped' BY <1>1, <1>6 DEF ReleaseLoad
<1>7. ASSUME NEW k \in ModerationKeys, Thaw(k) PROVE RecordTyped' BY <1>1, <1>7 DEF Thaw
<1>8. ASSUME NEW u \in Users, Unban(u) PROVE RecordTyped' BY <1>1, <1>8, SpendTyped DEF Unban
<1>9. ASSUME NEW i \in Inputs, DeleteHash(i) PROVE RecordTyped' BY <1>1, <1>9, SpendTyped DEF DeleteHash
<1>10. CASE SaveRiskConfig BY <1>1, <1>10, SpendTyped DEF SaveRiskConfig
<1>11. CASE RiskRestart BY <1>1, <1>11, SpendTyped DEF RiskRestart
<1> QED BY <1>3, <1>4, <1>5, <1>6, <1>7, <1>8, <1>9, <1>10, <1>11, RiskSteps DEF OtherStep

-----------------------------------------------------------------------------
(*                             Hits and bans                               *)

\* Checks are finitely many, and so are those of a user.
LEMMA UserChecks ==
  ASSUME NEW u, NEW places
  PROVE  /\ IsFiniteSet(Checked) /\ Cardinality(Checked) \in Nat
         /\ IsFiniteSet(OfUser(u, places)) /\ Cardinality(OfUser(u, places)) \in Nat
         /\ Cardinality(OfUser(u, places)) <= Cardinality(Checked)
BY RiskSets, FS_Subset, FS_CardinalityType DEF OfUser

\* The same a step later.
Then(u, places) == {c \in Checked : UserOf[c] = u /\ check'[c].pc \in places}

\* They are finitely many, too.
LEMMA ThenChecks ==
  ASSUME NEW u, NEW places
  PROVE  /\ IsFiniteSet(Then(u, places)) /\ Cardinality(Then(u, places)) \in Nat
         /\ Cardinality(Then(u, places)) <= Cardinality(Checked)
BY RiskSets, FS_Subset, FS_CardinalityType DEF Then

\* If they are some of those before, they are no more.
LEMMA FewerThen ==
  ASSUME NEW u, NEW places, NEW more, Then(u, places) \subseteq OfUser(u, more)
  PROVE  Cardinality(Then(u, places)) <= Cardinality(OfUser(u, more))
  BY UserChecks, FS_Subset

\* The most recorded at once only grows, and covers those being recorded.
LEMMA TogetherGrows ==
  ASSUME RiskTypeOK, RiskNext
  PROVE  \A u \in Users : /\ together'[u] \in 0 .. Cardinality(Checked) /\ together'[u] \in Nat
                          /\ together[u] <= together'[u] /\ together[u] \in Nat
                          /\ Cardinality(Then(u, Recording)) <= together'[u]
<1> SUFFICES ASSUME NEW u \in Users
    PROVE  /\ together'[u] \in 0 .. Cardinality(Checked) /\ together'[u] \in Nat
           /\ together[u] <= together'[u] /\ together[u] \in Nat
           /\ Cardinality(Then(u, Recording)) <= together'[u]
  OBVIOUS
<1> DEFINE now == Cardinality(Then(u, Recording))
           n == Cardinality(Checked)
<1>1. together[u] \in 0 .. n BY DEF RiskTypeOK
<1>2. now \in Nat /\ n \in Nat /\ now <= n BY ThenChecks, UserChecks
<1>3. together'[u] = IF now > together[u] THEN now ELSE together[u] BY DEF RiskNext, Then
<1> HIDE DEF now, n
<1>4. together[u] \in Nat /\ together[u] <= n BY <1>1, <1>2
<1> QED BY <1>2, <1>3, <1>4 DEF now, n

\* Steps that log and count no hit of the user, and neither pardon nor unban.
Unmarked(u) ==
  /\ hits'[u] = hits[u] /\ (u \notin pardoned' /\ enabled'[u] => u \notin pardoned /\ enabled[u])
  /\ Then(u, Unlogged) \subseteq OfUser(u, Unlogged) /\ Then(u, {"log"}) \subseteq OfUser(u, {"log"})
\* A hit of the user is counted, and there were too few for a ban ...
CountsHit(u) ==
  /\ hits'[u] = hits[u] /\ (u \notin Exempt => hits[u] + 1 < BanThreshold)
  /\ Then(u, Unlogged) \subseteq OfUser(u, Unlogged)
\* ... or the user is banned, ...
Bans(u) ==
  /\ hits'[u] = hits[u] /\ ~enabled'[u]
  /\ Then(u, Unlogged) \subseteq OfUser(u, Unlogged)
\* ... and the hit is logged.
Logs(u, c) ==
  /\ hits'[u] = hits[u] + 1 /\ (u \notin pardoned' /\ enabled'[u] => u \notin pardoned /\ enabled[u])
  /\ c \in OfUser(u, {"log"}) /\ c \in OfUser(u, Unlogged)
  /\ Then(u, Unlogged) \subseteq OfUser(u, Unlogged) \ {c} /\ Then(u, {"log"}) \subseteq OfUser(u, {"log"}) \ {c}

\* For a user every step is one of these, or counts the hits.
LEMMA HitSteps ==
  ASSUME RiskTypeOK, ChecksTry, RiskNext, NEW u \in Users
  PROVE  \/ Unmarked(u) \/ Bans(u) \/ \E c \in Checked : Logs(u, c)
         \/ CountsHit(u)
<1> USE DEF record
<1>1. ASSUME NEW c \in Checked, NEW from, NEW to, Walks(c, from, to), UNCHANGED <<enabled, hits, pardoned>>,
             "log" \notin to, from \cap Unlogged = {} => to \cap Unlogged = {},
             from \subseteq Unlogged \/ to \cap Unlogged = {}
      PROVE  Unmarked(u)
  BY <1>1 DEF Walks, Only, Unmarked, Then, OfUser
<1>2. ASSUME NEW c \in Checked, Plain(c) PROVE \/ Unmarked(u) \/ Bans(u) \/ Logs(u, c) \/ CountsHit(u)
  <2>1. CASE Walks(c, {"known"}, {"count", "choose", "end"}) /\ LookUp(c) BY <1>1, <2>1 DEF LookUp, Unlogged
  <2>2. CASE Walks(c, {"choose"}, {"track", "end"}) /\ ChooseKeys(c) BY <1>1, <2>2 DEF ChooseKeys, Unlogged
  <2>3. CASE Walks(c, {"count"}, {"ban", "log"}) /\ CountHits(c)
    <3>1. CASE check'[c].pc = "ban" BY <2>3, <3>1, <1>1 DEF Walks, CountHits, Unlogged
    <3>2. CASE UserOf[c] # u
      BY <2>3, <3>2 DEF CountHits, Unmarked, Walks, Only, Then, OfUser
    <3>3. CASE check'[c].pc = "log" /\ UserOf[c] = u
      <4>1. u \notin Exempt => ~(Violations(c) >= BanThreshold)
        BY <2>3, <3>3, CheckGoes DEF CountHits, CheckPlaces, Recording
      <4>2. hits[u] \in Nat /\ BanThreshold \in Nat BY UserChecks, RiskSets DEF RiskTypeOK
      <4>3. u \notin Exempt => hits[u] + 1 < BanThreshold BY <3>3, <4>1, <4>2 DEF Violations
      <4>4. hits' = hits BY <2>3 DEF CountHits
      <4>5. Then(u, Unlogged) \subseteq OfUser(u, Unlogged) BY <2>3 DEF Walks, Only, Then, OfUser, Unlogged
      <4> QED BY <4>3, <4>4, <4>5 DEF CountsHit
    <3> QED BY <2>3, <3>1, <3>2, <3>3 DEF Walks
  <2>4. CASE Walks(c, {"ban"}, {"log"}) /\ Ban(c)
    <3>1. CASE UserOf[c] # u
      <4>1. enabled'[u] = enabled[u] BY <2>4, <3>1 DEF Ban, RiskTypeOK
      <4> QED BY <2>4, <3>1, <4>1 DEF Ban, Unmarked, Walks, Only, Then, OfUser
    <3>2. CASE UserOf[c] = u
      <4>1. ~enabled'[u] BY <2>4, <3>2 DEF Ban, RiskTypeOK
      <4> QED BY <2>4, <4>1 DEF Ban, Bans, Walks, Only, Then, OfUser, Unlogged
    <3> QED BY <3>1, <3>2
  <2>5. CASE Walks(c, {"log"}, {"hash", "end"}) /\ LogHit(c)
    <3>1. CASE UNCHANGED hits BY <1>1, <2>5, <3>1 DEF LogHit, Unlogged
    <3>2. CASE hits' = [hits EXCEPT ![UserOf[c]] = @ + 1] /\ UserOf[c] # u
      <4>1. hits'[u] = hits[u] BY <3>2 DEF RiskTypeOK
      <4> QED BY <2>5, <3>2, <4>1 DEF LogHit, Unmarked, Walks, Only, Then, OfUser
    <3>3. CASE hits' = [hits EXCEPT ![UserOf[c]] = @ + 1] /\ UserOf[c] = u
      <4>1. hits'[u] = hits[u] + 1 BY <3>3 DEF RiskTypeOK
      <4>2. c \in OfUser(u, {"log"}) /\ c \in OfUser(u, Unlogged) BY <2>5, <3>3 DEF OfUser, Unlogged, Walks
      <4>3. Then(u, Unlogged) \subseteq OfUser(u, Unlogged) \ {c} /\ Then(u, {"log"}) \subseteq OfUser(u, {"log"}) \ {c}
        BY <2>5 DEF Walks, Only, Then, OfUser, Unlogged
      <4> QED BY <2>5, <4>1, <4>2, <4>3 DEF LogHit, Logs
    <3> QED BY <2>5, <3>1, <3>2, <3>3 DEF LogHit
  <2>6. CASE Walks(c, {"hash"}, {"end"}) /\ KeepHash(c) BY <1>1, <2>6 DEF KeepHash, Unlogged
  <2> QED BY <1>2, <2>1, <2>2, <2>3, <2>4, <2>5, <2>6 DEF Plain
<1>3. ASSUME NEW c \in Checked, CheckStep(c) \/ CheckDropped(c)
      PROVE  \/ Unmarked(u) \/ Bans(u) \/ Logs(u, c) \/ CountsHit(u)
  BY <1>2, <1>1, BeginsLoad, <1>3, CheckStepIs DEF Unlogged, Answers, Outcome, OutcomeFails, CheckDropped
<1>4. ASSUME NEW c \in Checked, Inspect(c) PROVE Unmarked(u)
  BY <1>4, Inspects DEF Inspect, Only, Unmarked, Then, OfUser, Unlogged
<1>5. ASSUME check' = check, hits' = hits, u \notin pardoned' /\ enabled'[u] => u \notin pardoned /\ enabled[u]
      PROVE  Unmarked(u)
  BY <1>5 DEF Unmarked, Then, OfUser
<1>6. ASSUME NEW v \in Users, Unban(v) PROVE Unmarked(u)
  <2>1. CASE u = v BY <1>5, <1>6, <2>1 DEF Unban
  <2>2. CASE u # v BY <1>6, <2>2, <1>5 DEF Unban, RiskTypeOK
  <2> QED BY <2>1, <2>2
<1>7. CASE RiskRestart
  <2>1. \A c \in Checked : check'[c].pc = IF check[c].pc = "new" THEN "new" ELSE "end"
    BY <1>7 DEF Fresh, CheckState, RiskRestart
  <2>2. UNCHANGED <<enabled, hits, pardoned>> BY <1>7 DEF RiskRestart
  <2> QED BY <2>1, <2>2 DEF Unmarked, Then, OfUser, Unlogged
<1> QED BY <1>3, <1>4, <1>5, <1>6, <1>7, RiskSteps DEF OtherStep, ReleaseLoad, Thaw, DeleteHash, SaveRiskConfig

\* The hits fit and are numbers.
LEMMA HitsStayFit ==
  ASSUME RiskTypeOK, ChecksTry, HitsFit, RiskNext
  PROVE  HitsFit' /\ \A u \in Users : hits'[u] \in 0 .. Cardinality(Checked)
<1>1. ASSUME NEW u \in Users
      PROVE  hits'[u] + Cardinality(Then(u, Unlogged)) <= Cardinality(Checked) /\ hits'[u] \in 0 .. Cardinality(Checked)
  <2> DEFINE n == Cardinality(Checked)
             a == Cardinality(OfUser(u, Unlogged))
             b == Cardinality(Then(u, Unlogged))
  <2>1. n \in Nat /\ a \in Nat /\ b \in Nat BY UserChecks, ThenChecks
  <2>2. hits[u] + a <= n BY DEF HitsFit
  <2>3. hits[u] \in Nat BY UserChecks DEF RiskTypeOK
  <2>4. CASE hits'[u] = hits[u] /\ Then(u, Unlogged) \subseteq OfUser(u, Unlogged)
    BY <2>4, FewerThen, <2>1, <2>2, <2>3 DEF n, b
  <2>5. ASSUME NEW c \in Checked, Logs(u, c)
        PROVE  hits'[u] + b <= n /\ hits'[u] \in 0 .. n
    <3>1. IsFiniteSet(OfUser(u, Unlogged)) /\ c \in OfUser(u, Unlogged) BY <2>5, UserChecks DEF Logs
    <3>2. /\ IsFiniteSet(OfUser(u, Unlogged) \ {c})
          /\ Cardinality(OfUser(u, Unlogged) \ {c}) = a - 1
      BY <3>1, FS_RemoveElement
    <3>3. b <= a - 1 BY <2>5, <3>2, FS_Subset DEF Logs
    <3>4. hits'[u] = hits[u] + 1 BY <2>5 DEF Logs
    <3> HIDE DEF n, a, b
    <3> QED BY <2>1, <2>2, <2>3, <3>3, <3>4
  <2> QED BY <2>4, <2>5, HitSteps DEF Unmarked, Bans, CountsHit
<1>2. HitsFit' <=> \A u \in Users : hits'[u] + Cardinality(Then(u, Unlogged)) <= Cardinality(Checked)
  BY DEF HitsFit, OfUser, Then
<1> QED BY <1>1, <1>2

\* What is logged or about to be stays ahead of a ban by what is recorded at once.
LEMMA HitsStayAhead ==
  ASSUME RiskTypeOK, ChecksTry, HitsFit, HitsAhead, RiskNext
  PROVE  HitsAhead'
<1>1. HitsAhead' <=>
        \A u \in Users : u \notin Exempt /\ u \notin pardoned' /\ enabled'[u] =>
          LET n == hits'[u] + Cardinality(Then(u, {"log"})) IN n = 0 \/ n + 2 <= BanThreshold + together'[u]
  BY DEF HitsAhead, Ahead, OfUser, Then
<1> SUFFICES ASSUME NEW u \in Users, u \notin Exempt, u \notin pardoned', enabled'[u]
    PROVE  LET n == hits'[u] + Cardinality(Then(u, {"log"})) IN n = 0 \/ n + 2 <= BanThreshold + together'[u]
  BY <1>1
<1> DEFINE h == hits[u]
           g == hits'[u]
           a == Cardinality(OfUser(u, {"log"}))
           b == Cardinality(Then(u, {"log"}))
           s == together[u]
           t == together'[u]
<1>2. a \in Nat /\ b \in Nat BY UserChecks, ThenChecks
<1>3. h \in Nat BY UserChecks DEF RiskTypeOK
<1>4. s \in Nat /\ t \in Nat /\ s <= t /\ Cardinality(Then(u, Recording)) <= t BY TogetherGrows
<1>5. BanThreshold \in Nat BY RiskSets
<1>6. b <= t
  <2>1. Then(u, {"log"}) \subseteq Then(u, Recording) BY DEF Then, Recording
  <2>2. b <= Cardinality(Then(u, Recording)) BY <2>1, ThenChecks, FS_Subset
  <2>3. Cardinality(Then(u, Recording)) \in Nat BY ThenChecks
  <2> HIDE DEF b, t
  <2> QED BY <1>2, <1>4, <2>2, <2>3
<1>7. u \notin pardoned /\ enabled[u] => h + a = 0 \/ h + a + 2 <= BanThreshold + s
  BY DEF HitsAhead, Ahead
<1>8. CASE Unmarked(u)
  <2>1. u \notin pardoned /\ enabled[u] /\ g = h BY <1>8 DEF Unmarked
  <2>2. b <= a BY <1>8, FewerThen DEF Unmarked
  <2> HIDE DEF h, g, a, b, s, t
  <2>3. g + b = 0 \/ g + b + 2 <= BanThreshold + t BY <1>2, <1>3, <1>4, <1>5, <1>7, <2>1, <2>2
  <2> QED BY <2>3 DEF g, b, t
<1>9. CASE Bans(u) BY <1>9 DEF Bans
<1>10. CASE CountsHit(u)
  <2>1. g = h /\ h + 1 < BanThreshold BY <1>10 DEF CountsHit
  <2> HIDE DEF h, g, a, b, s, t
  <2>2. g + b + 2 <= BanThreshold + t BY <1>2, <1>3, <1>4, <1>5, <1>6, <2>1
  <2> QED BY <2>2 DEF g, b, t
<1>11. ASSUME NEW c \in Checked, Logs(u, c)
       PROVE  LET n == hits'[u] + Cardinality(Then(u, {"log"})) IN n = 0 \/ n + 2 <= BanThreshold + together'[u]
  <2>1. u \notin pardoned /\ enabled[u] /\ g = h + 1 BY <1>11 DEF Logs
  <2>2. IsFiniteSet(OfUser(u, {"log"})) /\ c \in OfUser(u, {"log"}) BY <1>11, UserChecks DEF Logs
  <2>3. IsFiniteSet(OfUser(u, {"log"}) \ {c}) /\ Cardinality(OfUser(u, {"log"}) \ {c}) = a - 1
    BY <2>2, FS_RemoveElement
  <2>4. b <= a - 1 BY <1>11, <2>3, FS_Subset DEF Logs
  <2> HIDE DEF h, g, a, b, s, t
  <2>5. g + b = 0 \/ g + b + 2 <= BanThreshold + t BY <1>2, <1>3, <1>4, <1>5, <1>7, <2>1, <2>4
  <2> QED BY <2>5 DEF g, b, t
<1> QED BY <1>8, <1>9, <1>10, <1>11, HitSteps

\* A user whose hits have reached the threshold is banned.
LEMMA AheadBans == RiskTypeOK /\ HitsAhead => BannedByThreshold
<1> SUFFICES ASSUME RiskTypeOK, HitsAhead, NEW u \in Users, u \notin Exempt, u \notin pardoned, enabled[u],
                    hits[u] + 1 >= BanThreshold + together[u], hits[u] > 0
    PROVE  FALSE
  BY DEF BannedByThreshold, RiskTypeOK
<1> DEFINE h == hits[u]
           a == Cardinality(OfUser(u, {"log"}))
           t == together[u]
<1>1. a \in Nat BY UserChecks
<1>2. h \in Nat /\ t \in Nat BY UserChecks DEF RiskTypeOK
<1>3. h + a = 0 \/ h + a + 2 <= BanThreshold + t BY DEF HitsAhead, Ahead
<1>4. BanThreshold \in Nat /\ h + 1 >= BanThreshold + t /\ h > 0 BY RiskSets
<1> HIDE DEF h, a, t
<1> QED BY <1>1, <1>2, <1>3, <1>4

-----------------------------------------------------------------------------
(*                          Loads and known texts                          *)

\* The checks of a key in flight a step later.
Flying(k) == {c \in Checked : check'[c].key = k /\ check'[c].pc \in {"calling", "outcome"}}

\* They are finitely many.
LEMMA FlightsFinite ==
  ASSUME NEW k
  PROVE  /\ IsFiniteSet(InFlight(k)) /\ Cardinality(InFlight(k)) \in Nat
         /\ IsFiniteSet(Flying(k)) /\ Cardinality(Flying(k)) \in Nat
  BY RiskSets, FS_Subset, FS_CardinalityType DEF InFlight, Flying

\* A check that is neither in flight before nor after, or only hears its answer.
Grounded(c) ==
  /\ Only(c)
  /\ check[c].pc \in {"calling", "outcome"} <=> check'[c].pc \in {"calling", "outcome"}
  /\ check'[c].pc \in {"calling", "outcome"} => check'[c].key = check[c].key

\* Such a check leaves those in flight as they were.
LEMMA GroundedFly ==
  ASSUME NEW c \in Checked, Grounded(c)
  PROVE  \A k : Flying(k) = InFlight(k)
  BY DEF Grounded, Only, Flying, InFlight

\* A check takes off ...
LEMMA TakesOff ==
  ASSUME NEW c \in Checked, NEW k, Only(c), check[c].pc \notin {"calling", "outcome"},
         check'[c].pc = "calling", check'[c].key = k
  PROVE  /\ Cardinality(Flying(k)) = Cardinality(InFlight(k)) + 1
         /\ \A m : m # k => Flying(m) = InFlight(m)
<1>1. Flying(k) = InFlight(k) \cup {c} /\ c \notin InFlight(k) BY DEF Only, Flying, InFlight
<1>2. Cardinality(Flying(k)) = Cardinality(InFlight(k)) + 1 BY <1>1, FlightsFinite, FS_AddElement
<1> QED BY <1>2 DEF Only, Flying, InFlight

\* ... and lands.
LEMMA Lands ==
  ASSUME NEW c \in Checked, NEW k, Only(c), check[c].pc \in {"calling", "outcome"}, check[c].key = k,
         check'[c].pc \notin {"calling", "outcome"}
  PROVE  /\ Cardinality(InFlight(k)) > 0 /\ Cardinality(Flying(k)) = Cardinality(InFlight(k)) - 1
         /\ \A m : m # k => Flying(m) = InFlight(m)
<1>1. Flying(k) = InFlight(k) \ {c} /\ c \in InFlight(k) BY DEF Only, Flying, InFlight
<1>2. Cardinality(Flying(k)) = Cardinality(InFlight(k)) - 1 BY <1>1, FlightsFinite, FS_RemoveElement
<1>3. Cardinality(InFlight(k)) > 0 BY <1>2, FlightsFinite
<1> QED BY <1>2, <1>3 DEF Only, Flying, InFlight

\* A key's load follows its checks.
Accounted(k) == k \notin drifted => active[k] = Cardinality(InFlight(k)) + release[k]
AccountedThen(k) == k \notin drifted' => active'[k] = Cardinality(Flying(k)) + release'[k]

\* Every step keeps the load of a key at the calls in flight and the releases to come.
LEMMA LoadFollows ==
  ASSUME RiskTypeOK, ChecksTry, LoadAccounted, RiskNext
  PROVE  LoadAccounted'
<1>1. LoadAccounted' <=> \A k \in ModerationKeys : AccountedThen(k)
  BY DEF LoadAccounted, AccountedThen, InFlight, Flying
<1> SUFFICES ASSUME NEW k \in ModerationKeys PROVE AccountedThen(k) BY <1>1
<1> DEFINE n == Cardinality(InFlight(k))
           m == Cardinality(Flying(k))
<1>2. Accounted(k) BY DEF LoadAccounted, Accounted
<1>3. n \in Nat /\ m \in Nat /\ active[k] \in Nat /\ release[k] \in Nat BY FlightsFinite DEF RiskTypeOK
<1>4. /\ active \in [ModerationKeys -> Nat] /\ release \in [ModerationKeys -> Nat] BY DEF RiskTypeOK
<1>5. ASSUME Flying(k) = InFlight(k), active'[k] = active[k], release'[k] = release[k], drifted \subseteq drifted'
      PROVE  AccountedThen(k)
  BY <1>2, <1>5 DEF Accounted, AccountedThen
<1>6. ASSUME k \in drifted' PROVE AccountedThen(k) BY <1>6 DEF AccountedThen
<1>7. ASSUME NEW c \in Checked, CheckStep(c) \/ CheckDropped(c) PROVE AccountedThen(k)
  <2>1. ASSUME Grounded(c), UNCHANGED load PROVE AccountedThen(k)
    BY <1>5, <2>1, GroundedFly DEF load
  <2>2. CASE Plain(c)
    <3>1. Grounded(c) BY <2>2 DEF Plain, Walks, Grounded, Only
    <3>2. UNCHANGED load BY <2>2 DEF Plain, LookUp, ChooseKeys, CountHits, Ban, LogHit, KeepHash
    <3> QED BY <2>1, <3>1, <3>2
  <2>3. CASE Walks(c, {"track"}, {"calling"}) /\ BeginLoad(c)
    <3>1. PICK h \in ModerationKeys : check'[c].key = h /\ active' = [active EXCEPT ![h] = @ + 1]
      BY <2>3, BeginsLoad
    <3>2. UNCHANGED <<release, drifted>> BY <2>3, BeginsLoad
    <3>3. /\ Cardinality(Flying(h)) = Cardinality(InFlight(h)) + 1
          /\ \A x : x # h => Flying(x) = InFlight(x)
      BY <2>3, <3>1, TakesOff DEF Walks
    <3>4. CASE k # h
      <4>1. active'[k] = active[k] BY <1>4, <3>1, <3>4
      <4> QED BY <1>5, <3>2, <3>3, <3>4, <4>1
    <3>5. CASE k = h
      <4>1. active'[k] = active[k] + 1 /\ m = n + 1 BY <1>4, <3>1, <3>3, <3>5
      <4>2. k \notin drifted => active[k] = n + release[k] BY <1>2 DEF Accounted
      <4> HIDE DEF n, m
      <4>3. k \notin drifted' => active'[k] = m + release'[k] BY <1>3, <3>2, <4>1, <4>2
      <4> QED BY <4>3 DEF AccountedThen, m
    <3> QED BY <3>4, <3>5
  <2>4. CASE Walks(c, {"calling"}, {"outcome"}) /\ Answers(c) /\ check'[c].key = check[c].key
    BY <2>4, <2>1 DEF Walks, Grounded, Only, Answers
  <2> DEFINE h == check[c].key
  <2>5. check[c].pc \in {"calling", "outcome"} => h \in ModerationKeys BY DEF ChecksTry
  <2>6. ASSUME check[c].pc \in {"calling", "outcome"}, Walks(c, CheckPlaces, {"track", "count", "end"})
        PROVE  /\ Cardinality(InFlight(h)) > 0 /\ Cardinality(Flying(h)) = Cardinality(InFlight(h)) - 1
               /\ \A x : x # h => Flying(x) = InFlight(x)
    BY <2>6, Lands DEF Walks
  <2>7. ASSUME check[c].pc \in {"calling", "outcome"}, Walks(c, CheckPlaces, {"track", "count", "end"}),
               active' = [active EXCEPT ![h] = Decremented(@)], release' = release, drifted' = drifted
        PROVE  AccountedThen(k)
    <3>1. CASE k # h BY <1>4, <2>7, <3>1, <1>5, <2>6
    <3>2. CASE k = h
      <4>1. active'[k] = Decremented(active[k]) BY <1>4, <2>7, <3>2
      <4>2. m = n - 1 /\ n > 0 BY <2>6, <2>7, <3>2
      <4>3. k \notin drifted => active[k] = n + release[k] BY <1>2 DEF Accounted
      <4>4. active[k] > 0 => active'[k] = active[k] - 1 BY <1>3, <4>1, LessByOne
      <4> HIDE DEF n, m
      <4>5. k \notin drifted' => active'[k] = m + release'[k] BY <1>3, <2>7, <4>2, <4>3, <4>4
      <4> QED BY <4>5 DEF AccountedThen, m
    <3> QED BY <3>1, <3>2
  <2>8. ASSUME check[c].pc \in {"calling", "outcome"}, Walks(c, CheckPlaces, {"track", "count", "end"}),
               GuardDrops(h), active' = active, drifted' = drifted
        PROVE  AccountedThen(k)
    <3>1. CASE k # h BY <1>4, <2>8, <3>1, <1>5, <2>6 DEF GuardDrops
    <3>2. CASE k = h
      <4>1. release'[k] = release[k] + 1 BY <1>4, <2>8, <3>2 DEF GuardDrops
      <4>2. m = n - 1 /\ n > 0 BY <2>6, <2>8, <3>2
      <4>3. k \notin drifted => active[k] = n + release[k] BY <1>2 DEF Accounted
      <4> HIDE DEF n, m
      <4>4. k \notin drifted' => active'[k] = m + release'[k] BY <1>3, <2>8, <4>1, <4>2, <4>3
      <4> QED BY <4>4 DEF AccountedThen, m
    <3> QED BY <3>1, <3>2
  <2>9. CASE Walks(c, {"outcome"}, {"track", "count", "end"}) /\ Outcome(c) BY <2>9, <2>7 DEF Walks, CheckPlaces, Outcome
  <2>10. CASE Walks(c, {"outcome"}, {"track", "count", "end"}) /\ OutcomeFails(c)
    BY <2>10, <2>8 DEF Walks, CheckPlaces, OutcomeFails
  <2>11. CASE Walks(c, CheckPlaces \ {"new", "end"}, {"end"}) /\ CheckDropped(c)
    <3>1. Walks(c, CheckPlaces, {"track", "count", "end"}) /\ Only(c) /\ check'[c].pc = "end" BY <2>11 DEF Walks
    <3>2. CASE check[c].pc \in {"calling", "outcome"} /\ GuardDrops(h) /\ UNCHANGED <<active, frozen, drifted>>
      BY <2>8, <3>1, <3>2
    <3>3. CASE check[c].pc \notin {"calling", "outcome"} /\ UNCHANGED load BY <3>1, <3>3, <2>1 DEF Grounded
    <3>4. ASSUME NEW x \in check[c].left, check[c].pc = "track", active' = [active EXCEPT ![x[1]] = @ + 1],
                 drifted' = drifted \cup {x[1]}, UNCHANGED <<frozen, release>>
          PROVE  AccountedThen(k)
      <4>1. CASE k = x[1] BY <1>6, <3>4, <4>1
      <4>2. CASE k # x[1]
        <5>1. Grounded(c) BY <3>1, <3>4 DEF Grounded
        <5>2. active'[k] = active[k] BY <1>4, <3>4, <4>2
        <5> QED BY <1>5, <3>4, <5>1, <5>2, GroundedFly
      <4> QED BY <4>1, <4>2
    <3>5. CASE /\ check[c].pc = "outcome" /\ GuardDrops(h)
               /\ active' = [active EXCEPT ![h] = Decremented(@)] /\ drifted' = drifted \cup {h}
      <4>1. CASE k = h BY <1>6, <3>5, <4>1
      <4>2. CASE k # h
        <5>1. active'[k] = active[k] /\ release'[k] = release[k] BY <1>4, <3>5, <4>2 DEF GuardDrops
        <5> QED BY <1>5, <2>6, <3>1, <3>5, <4>2, <5>1
      <4> QED BY <4>1, <4>2
    <3> QED BY <2>11, <3>2, <3>3, <3>4, <3>5 DEF CheckDropped, At
  <2> QED BY <1>7, <2>2, <2>3, <2>4, <2>9, <2>10, <2>11, CheckStepIs
<1>8. ASSUME NEW c \in Checked, Inspect(c) PROVE AccountedThen(k)
  BY <1>8, Inspects, <1>5, GroundedFly DEF Grounded, Inspect, load
<1>9. check' = check => Flying(k) = InFlight(k) BY DEF Flying, InFlight
<1>10. ASSUME NEW h \in ModerationKeys, ReleaseLoad(h) PROVE AccountedThen(k)
  <2>1. /\ release[h] > 0 /\ release' = [release EXCEPT ![h] = @ - 1]
        /\ active' = [active EXCEPT ![h] = Decremented(@)] /\ UNCHANGED <<drifted, check>>
    BY <1>10 DEF ReleaseLoad
  <2>2. CASE k # h BY <1>4, <2>1, <2>2, <1>5, <1>9
  <2>3. CASE k = h
    <3>1. active'[k] = Decremented(active[k]) /\ release'[k] = release[k] - 1 /\ release[k] > 0 BY <1>4, <2>1, <2>3
    <3>2. m = n BY <1>9, <2>1
    <3>3. k \notin drifted => active[k] = n + release[k] BY <1>2 DEF Accounted
    <3>4. active[k] > 0 => active'[k] = active[k] - 1 BY <1>3, <3>1, LessByOne
    <3> HIDE DEF n, m
    <3>5. k \notin drifted' => active'[k] = m + release'[k] BY <1>3, <2>1, <3>1, <3>2, <3>3, <3>4
    <3> QED BY <3>5 DEF AccountedThen, m
  <2> QED BY <2>2, <2>3
<1>11. CASE SaveRiskConfig
  <2>1. PICK ks \in SUBSET ModerationKeys :
          /\ active' = [x \in ModerationKeys |-> IF x \in modKeys \ ks THEN 0 ELSE active[x]]
          /\ drifted' = drifted \cup (modKeys \ ks) /\ UNCHANGED <<release, check>>
    BY <1>11 DEF SaveRiskConfig
  <2>2. CASE k \in modKeys \ ks BY <1>6, <2>1, <2>2
  <2>3. CASE k \notin modKeys \ ks BY <2>1, <2>3, <1>5, <1>9
  <2> QED BY <2>2, <2>3
<1>12. CASE RiskRestart
  <2>1. \A c \in Checked : check'[c].pc \in {"new", "end"} BY <1>12 DEF Fresh, CheckState, RiskRestart
  <2>2. Flying(k) = {} BY <2>1 DEF Flying
  <2>3. m = 0 BY <2>2, FS_EmptySet
  <2>4. active'[k] = 0 /\ release'[k] = 0 BY <1>12 DEF RiskRestart, LoadAfterRestart
  <2> HIDE DEF m
  <2>5. active'[k] = m + release'[k] BY <2>3, <2>4
  <2> QED BY <2>5 DEF AccountedThen, m
<1>13. CASE check' = check /\ UNCHANGED <<active, release, drifted>> BY <1>5, <1>9, <1>13
<1> QED BY <1>7, <1>8, <1>10, <1>11, <1>12, <1>13, RiskSteps DEF OtherStep, Thaw, Unban, DeleteHash, load

\* Checks keep trying only while they may.
LEMMA TriesKept ==
  ASSUME RiskTypeOK, ChecksTry, RiskNext
  PROVE  ChecksTry'
<1> SUFFICES ASSUME NEW d \in Checked
    PROVE  /\ check'[d].pc = "track" => check'[d].attempts > 0
           /\ check'[d].pc \in {"calling", "outcome"} => check'[d].key \in ModerationKeys
  BY DEF ChecksTry
<1> DEFINE Goal == /\ check'[d].pc = "track" => check'[d].attempts > 0
                   /\ check'[d].pc \in {"calling", "outcome"} => check'[d].key \in ModerationKeys
<1>1. CASE check'[d] = check[d] BY <1>1 DEF ChecksTry
<1>2. ASSUME NEW c \in Checked, CheckStep(c) \/ CheckDropped(c) PROVE Goal
  <2>1. CASE d # c BY <1>2, CheckStepIs, <1>1, <2>1 DEF Plain, Walks, Only
  <2>2. CASE d = c
    <3>1. CASE Plain(c) BY <2>2, <3>1, ChoosesKeys DEF Plain, Walks
    <3>2. CASE Walks(c, {"track"}, {"calling"}) /\ BeginLoad(c) BY <2>2, <3>2, BeginsLoad DEF Walks
    <3>3. CASE Walks(c, {"calling"}, {"outcome"}) /\ Answers(c) /\ check'[c].key = check[c].key
      BY <2>2, <3>3 DEF Walks, ChecksTry
    <3>4. CASE Walks(c, {"outcome"}, {"track", "count", "end"}) /\ (Outcome(c) \/ OutcomeFails(c))
      BY <2>2, <3>4, HasOutcome DEF Walks, Outcome, OutcomeFails
    <3>5. CASE Walks(c, CheckPlaces \ {"new", "end"}, {"end"}) /\ CheckDropped(c) BY <2>2, <3>5 DEF Walks
    <3> QED BY <1>2, <3>1, <3>2, <3>3, <3>4, <3>5, CheckStepIs
  <2> QED BY <2>1, <2>2
<1>3. ASSUME NEW c \in Checked, Inspect(c) PROVE Goal BY <1>1, <1>3, Inspects DEF Only
<1>4. CASE RiskRestart
  <2>1. check'[d].pc \in {"new", "end"}
    <3>1. Fresh \in CheckState BY DEF Fresh, CheckState
    <3>2. ASSUME NEW x PROVE [Fresh EXCEPT !.pc = "end", !.mode = x].pc = "end" BY <3>1 DEF CheckState
    <3> QED BY <1>4, <3>2 DEF RiskRestart
  <2> QED BY <2>1
<1> QED BY <1>1, <1>2, <1>3, <1>4, RiskSteps
    DEF OtherStep, ReleaseLoad, Thaw, Unban, DeleteHash, SaveRiskConfig

\* A known text is a hit, and its call is never served.
LEMMA KnownKept ==
  ASSUME RiskTypeOK, ChecksTry, KnownStay, RiskNext
  PROVE  KnownStay'
<1> SUFFICES ASSUME NEW d \in known'
    PROVE  /\ InputOf[d] \in hashes' /\ check'[d].pc \notin {"new", "choose", "track", "calling", "outcome"}
           /\ check'[d].mode = "pre_block" => answer'[d] # "served"
  BY DEF KnownStay
<1> DEFINE Goal == /\ InputOf[d] \in hashes'
                   /\ check'[d].pc \notin {"new", "choose", "track", "calling", "outcome"}
                   /\ check'[d].mode = "pre_block" => answer'[d] # "served"
<1> USE DEF record
<1>1. answer \in [Checked -> {"waiting", "served", "blocked", "gone"}] /\ known \subseteq Checked BY DEF RiskTypeOK
<1>2. ASSUME d \in known, hashes \subseteq hashes', answer'[d] \in {answer[d], "blocked", "gone"},
             check'[d].mode = check[d].mode,
             check'[d].pc = check[d].pc \/ check'[d].pc \notin {"new", "choose", "track", "calling", "outcome"}
      PROVE  Goal
  BY <1>2 DEF KnownStay
<1>3. ASSUME NEW c \in Checked, NEW what \in {"served", "blocked"}, Answer(c, what), d \in known
      PROVE  answer'[d] \in {answer[d], what} /\ (d # c => answer'[d] = answer[d])
  BY <1>1, <1>3 DEF Answer
<1>4. ASSUME NEW c \in Checked, CheckStep(c) \/ CheckDropped(c) PROVE Goal
  <2>1. known' = known
    BY ZenonT(60), <1>4 DEF CheckStep, LookUp, ChooseKeys, BeginLoad, Answers, Outcome, OutcomeFails, CountHits, Ban, LogHit,
         KeepHash, CheckDropped
  <2>2. hashes \subseteq hashes'
    BY <1>4 DEF CheckStep, LookUp, ChooseKeys, BeginLoad, Answers, Outcome, OutcomeFails, CountHits, Ban, LogHit,
         KeepHash, CheckDropped
  <2>3. d \in known /\ d \in Checked BY <1>1, <2>1
  <2>4. InputOf[d] \in hashes /\ check[d].pc \notin {"new", "choose", "track", "calling", "outcome"}
    BY <2>3 DEF KnownStay
  <2>5. Only(c) /\ check'[c].mode = check[c].mode BY <1>4, CheckStepIs DEF Plain, Walks
  <2>6. CASE d # c
    <3>1. answer'[d] = answer[d]
      <4>1. ASSUME NEW what \in {"served", "blocked"}, Answer(c, what) PROVE answer'[d] = answer[d]
        BY <1>3, <2>3, <2>6, <4>1
      <4>2. CASE ChooseKeys(c) BY <4>1, <4>2, ChoosesKeys
      <4>3. CASE Outcome(c) \/ OutcomeFails(c) BY <4>1, <4>3, HasOutcome DEF Outcome, OutcomeFails, At
      <4>4. CASE CheckDropped(c) BY <1>1, <2>3, <2>6, <4>4 DEF CheckDropped
      <4> QED BY <1>4, <4>1, <4>2, <4>3, <4>4 DEF CheckStep, LookUp, Passes, BeginLoad, Answers, CountHits, Ban, LogHit,
            KeepHash
    <3> QED BY SMTT(30), <1>2, <2>2, <2>3, <2>5, <2>6, <3>1 DEF Only
  <2>7. CASE d = c
    <3>1. CASE Plain(c)
      <4>1. CASE Walks(c, {"known"}, {"count", "choose", "end"}) /\ LookUp(c)
        <5>1. EndCheck(c, "count") /\ UNCHANGED answer BY <2>4, <2>7, <4>1 DEF LookUp, NeedsNoModeration
        <5>2. check'[c].pc = "count" BY <5>1, CheckEnds DEF CheckPlaces, Recording
        <5> QED BY <1>2, <2>2, <2>3, <2>5, <2>7, <5>1, <5>2
      <4>2. CASE Walks(c, {"choose"}, {"track", "end"}) BY <2>4, <2>7, <4>2 DEF Walks
      <4>3. CASE Walks(c, {"count"}, {"ban", "log"}) /\ CountHits(c)
        BY <1>2, <2>2, <2>3, <2>5, <2>7, <4>3 DEF Walks, CountHits
      <4>4. CASE Walks(c, {"ban"}, {"log"}) /\ Ban(c) BY <1>2, <2>2, <2>3, <2>5, <2>7, <4>4 DEF Walks, Ban
      <4>5. CASE Walks(c, {"log"}, {"hash", "end"}) /\ LogHit(c)
        BY <1>2, <1>3, <2>2, <2>3, <2>5, <2>7, <4>5 DEF Walks, LogHit
      <4>6. CASE Walks(c, {"hash"}, {"end"}) /\ KeepHash(c)
        BY <1>2, <1>3, <2>2, <2>3, <2>5, <2>7, <4>6 DEF Walks, KeepHash
      <4> QED BY <3>1, <4>1, <4>2, <4>3, <4>4, <4>5, <4>6 DEF Plain
    <3>2. CASE CheckDropped(c)
      <4>1. check'[c].pc = "end" BY <3>2, CheckEnds DEF CheckDropped, CheckPlaces
      <4>2. answer'[c] = "gone" BY <1>1, <3>2 DEF CheckDropped
      <4> QED BY <1>2, <2>2, <2>3, <2>5, <2>7, <4>1, <4>2
    <3>3. CASE ~Plain(c) /\ ~CheckDropped(c) BY <1>4, <3>3, CheckStepIs, <2>4, <2>7 DEF Walks
    <3> QED BY <3>1, <3>2, <3>3
  <2> QED BY SMTT(30), <2>6, <2>7
<1>5. ASSUME NEW c \in Checked, Inspect(c) PROVE Goal
  <2>1. /\ check[c].pc = "new" /\ Only(c) /\ check'[c].pc \in {"end", "known"} /\ check'[c].mode = mode
    BY <1>5, Inspects
  <2>2. /\ answer' = [answer EXCEPT ![c] = IF mode = "pre_block" THEN "waiting" ELSE "served"]
        /\ hashes' = hashes /\ known' = IF InputOf[c] \in hashes THEN known \cup {c} ELSE known
    BY <1>5 DEF Inspect
  <2>3. c \notin known BY <2>1 DEF KnownStay
  <2>4. CASE d # c BY <1>1, <2>2, <2>4, <2>1, <1>2 DEF Only
  <2>5. CASE d = c BY <2>2, <2>3, <2>5, <1>1, <2>1
  <2> QED BY <2>4, <2>5
<1>6. ASSUME NEW i \in Inputs, DeleteHash(i) PROVE Goal BY <1>6 DEF DeleteHash, KnownStay
<1>7. CASE RiskRestart
  <2>1. d \in known /\ d \in Checked /\ hashes' = hashes BY <1>1, <1>7 DEF RiskRestart
  <2>2. check[d].pc # "new" BY <2>1 DEF KnownStay
  <2>3. check'[d] = [Fresh EXCEPT !.pc = "end", !.mode = check[d].mode] BY <1>7, <2>1, <2>2 DEF RiskRestart
  <2>4. check'[d].pc = "end" /\ check'[d].mode = check[d].mode BY <2>3 DEF Fresh, CheckState
  <2>5. answer'[d] \in {answer[d], "gone"} BY <1>7, <2>1 DEF RiskRestart
  <2> QED BY <1>2, <2>1, <2>4, <2>5
<1>8. CASE UNCHANGED <<known, hashes, check, answer>>
  BY <1>2, <1>8
<1> QED BY <1>4, <1>5, <1>6, <1>7, <1>8, RiskSteps DEF OtherStep, ReleaseLoad, Thaw, Unban, SaveRiskConfig

-----------------------------------------------------------------------------
\* The invariant holds at first, ...
LEMMA RiskInitInv == RiskInit => RiskInv
<1> SUFFICES ASSUME RiskInit PROVE RiskInv OBVIOUS
<1>1. PICK b \in RiskBudgets :
        /\ riskBudget = [what \in {"edits", "restarts", "drops", "faults"} |-> b[what]]
        /\ check = [c \in Checked |-> [Fresh EXCEPT !.pc = IF c \in b.checks THEN "new" ELSE "end"]]
  BY DEF RiskInit
<1>2. b \in [checks : SUBSET Checked, edits : Nat, restarts : Nat, drops : Nat, faults : Nat]
  BY RiskBudgetsAssumption
<1>3. riskBudget \in [edits : Nat, restarts : Nat, drops : Nat, faults : Nat] BY <1>2, <1>1
<1>4. Fresh \in CheckState BY DEF Fresh, CheckState
<1>5. ASSUME NEW p \in {"new", "end"} PROVE [Fresh EXCEPT !.pc = p] \in CheckState /\ [Fresh EXCEPT !.pc = p].pc = p
  BY <1>4 DEF CheckState
<1>6. check \in [Checked -> CheckState] /\ \A c \in Checked : check[c].pc \in {"new", "end"}
  BY <1>1, <1>5
<1>7. Cardinality({}) = 0 /\ Cardinality(Checked) \in Nat BY UserChecks, FS_EmptySet
<1>8. /\ mode \in {"off", "observe", "pre_block"} /\ modKeys \subseteq ModerationKeys
      /\ active \in [ModerationKeys -> Nat] /\ frozen \in [ModerationKeys -> BOOLEAN]
      /\ release \in [ModerationKeys -> Nat] /\ drifted = {} /\ known = {} /\ pardoned = {} /\ hashes = {}
      /\ answer \in [Checked -> {"waiting", "served", "blocked", "gone"}]
      /\ enabled \in [Users -> BOOLEAN]
      /\ \A k \in ModerationKeys : active[k] = 0 /\ release[k] = 0
  BY DEF RiskInit
<1>9. hits = [u \in Users |-> 0] /\ together = [u \in Users |-> 0] BY DEF RiskInit
<1>10. hits \in [Users -> 0 .. Cardinality(Checked)] /\ together \in [Users -> 0 .. Cardinality(Checked)] BY <1>7, <1>9
<1>11. RiskTypeOK BY <1>3, <1>6, <1>8, <1>10 DEF RiskTypeOK
<1>12. LoadAccounted
  <2>1. \A k \in ModerationKeys : InFlight(k) = {} BY <1>6 DEF InFlight
  <2> QED BY <1>7, <1>8, <2>1 DEF LoadAccounted
<1>13. ChecksTry BY <1>6 DEF ChecksTry
<1>14. HitsFit
  <2>1. ASSUME NEW u \in Users PROVE hits[u] + Cardinality(OfUser(u, Unlogged)) <= Cardinality(Checked) BY <1>9, UserChecks
  <2> QED BY <2>1 DEF HitsFit
<1>15. HitsAhead
  <2>1. ASSUME NEW u \in Users PROVE Ahead(u) = 0
    <3>1. OfUser(u, {"log"}) = {} BY <1>6 DEF OfUser
    <3>2. hits[u] = 0 /\ Cardinality(OfUser(u, {"log"})) = 0 BY <1>7, <1>9, <3>1
    <3> QED BY <3>2 DEF Ahead
  <2> QED BY <2>1 DEF HitsAhead
<1>16. KnownStay BY <1>8 DEF KnownStay
<1> QED BY <1>11, <1>12, <1>13, <1>14, <1>15, <1>16 DEF RiskInv

\* ... every step keeps it, ...
LEMMA RiskNextInv == RiskInv /\ RiskNext => RiskInv'
<1> SUFFICES ASSUME RiskInv, RiskNext PROVE RiskInv' OBVIOUS
<1> USE DEF RiskInv
<1>1. HitsFit' /\ \A u \in Users : hits'[u] \in 0 .. Cardinality(Checked) BY HitsStayFit
<1>2. hits' \in [Users -> 0 .. Cardinality(Checked)]
  <2>1. \/ hits' = hits \/ \E c \in Checked : hits' = [hits EXCEPT ![UserOf[c]] = @ + 1]
    <3>1. ASSUME NEW c \in Checked, CheckStep(c)
          PROVE  hits' = hits \/ hits' = [hits EXCEPT ![UserOf[c]] = @ + 1]
      BY <3>1 DEF CheckStep, LookUp, ChooseKeys, BeginLoad, Answers, Outcome, OutcomeFails, CountHits, Ban, LogHit,
           KeepHash, record
    <3> QED BY ZenonT(60), <3>1, RiskSteps DEF OtherStep, ReleaseLoad, Thaw, Unban, DeleteHash, SaveRiskConfig, RiskRestart,
          CheckDropped, Inspect, record
  <2>2. hits \in [Users -> 0 .. Cardinality(Checked)] BY DEF RiskTypeOK
  <2>3. DOMAIN hits' = Users /\ hits' = [u \in Users |-> hits'[u]] BY <2>1, <2>2
  <2> QED BY SMTT(30), <1>1, <2>3
<1>3. together' \in [Users -> 0 .. Cardinality(Checked)] BY TogetherGrows DEF RiskNext
<1>4. RiskTypeOK' BY <1>2, <1>3, LoadSteps, ChecksTyped, RecordSteps DEF RiskTypeOK, LoadTyped, RecordTyped
<1>5. LoadAccounted' BY LoadFollows
<1>6. ChecksTry' BY TriesKept
<1>7. HitsAhead' BY HitsStayAhead
<1>8. KnownStay' BY KnownKept
<1> QED BY <1>1, <1>4, <1>5, <1>6, <1>7, <1>8

\* ... and so does a step that changes nothing.
LEMMA RiskStutters == RiskInv /\ UNCHANGED riskVars => RiskInv'
<1> SUFFICES ASSUME RiskInv, UNCHANGED riskVars PROVE RiskInv' OBVIOUS
<1> USE DEF riskVars, load, record, RiskInv
<1>1. RiskTypeOK' BY DEF RiskTypeOK
<1>2. LoadAccounted' /\ ChecksTry' BY DEF LoadAccounted, ChecksTry, InFlight
<1>3. HitsFit' /\ HitsAhead' BY DEF HitsFit, HitsAhead, Ahead, OfUser
<1>4. KnownStay' BY DEF KnownStay
<1> QED BY <1>1, <1>2, <1>3, <1>4

\* The invariant says that moderation is safe.
LEMMA RiskInvSafe == RiskInv => ModerationSafe
BY AheadBans DEF RiskInv, KnownStay, KnownHashBlocks, ModerationSafe

\* Moderation is safe throughout.
LEMMA ModerationCorrect == RiskSpec => []ModerationSafe
<1>1. RiskInv /\ [RiskNext]_riskVars => RiskInv' BY RiskNextInv, RiskStutters
<1> QED BY RiskInitInv, <1>1, RiskInvSafe, PTL DEF RiskSpec

-----------------------------------------------------------------------------
(*                     The audit of prompts: the invariant                 *)

\* A request is answered when its verdict is in, and only a request that need
\* not wait is answered before; one that is to be blocked has its event.
AnswersFollow ==
  \A r \in Inspected :
    /\ task[r].pc \in {"new", "loaded"} => task[r].answer = "none"
    /\ task[r].pc \in {"event", "mark"} => task[r].verdict # "none"
    /\ task[r].pc = "mark" /\ task[r].verdict # "Allow" => r \in recorded
    /\ task[r].config.blocking /\ task[r].pc # "end" => task[r].answer = "none"

\* The waiters are the tasks that wait, each once.
WaitersWait ==
  /\ \A i \in DOMAIN parked : task[parked[i]].pc = "parked"
  /\ \A i, j \in DOMAIN parked : parked[i] = parked[j] => i = j
  /\ \A r \in Inspected : task[r].pc = "parked" => \E i \in DOMAIN parked : parked[i] = r

\* While a task waits or is about to, another will notify it or look again,
\* or a permit is there for one that is about to wait.
SomeoneWakes ==
  (\E r \in Inspected : task[r].pc \in {"park", "parked"}) =>
    \/ \E r \in Inspected : task[r].pc \in Holding \cup {"check"}
    \/ spare /\ \E r \in Inspected : task[r].pc = "park"

\* A request that has counted the queue, and that nobody has overtaken, finds
\* it below its capacity.
RoomIfFirst ==
  \A r \in Inspected :
    task[r].pc = "counted" /\ ~task[r].raced => Cardinality(ActiveJobs) < task[r].config.capacity

\* What a preview would delete is what it has shown.
ShownBy(p) == p.open => p.max <= eventId /\ JobsOf(Matching(p.filter, p.max)) \subseteq p.shown
PreviewsShow ==
  /\ ShownBy(preview) /\ ShownBy(deleting.preview)
  /\ ~deleting.preview.open => deleting = NoDeletion

AuditInv ==
  /\ AuditTypeOK /\ AnswersFollow /\ FailsClosed /\ SlotsAccounted
  /\ WaitersWait /\ SomeoneWakes /\ RoomIfFirst /\ PreviewsShow

TaskPlaces == {"new", "loaded", "counted", "check", "park", "parked", "end", "gone"} \cup Holding

\* The fields of a task.
LEMMA TaskTypes ==
  ASSUME AuditTypeOK, NEW r \in Inspected
  PROVE  /\ task[r] \in TaskState /\ task[r].pc \in TaskPlaces
         /\ task[r].config \in AuditConfigs /\ task[r].config \in AuditConfig
         /\ task[r].config.workers \in Nat \ {0} /\ task[r].config.capacity \in Nat \ {0}
         /\ task[r].config.blocking \in BOOLEAN
         /\ task[r].verdict \in Verdicts \cup {"none"} /\ task[r].raced \in BOOLEAN
         /\ task[r].answer \in {"none", "passed", "blocked", "unavailable"}
BY AuditConfigsAssumption DEF AuditTypeOK, TaskState, TaskPlaces, AuditConfig

\* A task that ends gives its slot back and wakes the first waiter, or leaves
\* a permit.
Wakes(r) ==
  \/ /\ parked = <<>> /\ parked' = parked /\ spare' = TRUE
     /\ \A q \in Inspected : q # r => task'[q] = task[q]
  \/ \E w \in Inspected :
       /\ parked # <<>> /\ w = Head(parked) /\ w # r /\ task[w].pc = "parked"
       /\ task'[w] = [task[w] EXCEPT !.pc = "check"]
       /\ parked' = Tail(parked) /\ spare' = spare
       /\ \A q \in Inspected : q \notin {r, w} => task'[q] = task[q]

\* A task that ends leaves the answer it has given, or gives one now.
LEMMA FinishIs ==
  ASSUME AuditTypeOK, WaitersWait, NEW r \in Inspected, task[r].pc \in Holding,
         NEW a \in {"passed", "blocked", "unavailable"}, Finish(r, a)
  PROVE  /\ task' \in [Inspected -> TaskState] /\ Wakes(r) /\ slots' = slots - 1
         /\ task'[r] = [task[r] EXCEPT !.pc = "end", !.answer = IF @ = "none" THEN a ELSE @]
<1> DEFINE end == [task[r] EXCEPT !.pc = "end", !.answer = IF @ = "none" THEN a ELSE @]
           ended == [task EXCEPT ![r].pc = "end", ![r].answer = IF @ = "none" THEN a ELSE @]
<1>1. task \in [Inspected -> TaskState] /\ parked \in Seq(Inspected) BY DEF AuditTypeOK
<1>2. end \in TaskState BY <1>1, TaskTypes DEF TaskState
<1>3. ended = [task EXCEPT ![r] = end] BY <1>1
<1>4. slots' = slots - 1 /\ Notifies(ended) BY DEF Finish
<1> HIDE DEF ended
<1>5. ended \in [Inspected -> TaskState] /\ ended[r] = end /\ \A q \in Inspected : q # r => ended[q] = task[q]
  BY <1>1, <1>2, <1>3
<1>6. CASE parked = <<>> BY <1>4, <1>5, <1>6 DEF Notifies, Wakes
<1>7. CASE parked # <<>>
  <2> DEFINE w == Head(parked)
  <2>1. w \in Inspected /\ w = parked[1] /\ 1 \in DOMAIN parked BY <1>1, <1>7
  <2>2. task[w].pc = "parked" BY <2>1 DEF WaitersWait
  <2>3. w # r BY <2>2 DEF Holding
  <2>4. task' = [ended EXCEPT ![w].pc = "check"] /\ parked' = Tail(parked) /\ spare' = spare
    BY <1>4, <1>7 DEF Notifies
  <2> HIDE DEF w
  <2>5. [task[w] EXCEPT !.pc = "check"] \in TaskState BY <1>1, <2>1 DEF TaskState
  <2>6. task' = [ended EXCEPT ![w] = [task[w] EXCEPT !.pc = "check"]] BY <1>5, <2>1, <2>3, <2>4
  <2>7. task'[r] = end /\ task'[w] = [task[w] EXCEPT !.pc = "check"] /\ task' \in [Inspected -> TaskState]
        /\ \A q \in Inspected : q \notin {r, w} => task'[q] = task[q]
    BY <1>5, <2>1, <2>3, <2>5, <2>6
  <2> QED BY <1>4, <1>7, <2>1, <2>2, <2>3, <2>4, <2>7 DEF Wakes, w
<1> QED BY <1>6, <1>7

\* A job leaves the queue, or stays.
LEMMA QueueShrinks ==
  ASSUME auditJob \in [Inspected -> Waiting \cup {"none", "done", "failed"}],
         \A r \in Inspected : auditJob'[r] \in Waiting => auditJob[r] \in Waiting
  PROVE  /\ ActiveJobs' \subseteq ActiveJobs /\ IsFiniteSet(ActiveJobs)
         /\ Cardinality(ActiveJobs') \in Nat /\ Cardinality(ActiveJobs) \in Nat
         /\ Cardinality(ActiveJobs') <= Cardinality(ActiveJobs)
BY AuditSetsAssumption, FS_Subset, FS_CardinalityType DEF ActiveJobs

\* What the steps of a task do, one after the other.
LEMMA TaskSteps ==
  ASSUME AuditTypeOK, WaitersWait, NEW r \in Inspected, TaskStep(r)
  PROVE  /\ task' \in [Inspected -> TaskState]
         /\ UNCHANGED <<admin, erase>>
         /\ recorded \subseteq recorded' /\ recorded' \subseteq Inspected
  <1> USE DEF auditVars, queue, trail, admin, erase
  <1>1. task \in [Inspected -> TaskState] /\ recorded \subseteq Inspected /\ config \in AuditConfigs
    BY DEF AuditTypeOK
  <1>2. CASE LoadAuditConfig(r) BY ZenonT(60), <1>1, <1>2 DEF LoadAuditConfig, TaskState
  <1>3. CASE CountQueue(r) BY <1>1, <1>3 DEF CountQueue, Answered, TaskState
  <1>4. CASE InsertJob(r) BY ZenonT(60), <1>1, <1>4 DEF InsertJob, TaskState
  <1>5. CASE TakeSlot(r) BY <1>1, <1>5 DEF TakeSlot, TaskMoves, TaskState, Holding
  <1>6. CASE ParkTask(r) BY <1>1, <1>6 DEF ParkTask, TaskMoves, TaskState
  <1>7. CASE ClaimJob(r)
    <2>1. CASE Finish(r, "unavailable") BY <1>1, <1>7, <2>1, FinishIs DEF ClaimJob, Holding
    <2>2. CASE TaskMoves(r, "scan") BY <1>1, <1>7, <2>2 DEF ClaimJob, TaskMoves, TaskState, Holding
    <2> QED BY <1>7, <2>1, <2>2 DEF ClaimJob
  <1>8. CASE ScanPrompt(r)
    <2>1. CASE TaskMoves(r, "fail") BY <1>1, <1>8, <2>1 DEF ScanPrompt, TaskMoves, TaskState, Holding
    <2>2. ASSUME NEW v \in Verdicts, NEW pc \in {"event", "mark"},
                 task' = [task EXCEPT ![r].verdict = v, ![r].pc = pc]
          PROVE  task' \in [Inspected -> TaskState]
      <3>1. [[task[r] EXCEPT !.verdict = v] EXCEPT !.pc = pc] \in TaskState BY <1>1 DEF TaskState, Holding
      <3>2. task' = [task EXCEPT ![r] = [[task[r] EXCEPT !.verdict = v] EXCEPT !.pc = pc]] BY <1>1, <2>2
      <3> QED BY <1>1, <3>1, <3>2
    <2>3. ASSUME NEW v \in Verdicts,
                 task' = [task EXCEPT ![r].verdict = v,
                            ![r].pc = IF v # "Allow" \/ task[r].config.store THEN "event" ELSE "mark"]
          PROVE  task' \in [Inspected -> TaskState]
      BY <2>2, <2>3
    <2> QED BY <1>1, <1>8, <2>1, <2>3 DEF ScanPrompt
  <1>9. CASE RecordEvent(r) BY <1>1, <1>9 DEF RecordEvent, TaskMoves, TaskState, Holding
  <1>10. CASE MarkDone(r)
    <2>1. CASE Finish(r, IF task[r].verdict = "Block" THEN "blocked" ELSE "passed")
      BY <1>1, <1>10, <2>1, FinishIs DEF MarkDone, Holding
    <2>2. CASE TaskMoves(r, "fail") BY SMTT(30), <1>1, <1>10, <2>2 DEF MarkDone, TaskMoves, TaskState, Holding
    <2> QED BY <1>10, <2>1, <2>2 DEF MarkDone
  <1>11. CASE MarkFailed(r) BY <1>1, <1>11, FinishIs DEF MarkFailed, Holding
  <1> QED BY <1>2, <1>3, <1>4, <1>5, <1>6, <1>7, <1>8, <1>9, <1>10, <1>11 DEF TaskStep

\* An event gets the next id.
LEMMA EventsGrow ==
  ASSUME AuditTypeOK, AnswersFollow, NEW r \in Inspected, RecordEvent(r)
  PROVE  \/ /\ eventId' = eventId + 1 /\ DOMAIN events' = DOMAIN events \cup {eventId + 1}
            /\ events'[eventId + 1] \in Event /\ \A i \in DOMAIN events : events'[i] = events[i] /\ i # eventId + 1
            /\ recorded' = recorded \cup {r} /\ UNCHANGED budget
         \/ UNCHANGED trail /\ StatementRefused
<1>1. eventId \in Nat /\ DOMAIN events \subseteq 1 .. eventId BY DEF AuditTypeOK
<1>2. eventId + 1 > eventId /\ eventId + 1 \notin DOMAIN events BY <1>1
<1>3. [request |-> r, verdict |-> task[r].verdict] \in Event
  BY TaskTypes DEF AnswersFollow, RecordEvent, Event
<1> QED BY <1>2, <1>3 DEF RecordEvent, NextEventId

\* The tasks that hold a slot.
SlotHolders == {q \in Inspected : task[q].pc \in Holding}

\* The slots taken are the tasks that hold one.
LEMMA HoldersCount ==
  ASSUME AuditTypeOK, SlotsAccounted
  PROVE  /\ IsFiniteSet(SlotHolders) /\ slots = Cardinality(SlotHolders) /\ slots \in Nat
         /\ \A r \in SlotHolders : slots > 0 /\ slots - 1 \in Nat /\ Cardinality(SlotHolders \ {r}) = slots - 1
         /\ \A r \in Inspected \ SlotHolders : Cardinality(SlotHolders \cup {r}) = slots + 1
         /\ slots > 0 => SlotHolders # {}
<1>1. IsFiniteSet(SlotHolders) BY AuditSetsAssumption, FS_Subset DEF SlotHolders
<1>2. slots = Cardinality(SlotHolders) /\ slots \in Nat BY DEF SlotsAccounted, SlotHolders, AuditTypeOK
<1>3. ASSUME NEW r \in SlotHolders
      PROVE  slots > 0 /\ slots - 1 \in Nat /\ Cardinality(SlotHolders \ {r}) = slots - 1
  <2>1. IsFiniteSet(SlotHolders \ {r}) /\ Cardinality(SlotHolders \ {r}) = slots - 1 BY <1>1, <1>2, FS_RemoveElement
  <2>2. Cardinality(SlotHolders \ {r}) \in Nat BY <2>1, FS_CardinalityType
  <2> QED BY <1>2, <2>1, <2>2
<1>4. \A r \in Inspected \ SlotHolders : Cardinality(SlotHolders \cup {r}) = slots + 1 BY <1>1, <1>2, FS_AddElement
<1>5. slots > 0 => SlotHolders # {} BY <1>2, FS_EmptySet
<1> QED BY <1>1, <1>2, <1>3, <1>4, <1>5

\* A task's step keeps the types, ...
LEMMA TaskTyped ==
  ASSUME AuditTypeOK, WaitersWait, AnswersFollow, SlotsAccounted, NEW r \in Inspected, TaskStep(r)
  PROVE  AuditTypeOK'
<1>1. task' \in [Inspected -> TaskState] /\ UNCHANGED <<admin, erase>> BY TaskSteps
<1>2. /\ config' \in AuditConfigs /\ version' \in Nat
      /\ saving' \in [Auditors -> [open : BOOLEAN, base : Nat]]
      /\ preview' \in PreviewState
      /\ deleting' \in [preview : PreviewState, jobs : SUBSET Inspected]
  BY <1>1 DEF AuditTypeOK, admin, erase
<1>3. auditJob' \in [Inspected -> Waiting \cup {"none", "done", "failed"}]
  BY DEF AuditTypeOK, TaskStep, LoadAuditConfig, CountQueue, InsertJob, TakeSlot, ParkTask, ClaimJob, ScanPrompt,
         RecordEvent, MarkDone, MarkFailed, SetStatus, Waiting
<1>4. \A n \in Nat : n > 0 => n - 1 \in Nat OBVIOUS
<1>5. budget' \in [saves : Nat, deletes : Nat, restarts : Nat, faults : Nat]
  <2>1. budget \in [saves : Nat, deletes : Nat, restarts : Nat, faults : Nat] BY DEF AuditTypeOK
  <2>2. CASE StatementRefused BY <1>4, <2>1, <2>2 DEF StatementRefused, AuditSpend
  <2>3. CASE UNCHANGED budget BY <2>1, <2>3
  <2> QED BY <2>2, <2>3 DEF TaskStep, LoadAuditConfig, CountQueue, InsertJob, TakeSlot, ParkTask, ClaimJob, ScanPrompt,
         RecordEvent, MarkDone, MarkFailed
<1>6. /\ DOMAIN events' \subseteq 1 .. eventId' /\ \A i \in DOMAIN events' : events'[i] \in Event
      /\ eventId' \in Nat /\ recorded' \subseteq Inspected
  <2>1. eventId \in Nat /\ DOMAIN events \subseteq 1 .. eventId /\ \A i \in DOMAIN events : events[i] \in Event
    BY DEF AuditTypeOK
  <2>2. eventId + 1 \in Nat /\ 1 .. eventId \cup {eventId + 1} \subseteq 1 .. (eventId + 1) BY <2>1
  <2>3. CASE RecordEvent(r) BY ZenonT(60), <2>1, <2>2, <2>3, EventsGrow DEF trail, AuditTypeOK
  <2>4. CASE UNCHANGED trail BY <2>1, <2>4 DEF trail, AuditTypeOK
  <2> QED BY <2>3, <2>4 DEF TaskStep, LoadAuditConfig, CountQueue, InsertJob, TakeSlot, ParkTask, ClaimJob, ScanPrompt,
         MarkDone, MarkFailed
<1>7. slots' \in Nat /\ parked' \in Seq(Inspected) /\ spare' \in BOOLEAN
  <2>1. slots \in Nat /\ parked \in Seq(Inspected) /\ spare \in BOOLEAN BY DEF AuditTypeOK
  <2>2. ASSUME NEW a \in {"passed", "blocked", "unavailable"}, Finish(r, a), task[r].pc \in Holding
        PROVE  slots' \in Nat /\ parked' \in Seq(Inspected) /\ spare' \in BOOLEAN
    <3>1. slots' = slots - 1 /\ Wakes(r) BY <2>2, FinishIs
    <3>2. r \in SlotHolders BY <2>2 DEF SlotHolders
    <3>3. slots' \in Nat BY <2>1, <3>1, <3>2, HoldersCount
    <3>4. parked # <<>> => Tail(parked) \in Seq(Inspected) BY <2>1
    <3> QED BY <2>1, <3>1, <3>3, <3>4 DEF Wakes
  <2>3. CASE ClaimJob(r) BY <2>1, <2>2, <2>3 DEF ClaimJob, Holding
  <2>4. CASE MarkDone(r) BY <2>1, <2>2, <2>4 DEF MarkDone, Holding
  <2>5. CASE MarkFailed(r) BY <2>1, <2>2, <2>5 DEF MarkFailed, Holding
  <2>6. Append(parked, r) \in Seq(Inspected) BY <2>1
  <2>7. CASE ParkTask(r) BY <2>1, <2>6, <2>7 DEF ParkTask
  <2>8. CASE TakeSlot(r) BY <2>1, <2>8 DEF TakeSlot
  <2>9. CASE UNCHANGED <<slots, parked, spare>> BY <2>1, <2>9
  <2> QED BY <2>3, <2>4, <2>5, <2>7, <2>8, <2>9 DEF TaskStep, LoadAuditConfig, CountQueue, InsertJob, ScanPrompt,
         RecordEvent
<1> QED BY <1>1, <1>2, <1>3, <1>5, <1>6, <1>7 DEF AuditTypeOK

\* ... and so does a restart or an administrator.
OperatorStep ==
  \/ \E x \in Auditors : ReadConfig(x) \/ \E c \in AuditConfigs : SaveConfig(x, c)
  \/ \E i \in DOMAIN events : DeleteEvents({i})
  \/ \E filter \in DeleteFilters : DeletePreview(filter)
  \/ PreviewExpires \/ FindJobs \/ DeleteByFilter

\* What is erased is gone, and its jobs with it.
LEMMA EraseIs ==
  ASSUME AuditTypeOK, NEW ids, NEW jobs, EraseEvents(ids, jobs)
  PROVE  /\ DOMAIN events' = DOMAIN events \ ids /\ \A i \in DOMAIN events' : events'[i] = events[i]
         /\ auditJob' \in [Inspected -> Waiting \cup {"none", "done", "failed"}]
         /\ \A r \in Inspected : auditJob'[r] \in {"none", auditJob[r]}
         /\ UNCHANGED <<eventId, recorded>>
  BY DEF EraseEvents, AuditTypeOK

\* The greatest id of a preview is an event's.
LEMMA PreviewIs ==
  ASSUME AuditTypeOK, NEW filter \in DeleteFilters, DeletePreview(filter)
  PROVE  /\ preview' \in PreviewState /\ preview'.max <= eventId /\ preview'.filter = filter /\ preview'.open
         /\ preview'.shown = JobsOf(Matching(filter, eventId))
<1> DEFINE M == Matching(filter, eventId)
           m == IF M = {} THEN 0 ELSE CHOOSE i \in M : \A j \in M : i >= j
<1>1. M \subseteq 1 .. eventId /\ eventId \in Nat /\ M \subseteq DOMAIN events BY DEF Matching, AuditTypeOK
<1>2. m \in Nat /\ m <= eventId
  <2>1. CASE M = {} BY <1>1, <2>1
  <2>2. CASE M # {}
    <3>1. M \in SUBSET Nat /\ IsFiniteSet(M)
      <4>1. IsFiniteSet(1 .. eventId) BY <1>1, FS_Interval
      <4> QED BY <1>1, <4>1, FS_Subset
    <3> HIDE DEF M
    <3>2. \E i \in M : \A j \in M : j <= i BY <2>2, <3>1, GreatestOf
    <3>3. \E i \in M : \A j \in M : i >= j BY <3>1, <3>2
    <3>4. m \in M BY <2>2, <3>3
    <3>5. m \in 1 .. eventId /\ eventId \in Nat BY <1>1, <3>4
    <3> HIDE DEF m
    <3> QED BY <3>5
  <2> QED BY <2>1, <2>2
<1>3. JobsOf(M) \in SUBSET Inspected BY <1>1 DEF JobsOf, AuditTypeOK, Event
<1>4. filter \in SUBSET Verdicts BY DEF DeleteFilters
<1>5. preview' = [open |-> TRUE, filter |-> filter, max |-> m, shown |-> JobsOf(M)] BY DEF DeletePreview
<1> HIDE DEF M, m
<1>6. preview' \in PreviewState /\ preview'.max = m /\ preview'.filter = filter /\ preview'.open
      /\ preview'.shown = JobsOf(M)
  BY <1>2, <1>3, <1>4, <1>5 DEF PreviewState
<1> QED BY <1>2, <1>6 DEF M

\* The steps of administrators and restarts keep the types.
LEMMA AdminTyped ==
  ASSUME AuditTypeOK, OperatorStep \/ RestartAudit
  PROVE  AuditTypeOK'
<1> USE DEF queue, trail, admin, erase, AuditTypeOK
<1>1. \A n \in Nat : n > 0 => n - 1 \in Nat OBVIOUS
<1>2. NoPreview \in PreviewState BY DEF NoPreview, PreviewState
<1>3. NoDeletion \in [preview : PreviewState, jobs : SUBSET Inspected] BY <1>2 DEF NoDeletion
<1>4. ASSUME NEW what \in {"saves", "deletes", "restarts", "faults"}, AuditSpend(what)
      PROVE  budget' \in [saves : Nat, deletes : Nat, restarts : Nat, faults : Nat]
  BY <1>1, <1>4 DEF AuditSpend
<1>5. CASE RestartAudit
  <2>1. budget' \in [saves : Nat, deletes : Nat, restarts : Nat, faults : Nat] BY <1>4, <1>5 DEF RestartAudit
  <2>2. task' \in [Inspected -> TaskState]
    <3>1. ASSUME NEW r \in Inspected PROVE [task[r] EXCEPT !.pc = "gone"] \in TaskState
      <4>1. task[r] \in TaskState OBVIOUS
      <4> QED BY <4>1 DEF TaskState
    <3> QED BY <1>5, <3>1 DEF RestartAudit
  <2>3. auditJob' \in [Inspected -> Waiting \cup {"none", "done", "failed"}] BY <1>5 DEF RestartAudit
  <2>4. parked' \in Seq(Inspected) /\ slots' \in Nat /\ spare' \in BOOLEAN
    <3>1. parked' = <<>> /\ slots' = 0 /\ spare' = FALSE BY <1>5 DEF RestartAudit
    <3>2. <<>> \in Seq(Inspected) /\ 0 \in Nat OBVIOUS
    <3> QED BY <3>1, <3>2
  <2>5. saving' \in [Auditors -> [open : BOOLEAN, base : Nat]] BY <1>5 DEF RestartAudit
  <2> QED BY <1>3, <1>5, <2>1, <2>2, <2>3, <2>4, <2>5 DEF RestartAudit
<1>6. ASSUME NEW x \in Auditors, ReadConfig(x) PROVE AuditTypeOK' BY <1>6 DEF ReadConfig
<1>7. ASSUME NEW x \in Auditors, NEW c \in AuditConfigs, SaveConfig(x, c) PROVE AuditTypeOK'
  <2>1. budget' \in [saves : Nat, deletes : Nat, restarts : Nat, faults : Nat] BY <1>4, <1>7 DEF SaveConfig
  <2>2. saving' \in [Auditors -> [open : BOOLEAN, base : Nat]] BY <1>7 DEF SaveConfig
  <2>3. version' \in Nat BY <1>7 DEF SaveConfig
  <2> QED BY <1>7, <2>1, <2>2, <2>3 DEF SaveConfig
<1>8. ASSUME NEW ids, NEW jobs, EraseEvents(ids, jobs)
      PROVE  /\ DOMAIN events' \subseteq 1 .. eventId' /\ \A i \in DOMAIN events' : events'[i] \in Event
             /\ eventId' \in Nat /\ recorded' \subseteq Inspected
             /\ auditJob' \in [Inspected -> Waiting \cup {"none", "done", "failed"}]
  BY <1>8, EraseIs
<1>9. ASSUME NEW i \in DOMAIN events, DeleteEvents({i}) PROVE AuditTypeOK' BY <1>4, <1>9, <1>8 DEF DeleteEvents
<1>10. ASSUME NEW filter \in DeleteFilters, DeletePreview(filter) PROVE AuditTypeOK'
  BY <1>4, <1>10, PreviewIs DEF DeletePreview
<1>11. CASE PreviewExpires BY <1>2, <1>11 DEF PreviewExpires
<1>12. CASE FindJobs BY <1>12 DEF JobsOf, Matching, Event, FindJobs
<1>13. CASE DeleteByFilter BY <1>13, <1>2, <1>3, <1>8 DEF DeleteByFilter
<1> QED BY <1>5, <1>6, <1>7, <1>9, <1>10, <1>11, <1>12, <1>13 DEF OperatorStep

-----------------------------------------------------------------------------
(*                                Answers                                  *)

AnswerOK(r) ==
  /\ task[r].pc \in {"new", "loaded"} => task[r].answer = "none"
  /\ task[r].pc \in {"event", "mark"} => task[r].verdict # "none"
  /\ task[r].pc = "mark" /\ task[r].verdict # "Allow" => r \in recorded
  /\ task[r].config.blocking /\ task[r].pc # "end" => task[r].answer = "none"
  /\ task[r].config.blocking =>
       /\ task[r].answer = "passed" => task[r].verdict \in {"Allow", "Warn"}
       /\ task[r].answer = "blocked" => task[r].verdict = "Block" /\ r \in recorded

\* What is said of the answers is said of each request.
LEMMA AnswersAre == AnswersFollow /\ FailsClosed <=> \A r \in Inspected : AnswerOK(r)
  BY DEF AnswersFollow, FailsClosed, AnswerOK

\* A task that only moves keeps its answer.
LEMMA AnswerStays ==
  ASSUME NEW q \in Inspected, AnswerOK(q), recorded \subseteq recorded',
         task'[q].config = task[q].config, task'[q].verdict = task[q].verdict, task'[q].answer = task[q].answer,
         \/ task'[q].pc = task[q].pc
         \/ task[q].pc # "end" /\ task'[q].pc \notin {"new", "loaded", "event", "mark", "end"}
  PROVE  AnswerOK(q)'
  BY DEF AnswerOK

\* A waiter that is woken keeps its answer, and so does every other task.
LEMMA AnswersWoken ==
  ASSUME AuditTypeOK, \A q \in Inspected : AnswerOK(q), recorded' = recorded,
         NEW r \in Inspected, Wakes(r), AnswerOK(r)'
  PROVE  \A q \in Inspected : AnswerOK(q)'
<1> SUFFICES ASSUME NEW q \in Inspected, q # r PROVE AnswerOK(q)' OBVIOUS
<1>1. CASE task'[q] = task[q] BY <1>1, AnswerStays
<1>2. CASE task[q].pc = "parked" /\ task'[q] = [task[q] EXCEPT !.pc = "check"]
  <2>1. task[q] \in TaskState BY DEF AuditTypeOK
  <2>2. /\ task'[q].pc = "check" /\ task'[q].config = task[q].config /\ task'[q].verdict = task[q].verdict
        /\ task'[q].answer = task[q].answer
    BY <1>2, <2>1 DEF TaskState
  <2> QED BY <1>2, <2>2, AnswerStays
<1> QED BY <1>1, <1>2 DEF Wakes

\* A task's own step.
LEMMA AnswersKept ==
  ASSUME AuditTypeOK, WaitersWait, AnswersFollow, FailsClosed, NEW r \in Inspected, TaskStep(r)
  PROVE  AnswersFollow' /\ FailsClosed'
<1> SUFFICES \A q \in Inspected : AnswerOK(q)' BY DEF AnswersFollow, FailsClosed, AnswerOK
<1>1. \A q \in Inspected : AnswerOK(q) BY AnswersAre
<1>2. recorded \subseteq recorded' BY TaskSteps
<1>3. task \in [Inspected -> TaskState] /\ task[r] \in TaskState BY DEF AuditTypeOK
<1>4. ASSUME \A q \in Inspected : q # r => task'[q] = task[q], AnswerOK(r)' PROVE \A q \in Inspected : AnswerOK(q)'
  BY <1>1, <1>2, <1>4, AnswerStays
<1>5. ASSUME NEW a \in {"passed", "blocked", "unavailable"}, Finish(r, a), task[r].pc \in Holding,
             task[r].answer = "none" \/ ~task[r].config.blocking,
             a = "passed" => task[r].verdict \in {"Allow", "Warn"} \/ ~task[r].config.blocking,
             a = "blocked" => task[r].verdict = "Block" /\ r \in recorded, recorded' = recorded
      PROVE  \A q \in Inspected : AnswerOK(q)'
  <2>1. Wakes(r) /\ task'[r] = [task[r] EXCEPT !.pc = "end", !.answer = IF @ = "none" THEN a ELSE @]
    BY <1>5, FinishIs
  <2>2. /\ task'[r].pc = "end" /\ task'[r].config = task[r].config /\ task'[r].verdict = task[r].verdict
        /\ task'[r].answer = IF task[r].answer = "none" THEN a ELSE task[r].answer
    BY <1>3, <2>1 DEF TaskState
  <2>3. AnswerOK(r) BY <1>1
  <2>4. AnswerOK(r)' BY <1>5, <2>2, <2>3 DEF AnswerOK
  <2> QED BY SMTT(30), <1>1, <1>5, <2>1, <2>4, AnswersWoken
<1>6. ASSUME NEW pc, TaskMoves(r, pc), recorded' = recorded \/ recorded' = recorded \cup {r}
      PROVE  /\ \A q \in Inspected : q # r => task'[q] = task[q]
             /\ task'[r].pc = pc /\ task'[r].config = task[r].config /\ task'[r].verdict = task[r].verdict
             /\ task'[r].answer = task[r].answer
  BY <1>3, <1>6 DEF TaskMoves, TaskState
<1>7. AnswerOK(r) BY <1>1
<1>8. task[r].pc \in Holding => task[r].answer = "none" \/ ~task[r].config.blocking BY <1>7 DEF AnswerOK, Holding
<1>9. CASE LoadAuditConfig(r) BY <1>3, <1>9, <1>4, <1>7 DEF LoadAuditConfig, TaskState, AnswerOK
<1>10. CASE CountQueue(r)
  <2>1. CASE QueueFull(task[r].config) BY <1>3, <1>10, <2>1, <1>4 DEF CountQueue, Answered, TaskState, AnswerOK
  <2>2. CASE ~QueueFull(task[r].config)
    <3>1. /\ \A q \in Inspected : q # r => task'[q] = task[q]
          /\ task'[r].pc = "counted" /\ task'[r].config = task[r].config /\ task'[r].answer = task[r].answer
          /\ task'[r].verdict = task[r].verdict
      BY <1>3, <1>10, <2>2 DEF CountQueue, TaskState
    <3> QED BY <1>2, <1>4, <1>7, <1>10, <3>1 DEF CountQueue, AnswerOK
  <2> QED BY <2>1, <2>2
<1>11. CASE InsertJob(r)
  <2>1. /\ task'[r].pc = "check" /\ task'[r].config = task[r].config /\ task'[r].verdict = task[r].verdict
        /\ task'[r].answer = IF task[r].config.blocking THEN "none" ELSE "passed"
    BY <1>3, <1>11 DEF InsertJob, TaskState
  <2>2. AnswerOK(r)' BY <2>1 DEF AnswerOK
  <2>3. ASSUME NEW q \in Inspected, q # r PROVE AnswerOK(q)'
    <3>1. task[q] \in TaskState BY <1>3
    <3>2. /\ task'[q].pc = task[q].pc /\ task'[q].config = task[q].config /\ task'[q].verdict = task[q].verdict
          /\ task'[q].answer = task[q].answer
      BY <1>11, <2>3, <3>1 DEF InsertJob, TaskState
    <3> QED BY <1>1, <1>2, <3>2, AnswerStays
  <2> QED BY <2>2, <2>3
<1>12. CASE TakeSlot(r)
  <2>1. PICK pc \in {"claim", "park"} : TaskMoves(r, pc) BY <1>12 DEF TakeSlot
  <2> QED BY <1>2, <1>4, <1>6, <1>7, <1>12, <2>1, AnswerStays DEF TakeSlot, trail
<1>13. CASE ParkTask(r)
  <2>1. PICK pc \in {"check", "parked"} : TaskMoves(r, pc) BY <1>13 DEF ParkTask
  <2> QED BY <1>2, <1>4, <1>6, <1>7, <1>13, <2>1, AnswerStays DEF ParkTask, trail
<1>14. CASE ClaimJob(r)
  <2>1. CASE Finish(r, "unavailable") BY <1>5, <1>8, <1>14, <2>1 DEF ClaimJob, Holding, trail
  <2>2. CASE TaskMoves(r, "scan") BY <1>2, <1>4, <1>6, <1>7, <1>14, <2>2, AnswerStays DEF ClaimJob, trail
  <2> QED BY <1>14, <2>1, <2>2 DEF ClaimJob
<1>15. CASE ScanPrompt(r)
  <2>1. CASE TaskMoves(r, "fail") BY <1>2, <1>4, <1>6, <1>7, <1>15, <2>1, AnswerStays DEF ScanPrompt, trail
  <2>2. ASSUME NEW v \in Verdicts,
               task' = [task EXCEPT ![r].verdict = v,
                          ![r].pc = IF v # "Allow" \/ task[r].config.store THEN "event" ELSE "mark"]
        PROVE  \A q \in Inspected : AnswerOK(q)'
    BY <1>3, <2>2, <1>15, <1>7, <1>4 DEF TaskState, Verdicts, ScanPrompt, AnswerOK
  <2> QED BY <1>15, <2>1, <2>2 DEF ScanPrompt
<1>16. CASE RecordEvent(r)
  <2>1. CASE recorded' = recorded \cup {r} /\ TaskMoves(r, "mark")
    BY <1>2, <1>4, <1>6, <1>7, <1>16, <2>1 DEF RecordEvent, AnswerOK
  <2>2. CASE UNCHANGED trail /\ TaskMoves(r, "fail")
    BY <1>2, <1>4, <1>6, <1>7, <1>16, <2>2, AnswerStays DEF RecordEvent, trail
  <2> QED BY <1>16, <2>1, <2>2 DEF RecordEvent
<1>17. CASE MarkDone(r)
  <2>1. CASE Finish(r, IF task[r].verdict = "Block" THEN "blocked" ELSE "passed")
    <3>1. task[r].verdict \in Verdicts BY <1>3, <1>7, <1>17 DEF MarkDone, AnswerOK, TaskState
    <3>2. task[r].verdict = "Block" => r \in recorded BY <1>7, <1>17 DEF MarkDone, AnswerOK
    <3> QED BY <1>5, <1>8, <1>17, <2>1, <3>1, <3>2 DEF MarkDone, Holding, trail, Verdicts
  <2>2. CASE TaskMoves(r, "fail") BY <1>2, <1>4, <1>6, <1>7, <1>17, <2>2, AnswerStays DEF MarkDone, trail
  <2> QED BY <1>17, <2>1, <2>2 DEF MarkDone
<1>18. CASE MarkFailed(r) BY <1>5, <1>8, <1>18 DEF MarkFailed, Holding, trail
<1> QED
  BY <1>9, <1>10, <1>11, <1>12, <1>13, <1>14, <1>15, <1>16, <1>17, <1>18 DEF TaskStep

\* Nobody is answered by an administrator or by a restart.
LEMMA AnswersStay ==
  ASSUME AuditTypeOK, AnswersFollow, FailsClosed, OperatorStep \/ RestartAudit
  PROVE  AnswersFollow' /\ FailsClosed'
<1> SUFFICES ASSUME NEW q \in Inspected PROVE AnswerOK(q)' BY DEF AnswersFollow, FailsClosed, AnswerOK
<1>1. AnswerOK(q) BY AnswersAre
<1>2. CASE OperatorStep
  <2>1. task' = task /\ recorded' = recorded
    BY <1>2 DEF OperatorStep, ReadConfig, SaveConfig, DeleteEvents, DeletePreview, PreviewExpires, FindJobs,
         DeleteByFilter, EraseEvents, queue, trail
  <2> QED BY <1>1, <2>1, AnswerStays
<1>3. CASE RestartAudit BY <1>3, <1>1, AnswerStays DEF RestartAudit, trail, AuditTypeOK, TaskState
<1> QED BY <1>2, <1>3

-----------------------------------------------------------------------------
(*                           Slots and wake-ups                            *)

\* Steps that neither take nor give a slot, and after which the same tasks wait.
Quiet ==
  /\ UNCHANGED <<slots, parked, spare>>
  /\ \A q \in Inspected :
       /\ task'[q].pc \in Holding <=> task[q].pc \in Holding
       /\ task'[q].pc = "park" <=> task[q].pc = "park"
       /\ task'[q].pc = "parked" <=> task[q].pc = "parked"
       /\ task[q].pc = "check" => task'[q].pc = "check"

QueueOK == SlotsAccounted /\ WaitersWait /\ SomeoneWakes

\* Such a step keeps what is said of slots and waiters.
LEMMA QuietKeeps == AuditTypeOK /\ QueueOK /\ Quiet => QueueOK'
<1> SUFFICES ASSUME AuditTypeOK, QueueOK, Quiet PROVE QueueOK' OBVIOUS
<1>1. SlotHolders' = SlotHolders BY DEF Quiet, SlotHolders
<1>2. SlotsAccounted' BY <1>1 DEF SlotsAccounted, QueueOK, Quiet, SlotHolders
<1>3. \A i \in DOMAIN parked : parked[i] \in Inspected BY DEF AuditTypeOK
<1>4. WaitersWait' BY <1>3 DEF WaitersWait, QueueOK, Quiet
<1>5. SomeoneWakes' BY DEF SomeoneWakes, Quiet, QueueOK
<1> QED BY <1>2, <1>4, <1>5 DEF QueueOK

\* A task's step is quiet, or takes a slot, waits, or ends.
LEMMA TaskStepKinds ==
  ASSUME AuditTypeOK, NEW r \in Inspected, TaskStep(r)
  PROVE  \/ Quiet \/ TakeSlot(r) \/ ParkTask(r)
         \/ /\ task[r].pc \in Holding
            /\ \E a \in {"passed", "blocked", "unavailable"} : Finish(r, a)
<1>1. task \in [Inspected -> TaskState] /\ task[r] \in TaskState BY DEF AuditTypeOK
<1>2. ASSUME NEW pc, TaskMoves(r, pc)
      PROVE  task'[r].pc = pc /\ \A q \in Inspected : q # r => task'[q] = task[q]
  BY <1>1, <1>2 DEF TaskMoves, TaskState
<1>3. ASSUME \A q \in Inspected : q # r => task'[q].pc = task[q].pc, UNCHANGED <<slots, parked, spare>>,
             \/ task[r].pc \in Holding /\ task'[r].pc \in Holding
             \/ task[r].pc \in {"new", "loaded", "counted"} /\ task'[r].pc \in {"loaded", "counted", "check", "end"}
      PROVE  Quiet
  BY <1>3 DEF Quiet, Holding
<1>4. CASE LoadAuditConfig(r) BY <1>1, <1>4, <1>3 DEF LoadAuditConfig, TaskState
<1>5. CASE CountQueue(r) BY <1>1, <1>5, <1>3 DEF CountQueue, Answered, TaskState
<1>6. CASE InsertJob(r)
  <2>1. task'[r].pc = "check" BY <1>1, <1>6 DEF InsertJob, TaskState
  <2>2. ASSUME NEW q \in Inspected, q # r PROVE task'[q].pc = task[q].pc BY <1>1, <1>6, <2>2 DEF InsertJob, TaskState
  <2> QED BY <1>3, <1>6, <2>1, <2>2 DEF InsertJob
<1>7. CASE ClaimJob(r) BY <1>2, <1>3, <1>7 DEF ClaimJob, Holding
<1>8. CASE ScanPrompt(r)
  <2>1. task'[r].pc \in {"event", "mark", "fail"} /\ \A q \in Inspected : q # r => task'[q] = task[q]
    <3>1. CASE TaskMoves(r, "fail") BY <1>2, <3>1
    <3>2. ASSUME NEW v \in Verdicts, NEW pc \in {"event", "mark"},
                 task' = [task EXCEPT ![r].verdict = v, ![r].pc = pc]
          PROVE  task'[r].pc = pc /\ \A q \in Inspected : q # r => task'[q] = task[q]
      BY <1>1, <3>2 DEF TaskState
    <3>3. ASSUME NEW v \in Verdicts,
                 task' = [task EXCEPT ![r].verdict = v,
                            ![r].pc = IF v # "Allow" \/ task[r].config.store THEN "event" ELSE "mark"]
          PROVE  task'[r].pc \in {"event", "mark"} /\ \A q \in Inspected : q # r => task'[q] = task[q]
      BY <3>2, <3>3
    <3> QED BY <1>8, <3>1, <3>3 DEF ScanPrompt
  <2> QED BY <1>3, <1>8, <2>1 DEF ScanPrompt, Holding
<1>9. CASE RecordEvent(r) BY <1>2, <1>3, <1>9 DEF RecordEvent, Holding
<1>10. CASE MarkDone(r) BY <1>2, <1>3, <1>10 DEF MarkDone, Holding
<1>11. CASE MarkFailed(r) BY <1>11 DEF MarkFailed, Holding
<1> QED BY <1>4, <1>5, <1>6, <1>7, <1>8, <1>9, <1>10, <1>11 DEF TaskStep

\* Taking a slot, or finding none.
LEMMA TakeKeeps ==
  ASSUME AuditTypeOK, QueueOK, NEW r \in Inspected, TakeSlot(r)
  PROVE  QueueOK'
<1>1. task \in [Inspected -> TaskState] /\ task[r].pc = "check" /\ UNCHANGED <<parked, spare>>
  BY DEF AuditTypeOK, TakeSlot
<1>2. \A q \in Inspected : q # r => task'[q] = task[q] BY <1>1 DEF TakeSlot, TaskMoves
<1>3. \A i \in DOMAIN parked : parked[i] \in Inspected /\ parked[i] # r BY <1>1 DEF AuditTypeOK, QueueOK, WaitersWait
<1>4. r \notin SlotHolders BY <1>1 DEF SlotHolders, Holding
<1>5. slots \in Nat /\ task[r].config \in AuditConfigs /\ task[r].config.workers \in Nat \ {0}
  BY TaskTypes DEF AuditTypeOK
<1>6. CASE SlotFree(r)
  <2>1. task'[r].pc = "claim" /\ slots' = slots + 1 BY <1>1, <1>6 DEF TakeSlot, TaskMoves, TaskState
  <2>2. SlotHolders' = SlotHolders \cup {r} BY <1>2, <2>1 DEF SlotHolders, Holding
  <2>3. slots' = Cardinality(SlotHolders') BY <1>4, <2>1, <2>2, HoldersCount DEF QueueOK
  <2>4. slots' <= task[r].config.workers BY <1>5, <1>6, <2>1 DEF SlotFree
  <2>5. SlotsAccounted' BY <1>5, <2>3, <2>4 DEF SlotsAccounted, SlotHolders
  <2>6. WaitersWait' BY <1>1, <1>2, <1>3, <2>1 DEF QueueOK, WaitersWait
  <2>7. SomeoneWakes' BY <2>1 DEF SomeoneWakes, Holding
  <2> QED BY <2>5, <2>6, <2>7 DEF QueueOK
<1>7. CASE ~SlotFree(r)
  <2>1. task'[r].pc = "park" /\ slots' = slots BY <1>1, <1>7 DEF TakeSlot, TaskMoves, TaskState
  <2>2. SlotHolders' = SlotHolders BY <1>1, <1>2, <2>1 DEF SlotHolders, Holding
  <2>3. SlotsAccounted' BY <2>1, <2>2 DEF SlotsAccounted, SlotHolders, QueueOK
  <2>4. slots > 0 BY <1>5, <1>7 DEF SlotFree
  <2>5. PICK q \in SlotHolders : TRUE BY <2>4, HoldersCount DEF QueueOK
  <2>6. task'[q].pc \in Holding /\ q \in Inspected BY <1>2, <1>4, <2>5 DEF SlotHolders
  <2>7. SomeoneWakes' BY <2>6 DEF SomeoneWakes
  <2>8. WaitersWait' BY <1>1, <1>2, <1>3, <2>1 DEF QueueOK, WaitersWait
  <2> QED BY <2>3, <2>7, <2>8 DEF QueueOK
<1> QED BY <1>6, <1>7

\* Waiting, or using the permit that is there.
LEMMA ParkKeeps ==
  ASSUME AuditTypeOK, QueueOK, NEW r \in Inspected, ParkTask(r)
  PROVE  QueueOK'
<1>1. task \in [Inspected -> TaskState] /\ task[r].pc = "park" /\ slots' = slots /\ parked \in Seq(Inspected)
  BY DEF AuditTypeOK, ParkTask
<1>2. \A q \in Inspected : q # r => task'[q] = task[q] BY <1>1 DEF ParkTask, TaskMoves
<1>3. \A i \in DOMAIN parked : parked[i] \in Inspected /\ parked[i] # r BY <1>1 DEF QueueOK, WaitersWait
<1>4. task'[r].pc \in {"check", "parked"} BY <1>1 DEF ParkTask, TaskMoves, TaskState
<1>5. SlotHolders' = SlotHolders BY <1>1, <1>2, <1>4 DEF SlotHolders, Holding
<1>6. SlotsAccounted' BY <1>1, <1>5 DEF SlotsAccounted, SlotHolders, QueueOK
<1>7. CASE spare BY <1>1, <1>7, <1>2, <1>3, <1>6 DEF ParkTask, TaskMoves, TaskState, QueueOK, WaitersWait, SomeoneWakes
<1>8. CASE ~spare
  <2>1. task'[r].pc = "parked" /\ parked' = Append(parked, r) BY <1>1, <1>8 DEF ParkTask, TaskMoves, TaskState
  <2>2. PICK q \in Inspected : task[q].pc \in Holding \cup {"check"} BY <1>1, <1>8 DEF QueueOK, SomeoneWakes
  <2>3. q # r BY <1>1, <2>2 DEF Holding
  <2>4. task'[q].pc \in Holding \cup {"check"} BY <1>2, <2>2, <2>3
  <2>5. SomeoneWakes' BY <2>4 DEF SomeoneWakes
  <2> DEFINE n == Len(parked)
  <2>6. n \in Nat /\ DOMAIN parked = 1 .. n /\ DOMAIN parked' = 1 .. (n + 1) /\ parked'[n + 1] = r
        /\ \A i \in 1 .. n : parked'[i] = parked[i]
    BY <1>1, <2>1
  <2> HIDE DEF n
  <2>7. \A i \in 1 .. (n + 1) : i \in 1 .. n \/ i = n + 1 BY <2>6
  <2>8. n + 1 \in 1 .. (n + 1) /\ 1 .. n \subseteq 1 .. (n + 1) BY <2>6
  <2>9. \A i \in DOMAIN parked' : task'[parked'[i]].pc = "parked"
    BY <1>2, <1>3, <2>1, <2>6, <2>7 DEF QueueOK, WaitersWait
  <2>10. \A i, j \in DOMAIN parked' : parked'[i] = parked'[j] => i = j
    BY <1>3, <2>6, <2>7 DEF QueueOK, WaitersWait
  <2>11. \A q2 \in Inspected : task'[q2].pc = "parked" => \E i \in DOMAIN parked' : parked'[i] = q2
    <3> SUFFICES ASSUME NEW q2 \in Inspected, task'[q2].pc = "parked" PROVE \E i \in DOMAIN parked' : parked'[i] = q2
      OBVIOUS
    <3>1. CASE q2 = r BY <2>6, <2>8, <3>1
    <3>2. CASE q2 # r BY <1>2, <3>2, <2>6, <2>8 DEF QueueOK, WaitersWait
    <3> QED BY <3>1, <3>2
  <2>12. WaitersWait' BY <2>9, <2>10, <2>11 DEF WaitersWait
  <2> QED BY <1>6, <2>5, <2>12 DEF QueueOK
<1> QED BY <1>7, <1>8

\* Giving the slot back.
LEMMA FinishKeeps ==
  ASSUME AuditTypeOK, QueueOK, NEW r \in Inspected, task[r].pc \in Holding,
         NEW a \in {"passed", "blocked", "unavailable"}, Finish(r, a)
  PROVE  QueueOK'
<1>1. task \in [Inspected -> TaskState] /\ task[r] \in TaskState /\ parked \in Seq(Inspected) BY DEF AuditTypeOK
<1>2. /\ Wakes(r) /\ slots' = slots - 1
      /\ task'[r] = [task[r] EXCEPT !.pc = "end", !.answer = IF @ = "none" THEN a ELSE @]
  BY FinishIs DEF QueueOK
<1>3. task'[r].pc = "end" BY <1>1, <1>2 DEF TaskState
<1>4. r \in SlotHolders BY DEF SlotHolders
<1>5. \A i \in DOMAIN parked : parked[i] \in Inspected /\ parked[i] # r BY <1>1 DEF QueueOK, WaitersWait, Holding
<1>6. ASSUME SlotHolders' = SlotHolders \ {r} PROVE SlotsAccounted'
  <2>1. slots' = Cardinality(SlotHolders') /\ slots' \in Nat /\ slots' <= slots
    BY <1>2, <1>4, <1>6, HoldersCount DEF QueueOK
  <2>2. PICK c \in AuditConfigs : slots <= c.workers BY DEF QueueOK, SlotsAccounted
  <2>3. c.workers \in Nat BY AuditConfigsAssumption DEF AuditConfig
  <2>4. slots' <= c.workers BY <2>1, <2>2, <2>3, HoldersCount DEF QueueOK
  <2> QED BY <2>1, <2>4 DEF SlotsAccounted, SlotHolders
<1>7. CASE /\ parked = <<>> /\ parked' = parked /\ spare' = TRUE
           /\ \A q \in Inspected : q # r => task'[q] = task[q]
  <2>1. SlotHolders' = SlotHolders \ {r} BY <1>3, <1>7 DEF SlotHolders, Holding
  <2>2. WaitersWait' BY <1>3, <1>5, <1>7 DEF QueueOK, WaitersWait
  <2>3. \A q \in Inspected : task'[q].pc # "parked" BY <1>7, <2>2 DEF WaitersWait
  <2>4. SomeoneWakes' BY <1>7, <2>3 DEF SomeoneWakes
  <2> QED BY <1>6, <2>1, <2>2, <2>4 DEF QueueOK
<1>8. ASSUME NEW w \in Inspected, parked # <<>>, w = Head(parked), w # r, task[w].pc = "parked",
             task'[w] = [task[w] EXCEPT !.pc = "check"],
             parked' = Tail(parked), spare' = spare,
             \A q \in Inspected : q \notin {r, w} => task'[q] = task[q]
      PROVE  QueueOK'
  <2>1. task'[w].pc = "check" BY <1>1, <1>8 DEF TaskState
  <2>2. SlotHolders' = SlotHolders \ {r} BY <1>3, <1>8, <2>1 DEF SlotHolders, Holding
  <2>3. SomeoneWakes' BY <2>1 DEF SomeoneWakes
  <2> DEFINE n == Len(parked)
  <2>4. n \in Nat /\ n > 0 /\ DOMAIN parked = 1 .. n /\ DOMAIN parked' = 1 .. (n - 1) /\ parked[1] = w
        /\ \A i \in 1 .. (n - 1) : parked'[i] = parked[i + 1]
    BY <1>1, <1>8
  <2> HIDE DEF n
  <2>5. \A i \in 1 .. (n - 1) : i + 1 \in 1 .. n /\ i + 1 # 1 BY <2>4
  <2>6. \A i \in 1 .. n : i = 1 \/ (i - 1 \in 1 .. (n - 1) /\ (i - 1) + 1 = i) BY <2>4
  <2>7. 1 \in 1 .. n BY <2>4
  <2>8. \A i \in 1 .. (n - 1) : parked'[i] # w /\ parked'[i] # r /\ parked'[i] \in Inspected
    <3> SUFFICES ASSUME NEW i \in 1 .. (n - 1)
        PROVE  parked'[i] # w /\ parked'[i] # r /\ parked'[i] \in Inspected
      OBVIOUS
    <3>1. i + 1 \in DOMAIN parked /\ 1 \in DOMAIN parked /\ i + 1 # 1 BY <2>4, <2>5, <2>7
    <3>2. parked'[i] = parked[i + 1] BY <2>4
    <3>3. parked[i + 1] # parked[1] BY <3>1 DEF QueueOK, WaitersWait
    <3> QED BY <1>5, <2>4, <3>1, <3>2, <3>3
  <2>9. \A i \in DOMAIN parked' : task'[parked'[i]].pc = "parked"
    BY <1>8, <2>4, <2>5, <2>8 DEF QueueOK, WaitersWait
  <2>10. \A i, j \in DOMAIN parked' : parked'[i] = parked'[j] => i = j BY SMTT(30), <2>4, <2>5 DEF QueueOK, WaitersWait
  <2>11. \A q \in Inspected : task'[q].pc = "parked" => \E i \in DOMAIN parked' : parked'[i] = q
    <3> SUFFICES ASSUME NEW q \in Inspected, task'[q].pc = "parked" PROVE \E i \in DOMAIN parked' : parked'[i] = q
      OBVIOUS
    <3>1. q # r /\ q # w BY <1>3, <2>1
    <3>2. PICK i \in 1 .. n : parked[i] = q BY <1>8, <2>4, <3>1 DEF QueueOK, WaitersWait
    <3>3. i # 1 BY <2>4, <3>1, <3>2
    <3>4. parked'[i - 1] = q /\ i - 1 \in 1 .. (n - 1) BY <2>4, <2>6, <3>2, <3>3
    <3> QED BY <2>4, <3>4
  <2>12. WaitersWait' BY <2>9, <2>10, <2>11 DEF WaitersWait
  <2> QED BY <1>6, <2>2, <2>3, <2>12 DEF QueueOK
<1> QED BY <1>2, <1>7, <1>8 DEF Wakes

\* So every step keeps the slots counted and the waiters awaited.
LEMMA QueueKept == AuditTypeOK /\ QueueOK /\ AuditNext => QueueOK'
<1> SUFFICES ASSUME AuditTypeOK, QueueOK, AuditNext PROVE QueueOK' OBVIOUS
<1>1. ASSUME NEW r \in Inspected, TaskStep(r) PROVE QueueOK'
  BY <1>1, TaskStepKinds, QuietKeeps, TakeKeeps, ParkKeeps, FinishKeeps
<1>2. CASE OperatorStep
  <2>1. UNCHANGED <<task, slots, parked, spare>>
    BY <1>2 DEF OperatorStep, ReadConfig, SaveConfig, DeleteEvents, DeletePreview, PreviewExpires, FindJobs,
         DeleteByFilter, queue
  <2> QED BY <2>1, QuietKeeps DEF Quiet
<1>3. CASE RestartAudit
  <2>1. slots' = 0 /\ parked' = <<>> BY <1>3 DEF RestartAudit
  <2>2. ASSUME NEW q \in Inspected PROVE task'[q].pc \in {"new", "end", "gone"}
    BY <1>3 DEF AuditTypeOK, RestartAudit, TaskState
  <2>3. SlotHolders' = {} BY <2>2 DEF SlotHolders, Holding
  <2>4. Cardinality({}) = 0 BY FS_EmptySet
  <2>5. PICK c \in AuditConfigs : c.workers \in Nat BY AuditConfigsAssumption DEF AuditConfig
  <2>6. 0 <= c.workers BY <2>5
  <2>7. SlotsAccounted' BY <2>1, <2>3, <2>4, <2>6 DEF SlotsAccounted, SlotHolders
  <2>8. DOMAIN parked' = {} BY <2>1
  <2>9. WaitersWait' BY <2>2, <2>8 DEF WaitersWait
  <2>10. SomeoneWakes' BY <2>2 DEF SomeoneWakes
  <2> QED BY <2>7, <2>9, <2>10 DEF QueueOK
<1> QED BY <1>1, <1>2, <1>3 DEF AuditNext, OperatorStep

-----------------------------------------------------------------------------
(*                    The queue's capacity, and previews                   *)

\* The queue grows only when a job is inserted.
LEMMA QueueGrows ==
  ASSUME AuditTypeOK, AuditNext, \A r \in Inspected : ~InsertJob(r)
  PROVE  \A r \in Inspected : auditJob'[r] \in Waiting => auditJob[r] \in Waiting
<1> SUFFICES ASSUME NEW q \in Inspected, auditJob'[q] \in Waiting PROVE auditJob[q] \in Waiting OBVIOUS
<1>1. auditJob \in [Inspected -> Waiting \cup {"none", "done", "failed"}] BY DEF AuditTypeOK
<1>2. ASSUME NEW ids, NEW jobs, EraseEvents(ids, jobs) PROVE auditJob[q] \in Waiting
  BY <1>2, EraseIs DEF Waiting
<1>3. ASSUME NEW r \in Inspected, NEW status \in {"done", "failed"}, SetStatus(r, status) PROVE auditJob[q] \in Waiting
  BY <1>1, <1>3 DEF SetStatus, Waiting
<1>4. CASE UNCHANGED auditJob BY <1>4
<1>5. ASSUME NEW r \in Inspected, TaskStep(r) PROVE auditJob[q] \in Waiting
  <2>1. CASE ClaimJob(r) BY <1>1, <2>1 DEF ClaimJob, Waiting
  <2>2. CASE MarkDone(r) BY <1>3, <1>4, <2>2 DEF MarkDone
  <2>3. CASE MarkFailed(r) BY <1>3, <1>4, <2>3 DEF MarkFailed
  <2> QED BY <1>4, <1>5, <2>1, <2>2, <2>3
    DEF TaskStep, LoadAuditConfig, CountQueue, TakeSlot, ParkTask, ScanPrompt, RecordEvent
<1>6. CASE RestartAudit BY <1>1, <1>6 DEF RestartAudit, ActiveJobs, Waiting
<1>7. CASE OperatorStep BY <1>2, <1>4, <1>7 DEF OperatorStep, ReadConfig, SaveConfig, DeleteEvents, DeletePreview,
       PreviewExpires, FindJobs, DeleteByFilter, queue
<1> QED BY <1>5, <1>6, <1>7 DEF AuditNext, OperatorStep

\* A request that has counted has just done so, or has been there all the time.
LEMMA CountedIs ==
  ASSUME AuditTypeOK, WaitersWait, AuditNext, NEW q \in Inspected, task'[q].pc = "counted", ~task'[q].raced
  PROVE  \/ CountQueue(q) /\ ~QueueFull(task[q].config) /\ task'[q].config = task[q].config
         \/ /\ task[q].pc = "counted" /\ ~task[q].raced /\ task'[q].config = task[q].config
            /\ \A r \in Inspected : ~InsertJob(r)
<1> DEFINE Goal == \/ CountQueue(q) /\ ~QueueFull(task[q].config) /\ task'[q].config = task[q].config
                   \/ /\ task[q].pc = "counted" /\ ~task[q].raced /\ task'[q].config = task[q].config
                      /\ \A r \in Inspected : ~InsertJob(r)
<1>1. task \in [Inspected -> TaskState] /\ task[q] \in TaskState BY DEF AuditTypeOK
<1>2. ASSUME NEW r \in Inspected, InsertJob(r) PROVE FALSE BY <1>1, <1>2 DEF InsertJob, TaskState
<1>3. CASE task'[q] = task[q] BY <1>2, <1>3
<1>4. ASSUME NEW r \in Inspected, TaskStep(r) PROVE Goal
  <2>1. ASSUME NEW pc, TaskMoves(r, pc), pc # "counted" PROVE task'[q] = task[q]
    BY <1>1, <2>1 DEF TaskMoves, TaskState
  <2>2. ASSUME NEW a \in {"passed", "blocked", "unavailable"}, Finish(r, a), task[r].pc \in Holding
        PROVE  task'[q] = task[q]
    <3>1. Wakes(r) /\ task'[r] = [task[r] EXCEPT !.pc = "end", !.answer = IF @ = "none" THEN a ELSE @]
      BY <2>2, FinishIs
    <3>2. task[r] \in TaskState BY <1>1
    <3>3. task'[r].pc = "end" BY <3>1, <3>2 DEF TaskState
    <3>4. ASSUME NEW w \in Inspected, task'[w] = [task[w] EXCEPT !.pc = "check"] PROVE w # q BY <1>1, <3>4 DEF TaskState
    <3> QED BY <3>1, <3>3, <3>4 DEF Wakes
  <2>3. CASE LoadAuditConfig(r) BY <1>1, <2>3, <1>3 DEF LoadAuditConfig, TaskState
  <2>4. CASE CountQueue(r)
    <3>1. CASE r # q BY <1>1, <2>4, <3>1, <1>3 DEF CountQueue, Answered
    <3>2. CASE r = q /\ QueueFull(task[q].config)
      BY <1>1, <2>4, <3>2 DEF CountQueue, Answered, TaskState
    <3>3. CASE r = q /\ ~QueueFull(task[q].config) BY <1>1, <2>4, <3>3 DEF CountQueue, TaskState
    <3> QED BY <3>1, <3>2, <3>3
  <2>5. CASE TakeSlot(r) BY <1>3, <2>1, <2>5 DEF TakeSlot
  <2>6. CASE ParkTask(r) BY <1>3, <2>1, <2>6 DEF ParkTask
  <2>7. CASE ClaimJob(r) BY <1>3, <2>1, <2>2, <2>7 DEF ClaimJob, Holding
  <2>8. CASE ScanPrompt(r)
    <3>1. CASE TaskMoves(r, "fail") BY <1>3, <2>1, <3>1
    <3>2. ASSUME NEW v \in Verdicts, NEW pc \in {"event", "mark"},
                 task' = [task EXCEPT ![r].verdict = v, ![r].pc = pc]
          PROVE  Goal
      <4>1. task' = [task EXCEPT ![r] = [[task[r] EXCEPT !.verdict = v] EXCEPT !.pc = pc]] BY <1>1, <3>2
      <4>2. [[task[r] EXCEPT !.verdict = v] EXCEPT !.pc = pc].pc = pc BY <1>1 DEF TaskState
      <4>3. task'[q] = task[q] BY <1>1, <4>1, <4>2
      <4> QED BY <1>3, <4>3
    <3>3. ASSUME NEW v \in Verdicts,
                 task' = [task EXCEPT ![r].verdict = v,
                            ![r].pc = IF v # "Allow" \/ task[r].config.store THEN "event" ELSE "mark"]
          PROVE  Goal
      BY <3>2, <3>3
    <3> QED BY <2>8, <3>1, <3>3 DEF ScanPrompt
  <2>9. CASE RecordEvent(r) BY <1>3, <2>1, <2>9 DEF RecordEvent
  <2>10. CASE MarkDone(r) BY <1>3, <2>1, <2>2, <2>10 DEF MarkDone, Holding
  <2>11. CASE MarkFailed(r) BY <1>3, <2>2, <2>11 DEF MarkFailed, Holding
  <2> QED BY <1>2, <1>4, <2>3, <2>4, <2>5, <2>6, <2>7, <2>8, <2>9, <2>10, <2>11 DEF TaskStep
<1>5. CASE RestartAudit BY <1>1, <1>5, <1>3 DEF RestartAudit, TaskState
<1>6. CASE OperatorStep
  <2>1. task' = task
    BY <1>6 DEF OperatorStep, ReadConfig, SaveConfig, DeleteEvents, DeletePreview, PreviewExpires, FindJobs,
         DeleteByFilter, queue
  <2> QED BY <1>3, <2>1
<1> QED BY <1>4, <1>5, <1>6 DEF AuditNext, OperatorStep

\* Every step keeps the room of a request that nobody has overtaken.
LEMMA RoomKeptIfFirst == AuditTypeOK /\ WaitersWait /\ RoomIfFirst /\ AuditNext => RoomIfFirst'
<1> SUFFICES ASSUME AuditTypeOK, WaitersWait, RoomIfFirst, AuditNext,
                    NEW q \in Inspected, task'[q].pc = "counted", ~task'[q].raced
    PROVE  Cardinality(ActiveJobs') < task'[q].config.capacity
  BY DEF RoomIfFirst
<1>1. auditJob \in [Inspected -> Waiting \cup {"none", "done", "failed"}] BY DEF AuditTypeOK
<1>2. task[q].config.capacity \in Nat BY TaskTypes
<1>3. CASE CountQueue(q) /\ ~QueueFull(task[q].config) /\ task'[q].config = task[q].config
  BY <1>3, <1>1, QueueShrinks, <1>2 DEF CountQueue, ActiveJobs, QueueFull
<1>4. CASE /\ task[q].pc = "counted" /\ ~task[q].raced /\ task'[q].config = task[q].config
           /\ \A r \in Inspected : ~InsertJob(r)
  BY <1>4, QueueGrows, <1>1, QueueShrinks, <1>2 DEF RoomIfFirst
<1> QED BY <1>3, <1>4, CountedIs

\* An insertion that nobody has overtaken leaves the queue within its capacity.
LEMMA InsertFits ==
  ASSUME AuditTypeOK, RoomIfFirst, NEW r \in Inspected, InsertJob(r), ~task[r].raced
  PROVE  Cardinality(ActiveJobs') <= task[r].config.capacity
<1>1. auditJob \in [Inspected -> Waiting \cup {"none", "done", "failed"}] BY DEF AuditTypeOK
<1>2. ActiveJobs' = ActiveJobs \cup {r} BY <1>1 DEF InsertJob, ActiveJobs, Waiting
<1>3. IsFiniteSet(ActiveJobs) BY AuditSetsAssumption, FS_Subset DEF ActiveJobs
<1>4. Cardinality(ActiveJobs) \in Nat BY <1>3, FS_CardinalityType
<1>5. Cardinality(ActiveJobs) < task[r].config.capacity /\ task[r].config.capacity \in Nat
  BY TaskTypes DEF RoomIfFirst, InsertJob
<1>6. CASE r \in ActiveJobs
  <2>1. ActiveJobs' = ActiveJobs BY <1>2, <1>6
  <2> QED BY <1>4, <1>5, <2>1
<1>7. CASE r \notin ActiveJobs
  <2>1. Cardinality(ActiveJobs') = Cardinality(ActiveJobs) + 1 BY <1>2, <1>3, <1>7, FS_AddElement
  <2> QED BY <1>4, <1>5, <2>1
<1> QED BY <1>6, <1>7

\* What a preview would delete after a step.
EventsThen(p) == {i \in DOMAIN events' : events'[i].verdict \in p.filter /\ i <= p.max}
ShownThen(p) == p.open => p.max <= eventId' /\ {events'[i].request : i \in EventsThen(p)} \subseteq p.shown

\* Ids only grow, so what a preview would delete only shrinks.
LEMMA ShownStays ==
  ASSUME AuditTypeOK, WaitersWait, AnswersFollow, AuditNext
  PROVE  \A p \in PreviewState : ShownBy(p) => ShownThen(p)
<1> SUFFICES ASSUME NEW p \in PreviewState, ShownBy(p), p.open
    PROVE  p.max <= eventId' /\ {events'[i].request : i \in EventsThen(p)} \subseteq p.shown
  BY DEF ShownThen
<1>1. /\ eventId \in Nat /\ DOMAIN events \subseteq 1 .. eventId /\ p.max \in Nat
      /\ p.max <= eventId /\ JobsOf(Matching(p.filter, p.max)) \subseteq p.shown
  BY DEF AuditTypeOK, ShownBy, PreviewState
<1>2. ASSUME eventId' \in {eventId, eventId + 1}, \A i \in DOMAIN events' : i \in DOMAIN events \/ i = eventId + 1,
             \A i \in DOMAIN events \cap DOMAIN events' : events'[i] = events[i]
      PROVE  p.max <= eventId' /\ {events'[i].request : i \in EventsThen(p)} \subseteq p.shown
  <2>1. p.max <= eventId' BY <1>1, <1>2
  <2>2. ASSUME NEW i \in EventsThen(p) PROVE events'[i].request \in p.shown
    BY <2>2, <1>1, <1>2 DEF EventsThen, Matching, JobsOf
  <2> QED BY <2>1, <2>2
<1>3. CASE UNCHANGED <<events, eventId>> BY <1>2, <1>3
<1>4. ASSUME NEW ids, NEW jobs, EraseEvents(ids, jobs)
      PROVE  p.max <= eventId' /\ {events'[i].request : i \in EventsThen(p)} \subseteq p.shown
  BY <1>2, <1>4, EraseIs
<1>5. ASSUME NEW r \in Inspected, TaskStep(r)
      PROVE  p.max <= eventId' /\ {events'[i].request : i \in EventsThen(p)} \subseteq p.shown
  <2>1. CASE RecordEvent(r) BY <1>2, <1>3, <2>1, EventsGrow DEF trail
  <2>2. CASE UNCHANGED trail BY <1>3, <2>2 DEF trail
  <2> QED BY <1>5, <2>1, <2>2 DEF TaskStep, LoadAuditConfig, CountQueue, InsertJob, TakeSlot, ParkTask, ClaimJob,
         ScanPrompt, MarkDone, MarkFailed
<1>6. CASE RestartAudit BY <1>3, <1>6 DEF RestartAudit, trail
<1>7. CASE OperatorStep
  BY <1>3, <1>4, <1>7 DEF OperatorStep, ReadConfig, SaveConfig, DeleteEvents, DeletePreview, PreviewExpires, FindJobs,
     DeleteByFilter, trail
<1> QED BY <1>5, <1>6, <1>7 DEF AuditNext, OperatorStep

\* What single steps do to the preview and to the deletion.
LEMMA PreviewSteps ==
  ASSUME AuditTypeOK, WaitersWait, AuditNext
  PROVE  /\ \/ preview' \in {preview, NoPreview}
            \/ \E filter \in DeleteFilters : DeletePreview(filter)
         /\ \/ deleting' \in {deleting, NoDeletion}
            \/ preview.open /\ preview' = preview /\ deleting'.preview = preview
<1>1. ASSUME NEW r \in Inspected, TaskStep(r) PROVE preview' = preview /\ deleting' = deleting
  BY <1>1, TaskSteps DEF erase
<1>2. CASE RestartAudit BY <1>2 DEF RestartAudit
<1>3. CASE FindJobs BY <1>3 DEF FindJobs
<1>4. CASE DeleteByFilter BY <1>4 DEF DeleteByFilter
<1>5. ASSUME NEW filter \in DeleteFilters, DeletePreview(filter) PROVE deleting' = deleting BY <1>5 DEF DeletePreview
<1>6. CASE PreviewExpires BY <1>6 DEF PreviewExpires
<1>7. CASE UNCHANGED erase BY <1>7 DEF erase
<1>8. CASE OperatorStep
  BY <1>3, <1>4, <1>5, <1>6, <1>7, <1>8 DEF OperatorStep, ReadConfig, SaveConfig, DeleteEvents
<1> QED BY <1>1, <1>2, <1>8 DEF AuditNext, OperatorStep

\* Every step keeps what the previews cover.
LEMMA PreviewsKept ==
  ASSUME AuditTypeOK, WaitersWait, AnswersFollow, PreviewsShow, AuditNext
  PROVE  PreviewsShow'
<1>1. preview \in PreviewState /\ deleting.preview \in PreviewState BY DEF AuditTypeOK
<1>2. ShownThen(preview) /\ ShownThen(deleting.preview) BY <1>1, ShownStays DEF PreviewsShow
<1>3. ShownThen(NoPreview) BY DEF ShownThen, NoPreview
<1>4. ASSUME NEW filter \in DeleteFilters, DeletePreview(filter) PROVE ShownThen(preview')
  <2>1. /\ preview' \in PreviewState /\ preview'.max <= eventId /\ preview'.filter = filter /\ preview'.open
        /\ preview'.shown = JobsOf(Matching(filter, eventId))
    BY <1>4, PreviewIs
  <2>2. UNCHANGED <<events, eventId>> BY <1>4 DEF DeletePreview, trail
  <2>3. DOMAIN events \subseteq 1 .. eventId /\ eventId \in Nat BY DEF AuditTypeOK
  <2>4. EventsThen(preview') \subseteq Matching(filter, eventId) BY <2>1, <2>2, <2>3 DEF EventsThen, Matching
  <2>5. {events[i].request : i \in EventsThen(preview')} \subseteq preview'.shown BY <2>1, <2>4 DEF JobsOf
  <2> QED BY <2>1, <2>2, <2>5 DEF ShownThen
<1>5. ShownThen(preview') BY <1>2, <1>3, <1>4, PreviewSteps
<1>6. NoDeletion.preview = NoPreview BY DEF NoDeletion
<1>7. ShownThen(deleting'.preview) BY <1>2, <1>3, <1>6, PreviewSteps
<1>8. ShownBy(preview)' <=> ShownThen(preview') BY DEF ShownBy, ShownThen, JobsOf, Matching, EventsThen
<1>9. ShownBy(deleting.preview)' <=> ShownThen(deleting'.preview)
  BY DEF ShownBy, ShownThen, JobsOf, Matching, EventsThen
<1>10. ~deleting'.preview.open => deleting' = NoDeletion BY PreviewSteps DEF PreviewsShow
<1> QED BY <1>5, <1>7, <1>8, <1>9, <1>10 DEF PreviewsShow

\* A confirmed deletion removes what was shown.
LEMMA DeletionShown ==
  ASSUME AuditTypeOK, WaitersWait, PreviewsShow, AuditNext,
         deleting.preview.open, deleting' = NoDeletion, budget' = budget
  PROVE  JobsOf(DOMAIN events \ DOMAIN events') \subseteq deleting.preview.shown
<1> DEFINE found == deleting.preview
<1>1. NoDeletion.preview.open = FALSE BY DEF NoDeletion, NoPreview
<1>2. deleting' # deleting BY <1>1
<1>3. DeleteByFilter
  <2>1. ASSUME NEW r \in Inspected, TaskStep(r) PROVE FALSE BY <1>2, <2>1, TaskSteps DEF erase
  <2>2. CASE RestartAudit BY <2>2 DEF AuditTypeOK, RestartAudit, AuditSpend
  <2>3. CASE OperatorStep
    BY <1>2, <2>3 DEF OperatorStep, ReadConfig, SaveConfig, DeleteEvents, DeletePreview, PreviewExpires, FindJobs,
       admin, erase
  <2> QED BY <2>1, <2>2, <2>3 DEF AuditNext, OperatorStep
<1>4. DOMAIN events' = DOMAIN events \ Matching(found.filter, found.max) BY <1>3, EraseIs DEF DeleteByFilter
<1>5. JobsOf(DOMAIN events \ DOMAIN events') \subseteq JobsOf(Matching(found.filter, found.max))
  BY <1>4 DEF JobsOf
<1> QED BY <1>5 DEF PreviewsShow, ShownBy

-----------------------------------------------------------------------------
(*                              The theorem                                *)

\* The invariant holds at first, ...
LEMMA AuditInitInv == AuditInit => AuditInv
<1> SUFFICES ASSUME AuditInit PROVE AuditInv OBVIOUS
<1> USE DEF AuditInit
<1>1. /\ config \in AuditConfigs /\ DOMAIN events = {} /\ parked = <<>> /\ DOMAIN parked = {} /\ slots = 0
      /\ \A r \in Inspected : task[r].pc = "new" /\ task[r].answer = "none"
  OBVIOUS
<1>2. AuditTypeOK
  <2>1. task \in [Inspected -> TaskState] BY <1>1 DEF TaskState
  <2>2. auditJob \in [Inspected -> Waiting \cup {"none", "done", "failed"}] OBVIOUS
  <2>3. saving \in [Auditors -> [open : BOOLEAN, base : Nat]] OBVIOUS
  <2>4. budget \in [saves : Nat, deletes : Nat, restarts : Nat, faults : Nat] BY AuditBudgetsAssumption
  <2>5. NoPreview \in PreviewState BY DEF NoPreview, PreviewState
  <2>6. preview \in PreviewState /\ deleting \in [preview : PreviewState, jobs : SUBSET Inspected]
    BY <2>5 DEF NoDeletion
  <2>7. parked \in Seq(Inspected) /\ slots \in Nat /\ spare \in BOOLEAN /\ version \in Nat /\ eventId \in Nat
    <3>1. spare = FALSE /\ version = 0 /\ eventId = 0 OBVIOUS
    <3>2. <<>> \in Seq(Inspected) /\ 0 \in Nat OBVIOUS
    <3> QED BY <1>1, <3>1, <3>2
  <2> QED BY <1>1, <2>1, <2>2, <2>3, <2>4, <2>6, <2>7 DEF AuditTypeOK
<1>3. AnswersFollow /\ FailsClosed BY <1>1 DEF AnswersFollow, FailsClosed
<1>4. SlotsAccounted
  <2>1. {r \in Inspected : task[r].pc \in Holding} = {} BY <1>1 DEF Holding
  <2>2. Cardinality({}) = 0 BY FS_EmptySet
  <2>3. \A c \in AuditConfigs : 0 <= c.workers BY AuditConfigsAssumption DEF AuditConfig
  <2> QED BY <1>1, <2>1, <2>2, <2>3 DEF SlotsAccounted
<1>5. WaitersWait BY <1>1 DEF WaitersWait
<1>6. SomeoneWakes BY <1>1 DEF SomeoneWakes
<1>7. RoomIfFirst BY <1>1 DEF RoomIfFirst
<1>8. PreviewsShow BY DEF PreviewsShow, ShownBy, NoPreview, NoDeletion
<1> QED BY <1>2, <1>3, <1>4, <1>5, <1>6, <1>7, <1>8 DEF AuditInv

\* ... every step keeps it, ...
LEMMA AuditNextInv == AuditInv /\ AuditNext => AuditInv'
<1> SUFFICES ASSUME AuditInv, AuditNext PROVE AuditInv' OBVIOUS
<1> USE DEF AuditInv
<1>1. AuditTypeOK' BY TaskTyped, AdminTyped DEF AuditNext, OperatorStep
<1>2. AnswersFollow' /\ FailsClosed' BY AnswersKept, AnswersStay DEF AuditNext, OperatorStep
<1>3. QueueOK' BY QueueKept DEF QueueOK
<1>4. RoomIfFirst' BY RoomKeptIfFirst
<1>5. PreviewsShow' BY PreviewsKept
<1> QED BY <1>1, <1>2, <1>3, <1>4, <1>5 DEF QueueOK

\* ... and so does a step that changes nothing.
LEMMA AuditStutters == AuditInv /\ UNCHANGED auditVars => AuditInv'
<1> SUFFICES ASSUME AuditInv, UNCHANGED auditVars PROVE AuditInv' OBVIOUS
<1> USE DEF auditVars, queue, trail, admin, erase, AuditInv
<1>1. AuditTypeOK' BY DEF AuditTypeOK
<1>2. AnswersFollow' /\ FailsClosed' BY DEF AnswersFollow, FailsClosed
<1>3. QueueOK' BY QuietKeeps DEF Quiet, QueueOK
<1>4. RoomIfFirst' BY DEF RoomIfFirst, ActiveJobs
<1>5. PreviewsShow' BY DEF PreviewsShow, ShownBy, JobsOf, Matching
<1> QED BY <1>1, <1>2, <1>3, <1>4, <1>5 DEF QueueOK

\* A waiter's presence is a task's.
LEMMA AuditInvSafe == AuditInv => AuditSafe
<1> SUFFICES ASSUME AuditInv PROVE NoLostWakeup BY DEF AuditInv, AuditSafe
<1>1. ASSUME parked # <<>>
      PROVE  \E r \in Inspected : task[r].pc \in Holding \cup {"check"} \/ (task[r].pc = "park" /\ spare)
  <2>1. parked \in Seq(Inspected) BY DEF AuditInv, AuditTypeOK
  <2>2. 1 \in DOMAIN parked /\ parked[1] \in Inspected BY <1>1, <2>1
  <2>3. task[parked[1]].pc = "parked" BY <2>2 DEF AuditInv, WaitersWait
  <2> QED BY <2>2, <2>3 DEF AuditInv, SomeoneWakes
<1> QED BY <1>1 DEF NoLostWakeup

\* The invariant of the audit holds throughout.
LEMMA AuditCorrect == AuditSpec => []AuditInv
<1>1. AuditInv /\ [AuditNext]_auditVars => AuditInv' BY AuditNextInv, AuditStutters
<1> QED BY AuditInitInv, <1>1, PTL DEF AuditSpec

\* What a step may delete, and when the queue may outgrow its capacity.
LEMMA AuditSteps == AuditInv /\ [AuditNext]_auditVars =>
  /\ [deleting.preview.open /\ deleting' = NoDeletion /\ budget' = budget =>
        JobsOf(DOMAIN events \ DOMAIN events') \subseteq deleting.preview.shown]_auditVars
  /\ [\A r \in Inspected : InsertJob(r) /\ ~task[r].raced =>
        Cardinality(ActiveJobs') <= task[r].config.capacity]_auditVars
BY DeletionShown, InsertFits DEF AuditInv

\* The audit deletes only what was shown, and overshoots only in races.
LEMMA AuditShows == AuditSpec => DeletesOnlyPreviewed /\ OvershootOnlyInRaces
  BY AuditCorrect, AuditSteps, PTL DEF AuditSpec, DeletesOnlyPreviewed, OvershootOnlyInRaces

-----------------------------------------------------------------------------
(*                               The theorems                              *)

\* Whatever administrators save, restarts cut short and statements refuse:
\* a user who is not exempt is banned unless the last hits were recorded at
\* once, a key's load counts its calls in flight, a known text is not served
\* in pre_block mode (risk_control.rs, inspect and record_result); and a
\* blocking audit passes only what was scanned, the worker slots are those
\* of running tasks, and a waiting task will be looked at (prompt_audit.rs,
\* inspect, process_job and DynamicSlots).
THEOREM PromptsCorrect == RiskSpec /\ AuditSpec => []PromptsSafe
<1>1. AuditSpec => []AuditSafe BY AuditCorrect, AuditInvSafe, PTL
<1> QED BY ModerationCorrect, <1>1, PTL DEF PromptsSafe

\* Between the preview of a deletion and its confirmation calls log usage and
\* record events, and administrators delete others; the confirmation removes
\* only what the preview counted (usage.rs cleanup_confirm, prompt_audit.rs
\* delete_by_filter).  And the audit's queue outgrows its capacity only by
\* requests that others overtook after they counted it (inspect).
THEOREM ShownCorrect == AdmissionSpec /\ AuditSpec => OnlyWhatWasShown
  BY CleanupCorrect, AuditShows DEF OnlyWhatWasShown

HoldingSteps == {"locked", "call", "write"}

(* A request that has started has a row.                                   *)
RowsKnown == \A h \in Refreshers : refresher[h].pc # "idle" => refresher[h].row \in OAuthRows

(* Token t is an owner's: its row has it, or a request for it, or an       *)
(* administrator's request that may write it to the row.                   *)
RequestHas(h, a, t) ==
  refresher[h].pc \in {"call", "write"} /\ OwnerOf(h) = a /\ refresher[h].seen.refresh = t
AdminHas(x, a, t) ==
  adminReq[x].pc \in {"edit", "read", "replace"} /\ adminReq[x].owner = a /\ adminReq[x].seen.refresh = t
Has(a, t) ==
  \/ stored[a].refresh = t
  \/ \E h \in Refreshers : RequestHas(h, a, t)
  \/ \E x \in Admins : AdminHas(x, a, t)

TokensKnown == \A a \in Holders, t \in Grants : Has(a, t) => t <= issued
ValidIssued == \A t \in valid : t <= issued

(* No two owners share a token.                                            *)
TokensApart == \A a, b \in Holders, t \in Grants : Has(a, t) /\ Has(b, t) => a = b

(* What a request is about to write is accepted by the provider.           *)
CarriedValid == \A h \in Refreshers : refresher[h].pc = "write" => refresher[h].seen.refresh \in valid

(* A state that has not been taken, or whose code is being exchanged, was  *)
(* never used, and no two callbacks exchange one.                          *)
ExchangedApart ==
  /\ \A f \in Flows : flows[f].state # "taken" => flows[f].used = 0
  /\ \A x \in Admins : adminReq[x].pc = "exchange" =>
       flows[adminReq[x].flow].state = "taken" /\ flows[adminReq[x].flow].used = 0
  /\ \A x, y \in Admins : adminReq[x].pc = "exchange" /\ adminReq[y].pc = "exchange" /\ x # y =>
       adminReq[x].flow # adminReq[y].flow

Typed == OAuthTypeOK /\ RowsKnown
TokensSound == TokensKnown /\ ValidIssued /\ TokensApart
Grant == GrantKept /\ NeverPresentsUsed /\ CarriedValid
Exchange == FlowExchangedOnce /\ ExchangedApart
GrantInv == Typed /\ TokensSound /\ Grant /\ Exchange

-----------------------------------------------------------------------------
(* Facts about the operators *)

\* The owner of a row holds credentials.
LEMMA OwnerType ==
  ASSUME NEW row \in OAuthRows
  PROVE  CredentialOwner(row) \in Holders /\ LockOf(row) \in OAuthRows
BY OAuthSets DEF CredentialOwner, LockOf, OAuthRows

\* TokensSound and the credentials built from them have their types.
LEMMA TokenTypes ==
  /\ Nothing \in Credentials /\ FreshToken(NoToken) \in Credentials
  /\ \A t \in Grants : FreshToken(t) \in Credentials
  /\ \A t : FreshToken(t).refresh = t /\ FreshToken(t).age = "fresh"
  /\ Nothing.refresh = NoToken /\ NoToken \notin Grants
BY DEF Nothing, FreshToken, Credentials, Grants, NoToken

\* A request that has ended is a request state.
LEMMA IdleType == Idle \in RefresherState
BY TokenTypes DEF Idle, RefresherState

\* A request between taking the lock and dropping its guard holds it.
LEMMA HolderLocks ==
  ASSUME Typed, NEW h \in Refreshers, refresher[h].pc \in HoldingSteps
  PROVE  /\ OwnerOf(h) \in Holders /\ OwnerOf(h) \in OAuthRows
         /\ LockOf(refresher[h].row) = OwnerOf(h) /\ locked[OwnerOf(h)] = h
<1>1. refresher[h].row \in OAuthRows BY DEF Typed, RowsKnown, HoldingSteps
<1>2. OwnerOf(h) \in Holders /\ OwnerOf(h) \in OAuthRows
  BY <1>1, OwnerType DEF OwnerOf, OAuthRows
<1>3. LockOf(refresher[h].row) = OwnerOf(h) BY DEF LockOf, OwnerOf
<1> QED BY <1>2, <1>3 DEF Typed, OAuthTypeOK, HoldingSteps

\* Of one owner there is one such request.
LEMMA OneHolder ==
  ASSUME Typed, NEW h \in Refreshers, NEW g \in Refreshers,
         refresher[h].pc \in HoldingSteps, refresher[g].pc \in HoldingSteps,
         OwnerOf(h) = OwnerOf(g)
  PROVE  h = g
BY HolderLocks

-----------------------------------------------------------------------------
(* Types and locks *)

\* The stored rows are well typed, and nobody holds a lock, at the start.
LEMMA TypedInit == OAuthInit => Typed
<1> SUFFICES ASSUME OAuthInit PROVE Typed
  OBVIOUS
<1>1. PICK n \in [Holders -> Grants] :
        /\ \A a, b \in Holders : a # b => n[a] # n[b]
        /\ stored = [a \in Holders |-> FreshToken(n[a])]
  BY DEF OAuthInit
<1>2. IsFiniteSet(Holders) /\ Cardinality(Holders) <= MaxTokens
  <2>1. n \in Injection(Holders, Grants)
    BY <1>1 DEF Injection, IsInjective
  <2>2. IsFiniteSet(Grants) /\ Cardinality(Grants) = MaxTokens
    BY OAuthBounds, FS_Interval DEF Grants
  <2> QED BY <2>1, <2>2, FS_Injection
<1>3. Cardinality(Holders) \in 0 .. MaxTokens
  BY <1>2, FS_CardinalityType, OAuthBounds
<1>4. stored \in [Holders -> Credentials]
  BY <1>1, TokenTypes
<1>5. valid \subseteq Grants /\ issued \in 0 .. MaxTokens
  BY <1>3, OAuthBounds DEF OAuthInit, Grants
<1>6. adminReq \in [Admins -> AdminState]
  BY TokenTypes DEF OAuthInit, AdminState
<1>7. refresher \in [Refreshers -> RefresherState]
  BY IdleType DEF OAuthInit
<1>8. /\ exists \subseteq Holders /\ locked \in [OAuthRows -> Refreshers \cup {NoOne}]
      /\ flows \in [Flows -> FlowState] /\ lost \in [Holders -> SUBSET Ways] /\ adminCount \in 0 .. MaxAdmin
  BY OAuthBounds DEF OAuthInit, FlowState
<1>9. \A h \in Refreshers : refresher[h].pc = "idle" /\ \A row \in OAuthRows : locked[row] # h
  BY OAuthSets DEF OAuthInit, Idle
<1> QED BY <1>4, <1>5, <1>6, <1>7, <1>8, <1>9 DEF Typed, OAuthTypeOK, RowsKnown

\* A request's step that leaves the locks as its steps demand.
LEMMA LocksStep ==
  ASSUME Typed, NEW h \in Refreshers, NEW state \in RefresherState,
         refresher' = [refresher EXCEPT ![h] = state],
         state.pc # "idle" => state.row \in OAuthRows,
         \/ /\ refresher[h].pc \in HoldingSteps <=> state.pc \in HoldingSteps
            /\ state.pc \in HoldingSteps => state.row = refresher[h].row
            /\ locked' = locked
         \/ /\ refresher[h].pc \in HoldingSteps /\ state.pc \notin HoldingSteps
            /\ Unlock(h)
         \/ /\ refresher[h].pc \notin HoldingSteps /\ state.pc \in HoldingSteps
            /\ locked[LockOf(state.row)] = NoOne
            /\ locked' = [locked EXCEPT ![LockOf(state.row)] = h]
  PROVE  /\ refresher' \in [Refreshers -> RefresherState]
         /\ locked' \in [OAuthRows -> Refreshers \cup {NoOne}]
         /\ RowsKnown'
         /\ \A g \in Refreshers, row \in OAuthRows :
              locked'[row] = g <=> refresher'[g].pc \in HoldingSteps /\ LockOf(refresher'[g].row) = row
<1>1. /\ refresher \in [Refreshers -> RefresherState]
      /\ locked \in [OAuthRows -> Refreshers \cup {NoOne}]
      /\ RowsKnown
      /\ \A g \in Refreshers, row \in OAuthRows :
           locked[row] = g <=> refresher[g].pc \in HoldingSteps /\ LockOf(refresher[g].row) = row
  BY DEF Typed, OAuthTypeOK, HoldingSteps
<1>2. refresher' \in [Refreshers -> RefresherState] /\ refresher'[h] = state
      /\ \A g \in Refreshers : g # h => refresher'[g] = refresher[g]
  BY <1>1
<1>3. RowsKnown'
  BY <1>1, <1>2 DEF RowsKnown
<1>4. CASE refresher[h].pc \in HoldingSteps /\ state.pc \notin HoldingSteps
  <2>1. LockOf(refresher[h].row) \in OAuthRows
    BY <1>1, <1>4, OwnerType DEF RowsKnown, HoldingSteps
  <2>2. Unlock(h) BY <1>4
  <2> QED BY <1>1, <1>2, <1>3, <1>4, <2>1, <2>2, OAuthSets DEF Unlock
<1>5. CASE refresher[h].pc \notin HoldingSteps /\ state.pc \in HoldingSteps
  <2>1. LockOf(state.row) \in OAuthRows
    BY <1>5, OwnerType DEF HoldingSteps
  <2>2. /\ locked[LockOf(state.row)] = NoOne
        /\ locked' = [locked EXCEPT ![LockOf(state.row)] = h]
    BY <1>5
  <2> QED BY <1>1, <1>2, <1>3, <1>5, <2>1, <2>2, OAuthSets
<1>6. CASE refresher[h].pc \in HoldingSteps <=> state.pc \in HoldingSteps BY <1>6, <1>1, <1>2, <1>3
<1> QED BY <1>4, <1>5, <1>6

\* The rest of the types, which no request's step touches.
OtherTypes ==
  /\ stored \in [Holders -> Credentials] /\ exists \subseteq Holders
  /\ valid \subseteq Grants /\ issued \in 0 .. MaxTokens
  /\ adminReq \in [Admins -> AdminState] /\ flows \in [Flows -> FlowState]
  /\ lost \in [Holders -> SUBSET Ways] /\ adminCount \in 0 .. MaxAdmin

LocksKept ==
  /\ refresher \in [Refreshers -> RefresherState]
  /\ locked \in [OAuthRows -> Refreshers \cup {NoOne}]
  /\ RowsKnown
  /\ \A g \in Refreshers, row \in OAuthRows :
       locked[row] = g <=> refresher[g].pc \in HoldingSteps /\ LockOf(refresher[g].row) = row

\* The typing invariant is the types of the variables and the lock discipline.
LEMMA TypedParts ==
  /\ Typed <=> OtherTypes /\ LocksKept
  /\ Typed' <=> OtherTypes' /\ LocksKept'
BY DEF Typed, OAuthTypeOK, OtherTypes, LocksKept, HoldingSteps

\* A request keeps types and lock discipline on every way out: served,
\* refused, or dropped with its guard (refresh_account, resolve_account).
LEMMA RequestStepTyped ==
  ASSUME Typed, NEW h \in Refreshers,
         \/ RefresherStep(h) \/ RefreshLock(h) \/ Unauthorized(h) \/ RefresherDropped(h)
         \/ \E row \in OAuthRows : RefreshIfNeeded(h, row) \/ RefreshForced(h, row)
  PROVE  Typed'
<1> DEFINE q == refresher[h]
<1>1. /\ OtherTypes /\ LocksKept /\ q \in RefresherState
      /\ q.pc # "idle" => q.row \in OAuthRows /\ OwnerOf(h) \in Holders
  BY TypedParts, OwnerType DEF LocksKept, RowsKnown, OwnerOf
<1>2. \A pc \in {"idle", "wait", "locked", "call", "write", "ready"} : [q EXCEPT !.pc = pc] \in RefresherState
  BY <1>1 DEF RefresherState
<1>3. \A pc \in {"idle", "wait", "locked", "call", "write", "ready"}, seen \in Credentials :
        [q EXCEPT !.pc = pc, !.seen = seen] \in RefresherState
  BY <1>1 DEF RefresherState
<1>4. \A pc \in {"wait", "locked", "call", "write", "ready"} :
        Move(h, pc) => refresher' = [refresher EXCEPT ![h] = [q EXCEPT !.pc = pc]]
  BY <1>1 DEF Move, LocksKept
<1>5. \A pc \in {"wait", "locked", "call", "write", "ready"}, seen \in Credentials :
        Moving(h, pc, seen) => refresher' = [refresher EXCEPT ![h] = [q EXCEPT !.pc = pc, !.seen = seen]]
  BY <1>1 DEF Moving, LocksKept
<1>6. CASE \E row \in OAuthRows : RefreshIfNeeded(h, row) \/ RefreshForced(h, row)
  <2>1. PICK row \in OAuthRows, pc \in {"wait", "ready"}, force \in BOOLEAN : Begin(h, row, pc, force)
    BY <1>6 DEF RefreshIfNeeded, RefreshForced
  <2> DEFINE state == [pc |-> pc, row |-> row, seen |-> Nothing, force |-> force, retried |-> FALSE]
  <2>2. state \in RefresherState
    BY TokenTypes DEF RefresherState
  <2>3. /\ q.pc = "idle" /\ refresher' = [refresher EXCEPT ![h] = state]
        /\ locked' = locked /\ UNCHANGED <<stored, exists, valid, issued, adminReq, flows, lost, adminCount>>
    BY <2>1 DEF Begin, provider
  <2>4. LocksKept'
    BY <2>2, <2>3, LocksStep DEF HoldingSteps, LocksKept
  <2> QED BY <1>1, <2>3, <2>4, TypedParts DEF OtherTypes
<1>7. CASE Unauthorized(h)
  BY <1>1, <1>7, LocksStep, TypedParts DEF Unauthorized, provider, LocksKept, RefresherState, HoldingSteps, OtherTypes
<1>8. CASE RefreshLock(h)
  <2> DEFINE state == [q EXCEPT !.pc = "locked"]
  <2>1. /\ q.pc = "wait" /\ refresher' = [refresher EXCEPT ![h] = state]
        /\ locked[LockOf(q.row)] = NoOne /\ locked' = [locked EXCEPT ![LockOf(q.row)] = h]
        /\ UNCHANGED <<stored, exists, valid, issued, adminReq, flows, lost, adminCount>>
    BY <1>4, <1>8 DEF RefreshLock, provider
  <2>2. state \in RefresherState /\ state.pc = "locked" /\ state.row = q.row
    BY <1>1, <1>2 DEF RefresherState
  <2>3. LocksKept'
    BY <1>1, <2>1, <2>2, LocksStep DEF HoldingSteps, LocksKept
  <2> QED BY <1>1, <2>1, <2>3, TypedParts DEF OtherTypes
<1>9. CASE RefresherStep(h) \/ RefresherDropped(h)
  <2>1. PICK state \in RefresherState :
          /\ refresher' = [refresher EXCEPT ![h] = state]
          /\ state.pc # "idle" => state.row = q.row
          /\ q.pc # "idle" /\ state.pc # "locked"
          /\ \/ /\ q.pc \in HoldingSteps <=> state.pc \in HoldingSteps
                /\ locked' = locked
             \/ /\ q.pc \in HoldingSteps /\ state.pc \notin HoldingSteps
                /\ Unlock(h)
    <3> DEFINE Goes(state) ==
          /\ refresher' = [refresher EXCEPT ![h] = state]
          /\ state.pc # "idle" => state.row = q.row
          /\ q.pc # "idle" /\ state.pc # "locked"
          /\ \/ /\ q.pc \in HoldingSteps <=> state.pc \in HoldingSteps
                /\ locked' = locked
             \/ /\ q.pc \in HoldingSteps /\ state.pc \notin HoldingSteps
                /\ Unlock(h)
    <3>1. \A pc \in {"call", "write"}, seen \in Credentials :
            Moving(h, pc, seen) /\ q.pc \in HoldingSteps /\ locked' = locked => \E state \in RefresherState : Goes(state)
      <4> SUFFICES ASSUME NEW pc \in {"call", "write"}, NEW seen \in Credentials,
                          Moving(h, pc, seen), q.pc \in HoldingSteps, locked' = locked
                   PROVE  Goes([q EXCEPT !.pc = pc, !.seen = seen])
        BY <1>3
      <4>1. /\ [q EXCEPT !.pc = pc, !.seen = seen].pc = pc
            /\ [q EXCEPT !.pc = pc, !.seen = seen].row = q.row
        BY <1>1 DEF RefresherState
      <4> QED BY <1>5, <4>1 DEF HoldingSteps
    <3>2. \A seen \in Credentials :
            Moving(h, "ready", seen) /\ q.pc \in HoldingSteps /\ Unlock(h) => \E state \in RefresherState : Goes(state)
      <4> SUFFICES ASSUME NEW seen \in Credentials, Moving(h, "ready", seen), q.pc \in HoldingSteps, Unlock(h)
                   PROVE  Goes([q EXCEPT !.pc = "ready", !.seen = seen])
        BY <1>3
      <4>1. /\ [q EXCEPT !.pc = "ready", !.seen = seen].pc = "ready"
            /\ [q EXCEPT !.pc = "ready", !.seen = seen].row = q.row
        BY <1>1 DEF RefresherState
      <4> QED BY <1>5, <4>1 DEF HoldingSteps
    <3>3. /\ q.pc \in HoldingSteps /\ Leave(h) /\ Unlock(h) => Goes(Idle)
          /\ q.pc \in {"wait", "ready"} /\ Leave(h) /\ locked' = locked => Goes(Idle)
      BY DEF Leave, Idle, HoldingSteps
    <3>4. Nothing \in Credentials /\ Idle \in RefresherState /\ q.seen \in Credentials
      BY <1>1, TokenTypes, IdleType DEF RefresherState
    <3>5. CASE RereadCredentials(h)
      <4>1. OwnerOf(h) \in Holders /\ stored[OwnerOf(h)] \in Credentials
        BY <1>1, <3>5 DEF RereadCredentials, OtherTypes
      <4> QED BY <3>1, <3>2, <3>3, <3>4, <3>5, <4>1 DEF RereadCredentials, HoldingSteps
    <3>6. CASE ProviderRotates(h) BY <3>6, TokenTypes, <3>1, <3>3, <3>4 DEF ProviderRotates, HoldingSteps
    <3>7. CASE ProviderKeeps(h) BY <1>1, <3>7, TokenTypes, <3>1 DEF ProviderKeeps, OtherTypes, HoldingSteps
    <3>8. CASE ProviderRejects(h)
      BY <3>3, <3>4, <3>8 DEF ProviderRejects, HoldingSteps
    <3>9. CASE StoreRefreshed(h)
      BY <3>2, <3>4, <3>9 DEF StoreRefreshed, HoldingSteps
    <3>10. CASE RefresherEnds(h)
      BY <3>3, <3>4, <3>10 DEF RefresherEnds, HoldingSteps
    <3>11. CASE RefresherDropped(h)
      BY <3>3, <3>4, <3>11 DEF RefresherDropped, HoldingSteps
    <3> QED BY <1>9, <3>5, <3>6, <3>7, <3>8, <3>9, <3>10, <3>11 DEF RefresherStep
  <2>2. LocksKept'
    BY <1>1, <2>1, LocksStep DEF HoldingSteps, LocksKept
  <2>3. OtherTypes'
    <3> USE <1>1, OAuthBounds DEF OtherTypes, provider
    <3>1. CASE RereadCredentials(h) BY <3>1 DEF RereadCredentials
    <3>2. CASE ProviderRotates(h)
      <4>1. /\ issued' \in Grants /\ valid' \subseteq valid \cup {issued'}
            /\ UNCHANGED <<stored, exists, adminReq, flows, adminCount>>
        BY <3>2 DEF ProviderRotates
      <4>2. lost' \in [Holders -> SUBSET Ways]
        BY <3>2 DEF ProviderRotates, Ways
      <4>3. issued' \in 0 .. MaxTokens
        BY <4>1 DEF Grants
      <4> QED BY <4>1, <4>2, <4>3
    <3>3. CASE ProviderKeeps(h) BY <3>3 DEF ProviderKeeps
    <3>4. CASE ProviderRejects(h) BY <3>4 DEF ProviderRejects
    <3>5. CASE StoreRefreshed(h) BY <3>5 DEF StoreRefreshed, RefresherState
    <3>6. CASE RefresherEnds(h) BY <3>6 DEF RefresherEnds
    <3>7. CASE RefresherDropped(h) BY <3>7 DEF RefresherDropped, Ways
    <3> QED BY <1>9, <3>1, <3>2, <3>3, <3>4, <3>5, <3>6, <3>7 DEF RefresherStep
  <2> QED BY <2>2, <2>3, TypedParts
<1> QED BY <1>6, <1>7, <1>8, <1>9

\* An administrator touches neither the requests nor the locks.
LEMMA AdminStepTyped ==
  ASSUME Typed, NEW x \in Admins, AdminStep(x)
  PROVE  Typed'
<1>1. OtherTypes /\ LocksKept /\ adminReq[x] \in AdminState
  BY SMTT(30), TypedParts DEF OtherTypes
<1>2. LocksKept' /\ UNCHANGED <<refresher, locked>>
  BY <1>1 DEF AdminStep, EditReads, DeleteOwner, PasteCredentials, StartFlow, EditWrites, TakeFlow, ExchangeCode,
     ReplaceReads, ReplaceWrites, LocksKept, RowsKnown, OwnerOf
<1>3. OtherTypes'
  <2> USE <1>1, OAuthBounds DEF OtherTypes, provider
  <2>a. /\ adminReq[x].owner \in Holders /\ adminReq[x].flow \in Flows /\ adminReq[x].seen \in Credentials
        /\ flows[adminReq[x].flow] \in FlowState
    BY DEF AdminState
  <2>b. Counted => adminCount' \in 0 .. MaxAdmin
    BY DEF Counted
  <2>c. \A pc \in {"idle", "edit", "exchange", "read", "replace"} :
          /\ [adminReq EXCEPT ![x].pc = pc] \in [Admins -> AdminState]
          /\ \A seen \in Credentials :
               /\ [adminReq EXCEPT ![x].pc = pc, ![x].seen = seen] \in [Admins -> AdminState]
               /\ \A a \in Holders :
                    [adminReq EXCEPT ![x].pc = pc, ![x].owner = a, ![x].seen = seen] \in [Admins -> AdminState]
    BY ZenonT(60) DEF AdminState
  <2>1. ASSUME NEW a \in Holders, EditReads(x, a) PROVE OtherTypes'
    BY <2>1, <2>b, <2>c DEF EditReads
  <2>2. ASSUME NEW a \in Holders, DeleteOwner(x, a) PROVE OtherTypes'
    BY <2>2, <2>b, TokenTypes DEF DeleteOwner
  <2>3. ASSUME NEW a \in Holders, NEW age \in {"fresh", "endless"}, PasteCredentials(x, a, age) PROVE OtherTypes'
    BY <2>3, <2>b DEF PasteCredentials, Credentials, Grants
  <2>4. ASSUME NEW a \in Holders, NEW f \in Flows, StartFlow(x, f, a) PROVE OtherTypes'
    <3>1. flows' \in [Flows -> FlowState]
      BY <2>4 DEF StartFlow, FlowState
    <3>2. adminReq' \in [Admins -> AdminState]
      BY <2>4 DEF StartFlow, AdminState
    <3> QED BY <2>4, <2>b, <3>1, <3>2 DEF StartFlow
  <2>5. ASSUME NEW credentials \in Credentials, NEW a \in Holders, WriteBack(x, a, credentials),
               UNCHANGED <<exists, provider, locked, refresher, flows, adminCount>>
        PROVE OtherTypes'
    BY <2>5, <2>c DEF WriteBack, AdminMoves, Ways
  <2>6. CASE EditWrites(x) \/ ReplaceWrites(x)
    BY SMTT(30), <2>5, <2>6, <2>a DEF EditWrites, ReplaceWrites
  <2>7. CASE TakeFlow(x) BY <2>7, <2>a, <2>c DEF TakeFlow, FlowState, AdminMoves
  <2>8. CASE ExchangeCode(x)
    <3>1. flows' \in [Flows -> FlowState] BY <2>a, <2>8 DEF FlowState, ExchangeCode
    <3>2. adminReq' \in [Admins -> AdminState]
      <4>1. \/ \E t \in Grants \cup {NoToken} : adminReq' = [adminReq EXCEPT ![x].pc = "read", ![x].seen = FreshToken(t)]
            \/ adminReq' = [adminReq EXCEPT ![x].pc = "idle"]
        BY <2>8 DEF ExchangeCode, AdminMoves
      <4>2. \A t \in Grants \cup {NoToken} : FreshToken(t) \in Credentials
        BY TokenTypes
      <4>3. \A t \in Grants \cup {NoToken} :
              [adminReq EXCEPT ![x].pc = "read", ![x].seen = FreshToken(t)] \in [Admins -> AdminState]
        BY <4>2, <2>c
      <4>4. [adminReq EXCEPT ![x].pc = "idle"] \in [Admins -> AdminState]
        BY <2>c
      <4> QED BY ZenonT(60), <4>1, <4>3, <4>4
    <3>3. valid' \subseteq Grants /\ issued' \in 0 .. MaxTokens
      BY <2>8 DEF ExchangeCode, Grants
    <3> QED BY <2>8, <3>1, <3>2, <3>3 DEF ExchangeCode
  <2>9. CASE ReplaceReads(x)
    <3>1. stored[adminReq[x].owner].refresh \in Grants \cup {NoToken} /\ adminReq[x].seen.refresh \in Grants \cup {NoToken}
      BY <2>a DEF Credentials
    <3>2. \A t \in Grants \cup {NoToken} :
            [adminReq EXCEPT ![x].pc = "replace", ![x].seen.refresh = t] \in [Admins -> AdminState]
      BY <2>a DEF AdminState, Credentials
    <3>3. adminReq' \in [Admins -> AdminState]
      <4>1. CASE adminReq[x].owner \notin exists
        <5>1. adminReq' = [adminReq EXCEPT ![x].pc = "idle"]
          BY <2>9, <4>1 DEF ReplaceReads, AdminMoves
        <5> QED BY <5>1, <2>c
      <4>2. CASE adminReq[x].owner \in exists
        <5>1. adminReq' = [adminReq EXCEPT ![x].pc = "replace", ![x].seen.refresh =
                             IF adminReq[x].seen.refresh = NoToken THEN stored[adminReq[x].owner].refresh
                                                                  ELSE adminReq[x].seen.refresh]
          BY <2>9, <4>2 DEF ReplaceReads
        <5> QED BY <3>1, <3>2, <5>1
      <4> QED BY <4>1, <4>2
    <3> QED BY <2>9, <3>3 DEF ReplaceReads
  <2> QED BY <2>1, <2>2, <2>3, <2>4, <2>6, <2>7, <2>8, <2>9 DEF AdminStep
<1> QED BY <1>2, <1>3, TypedParts

\* A token that expires changes its row only.
LEMMA ExpiryTyped ==
  ASSUME Typed, NEW a \in Holders, Expires(a)
  PROVE  Typed'
BY TypedParts DEF Expires, OtherTypes, provider, Credentials, LocksKept, RowsKnown

\* Types and lock discipline are kept by every step.
LEMMA TypedStep ==
  ASSUME Typed, [OAuthNext]_oauthVars
  PROVE  Typed'
BY RequestStepTyped, AdminStepTyped, ExpiryTyped DEF oauthVars, Typed, OAuthTypeOK, RowsKnown, OAuthNext

-----------------------------------------------------------------------------
(* Whose tokens are whose *)

\* The tokens that owners have after a step: one may get the token that the
\* provider has just issued, and no other token changes hands.
Handed(o) ==
  /\ issued' \in {issued, issued + 1}
  /\ valid' \subseteq valid \cup {issued'}
  /\ \A t \in valid' : t \in valid \/ issued' = issued + 1
  /\ \A a \in Holders, t \in Grants :
       Has(a, t)' => Has(a, t) \/ (a = o /\ t = issued + 1 /\ issued' = issued + 1)

\* When every token a step leaves somewhere was there for the same owner, or
\* is newly issued, tokens stay known and of one owner.
LEMMA TokensHanded ==
  ASSUME Typed, TokensSound, NEW o, Handed(o)
  PROVE  TokensSound'
<1>1. /\ issued \in Nat /\ valid \subseteq Grants /\ Grants \subseteq Nat
  BY OAuthBounds DEF Typed, OAuthTypeOK, Grants
<1>2. TokensKnown' /\ ValidIssued'
  BY <1>1 DEF TokensSound, Handed, TokensKnown, ValidIssued
<1>3. TokensApart' BY <1>1 DEF TokensApart, TokensSound, TokensKnown, Handed
<1> QED BY <1>2, <1>3 DEF TokensSound

\* Requests keep their tokens, or one takes what its account's row has.
LEMMA RequestHanded ==
  ASSUME Typed, TokensSound, NEW h \in Refreshers, RefresherStep(h) \/ RefresherDropped(h)
  PROVE  Handed(OwnerOf(h))
<1>1. /\ refresher \in [Refreshers -> RefresherState] /\ stored \in [Holders -> Credentials]
      /\ issued \in Nat /\ valid \subseteq Grants
      /\ refresher[h].pc # "idle" => OwnerOf(h) \in Holders
  BY OwnerType, OAuthBounds DEF Typed, OAuthTypeOK, RowsKnown, OwnerOf, Grants
<1> USE <1>1 DEF Handed, Has, RequestHas, AdminHas, OwnerOf, provider
<1>2. CASE RereadCredentials(h)
  <2>1. UNCHANGED <<stored, issued, valid, adminReq>> /\ OwnerOf(h) \in Holders
    BY <1>2 DEF RereadCredentials
  <2>2. CASE Moving(h, "call", stored[OwnerOf(h)]) BY <2>1, <2>2 DEF Moving
  <2>3. CASE Moving(h, "ready", Nothing) BY <2>1, <2>3 DEF Moving
  <2>4. CASE Leave(h) BY <2>1, <2>4 DEF Leave, Idle
  <2> QED BY <1>2, <2>2, <2>3, <2>4 DEF RereadCredentials
<1>3. CASE ProviderRotates(h)
  <2>1. /\ UNCHANGED <<stored, adminReq>> /\ OwnerOf(h) \in Holders /\ issued' = issued + 1
        /\ valid' \subseteq valid \cup {issued'}
    BY <1>3 DEF ProviderRotates
  <2>2. CASE Moving(h, "write", FreshToken(issued + 1)) BY <2>1, <2>2, TokenTypes DEF Moving
  <2>3. CASE Leave(h) BY <2>1, <2>3 DEF Leave, Idle
  <2> QED BY <1>3, <2>2, <2>3 DEF ProviderRotates
<1>4. CASE ProviderKeeps(h) BY <1>4, TokenTypes DEF ProviderKeeps, Moving
<1>5. CASE ProviderRejects(h) BY <1>5 DEF ProviderRejects, Leave, Idle
<1>6. CASE StoreRefreshed(h) BY <1>6 DEF StoreRefreshed, Moving
<1>7. CASE RefresherEnds(h) BY <1>7 DEF RefresherEnds, Leave, Idle
<1>8. CASE RefresherDropped(h) BY <1>8 DEF RefresherDropped, Leave, Idle
<1> QED BY <1>2, <1>3, <1>4, <1>5, <1>6, <1>7, <1>8 DEF RefresherStep

\* So do the other steps of a request, and a token that expires.
LEMMA OthersHanded ==
  ASSUME Typed, TokensSound,
         \/ \E h \in Refreshers : \/ RefreshLock(h) \/ Unauthorized(h)
                                  \/ \E row \in OAuthRows : RefreshIfNeeded(h, row) \/ RefreshForced(h, row)
         \/ \E a \in Holders : Expires(a)
  PROVE  \A o : Handed(o)
<1>1. /\ refresher \in [Refreshers -> RefresherState] /\ stored \in [Holders -> Credentials]
      /\ issued \in Nat /\ valid \subseteq Grants
  BY OAuthBounds DEF Typed, OAuthTypeOK, Grants
<1> USE <1>1 DEF Handed, Has, RequestHas, AdminHas, OwnerOf, provider
<1>2. ASSUME NEW h \in Refreshers, NEW row \in OAuthRows, NEW pc \in {"wait", "ready"}, NEW force \in BOOLEAN,
             Begin(h, row, pc, force)
      PROVE  \A o : Handed(o)
  BY <1>2 DEF Begin
<1>3. ASSUME NEW h \in Refreshers, RefreshLock(h) PROVE \A o : Handed(o)
  BY <1>3 DEF RefreshLock, Move
<1>4. ASSUME NEW h \in Refreshers, Unauthorized(h) PROVE \A o : Handed(o)
  BY <1>4 DEF Unauthorized
<1>5. ASSUME NEW a \in Holders, Expires(a) PROVE \A o : Handed(o)
  BY <1>5 DEF Expires
<1> QED BY <1>2, <1>3, <1>4, <1>5 DEF RefreshIfNeeded, RefreshForced

\* An administrator writes back tokens of the same account, or new ones.
LEMMA AdminHanded ==
  ASSUME Typed, TokensSound, NEW x \in Admins, AdminStep(x)
  PROVE  \E o : Handed(o)
<1>1. /\ adminReq \in [Admins -> AdminState] /\ stored \in [Holders -> Credentials]
      /\ issued \in Nat /\ valid \subseteq Grants /\ adminReq[x].owner \in Holders
  BY OAuthBounds DEF Typed, OAuthTypeOK, Grants, AdminState
<1> USE <1>1, TokenTypes DEF Handed, Has, RequestHas, AdminHas, OwnerOf, provider
<1>2. ASSUME NEW a \in Holders, EditReads(x, a) PROVE Handed(a)
  BY <1>2 DEF EditReads
<1>3. ASSUME NEW a \in Holders, DeleteOwner(x, a) PROVE Handed(a)
  BY <1>3 DEF DeleteOwner
<1>4. ASSUME NEW a \in Holders, NEW age \in {"fresh", "endless"}, PasteCredentials(x, a, age) PROVE Handed(a)
  BY <1>4 DEF PasteCredentials
<1>5. ASSUME NEW a \in Holders, NEW f \in Flows, StartFlow(x, f, a) PROVE Handed(a)
  <2>1. /\ UNCHANGED <<stored, valid, issued, refresher>>
        /\ \A y \in Admins : adminReq'[y].pc = adminReq[y].pc /\ (adminReq[y].pc # "idle" => adminReq'[y] = adminReq[y])
    BY <1>5 DEF StartFlow, AdminState
  <2> QED BY <2>1
<1>6. ASSUME EditWrites(x) \/ ReplaceWrites(x) PROVE Handed(adminReq[x].owner)
  <2>1. /\ \A a \in Holders : stored'[a] = stored[a] \/ (a = adminReq[x].owner /\ stored'[a] = adminReq[x].seen)
        /\ adminReq[x].pc \in {"edit", "replace"} /\ adminReq' = [adminReq EXCEPT ![x].pc = "idle"]
        /\ UNCHANGED <<valid, issued, refresher>>
    BY <1>6 DEF EditWrites, ReplaceWrites, WriteBack, AdminMoves
  <2> QED BY <2>1
<1>7. ASSUME TakeFlow(x) PROVE Handed(adminReq[x].owner)
  BY <1>7 DEF TakeFlow, AdminMoves
<1>8. ASSUME ExchangeCode(x) PROVE Handed(adminReq[x].owner)
  <2>1. UNCHANGED <<stored, refresher>>
    BY <1>8 DEF ExchangeCode
  <2>2. \/ /\ issued' = issued + 1 /\ valid' = valid \cup {issued'}
           /\ adminReq' = [adminReq EXCEPT ![x].pc = "read", ![x].seen = FreshToken(issued')]
        \/ /\ UNCHANGED <<issued, valid>>
           /\ adminReq' = [adminReq EXCEPT ![x].pc = "read", ![x].seen = FreshToken(NoToken)]
        \/ /\ UNCHANGED <<issued, valid>>
           /\ adminReq' = [adminReq EXCEPT ![x].pc = "idle"]
    BY <1>8 DEF ExchangeCode, AdminMoves
  <2>3. CASE issued' = issued + 1 /\ valid' = valid \cup {issued'}
    <3>1. adminReq' = [adminReq EXCEPT ![x].pc = "read", ![x].seen = FreshToken(issued')]
      BY <2>2, <2>3
    <3> QED BY <2>1, <2>3, <3>1
  <2>4. CASE UNCHANGED <<issued, valid>> /\ adminReq' = [adminReq EXCEPT ![x].pc = "read", ![x].seen = FreshToken(NoToken)]
    BY <2>1, <2>4
  <2>5. CASE UNCHANGED <<issued, valid>> /\ adminReq' = [adminReq EXCEPT ![x].pc = "idle"]
    BY <2>1, <2>5
  <2> QED BY <2>2, <2>3, <2>4, <2>5
<1>9. ASSUME ReplaceReads(x) PROVE Handed(adminReq[x].owner)
  <2>1. /\ UNCHANGED <<stored, refresher, issued, valid>> /\ adminReq[x].pc = "read"
        /\ \A y \in Admins \ {x} : adminReq'[y] = adminReq[y]
        /\ adminReq'[x].pc # "idle" => /\ adminReq'[x].owner = adminReq[x].owner
                                       /\ adminReq'[x].seen.refresh \in {adminReq[x].seen.refresh, stored[adminReq[x].owner].refresh}
    BY <1>9 DEF ReplaceReads, AdminMoves, AdminState, Credentials
  <2> QED BY <2>1
<1> HIDE DEF Handed, Has
<1> QED BY <1>2, <1>3, <1>4, <1>5, <1>6, <1>7, <1>8, <1>9 DEF AdminStep

\* No step brings two accounts the same token.
LEMMA TokensStep ==
  ASSUME Typed, TokensSound, [OAuthNext]_oauthVars
  PROVE  TokensSound'
<1>1. CASE UNCHANGED oauthVars
  BY <1>1 DEF oauthVars, TokensSound, TokensKnown, ValidIssued, TokensApart, Has, RequestHas, AdminHas, OwnerOf
<1> QED BY <1>1, TokensHanded, RequestHanded, OthersHanded, AdminHanded DEF OAuthNext

-----------------------------------------------------------------------------
(* Grants *)

\* A request is about to write a token of the owner's that is accepted.
Writing(a) == \E h \in Refreshers : refresher[h].pc = "write" /\ OwnerOf(h) = a /\ refresher[h].seen.refresh \in valid
TokenKept == \A a \in exists : stored[a].refresh \in valid \cup {NoToken} \/ Writing(a) \/ lost[a] # {}
Presented == \A h \in Refreshers : refresher[h].pc = "call" =>
               refresher[h].seen.refresh \in valid \/ lost[OwnerOf(h)] # {}

\* GrantKept and NeverPresentsUsed, said with quantifiers instead of a set
\* comprehension; the provers take them in this form.
LEMMA GrantParts ==
  /\ Grant <=> TokenKept /\ Presented /\ CarriedValid
  /\ Grant' <=> TokenKept' /\ Presented' /\ CarriedValid'
<1>1. Grant <=> TokenKept /\ Presented /\ CarriedValid
  <2>1. \A a : Carried(a) \cap valid # {} <=> Writing(a)
    BY DEF Carried, Writing
  <2>2. GrantKept <=> TokenKept
    BY <2>1 DEF GrantKept, TokenKept
  <2> QED BY <2>2 DEF Grant, NeverPresentsUsed, Presented
<1>2. Grant' <=> TokenKept' /\ Presented' /\ CarriedValid'
  <2>1. \A a : Carried(a)' \cap valid' # {} <=> Writing(a)'
    BY DEF Carried, Writing
  <2>2. GrantKept' <=> TokenKept'
    BY <2>1 DEF GrantKept, TokenKept
  <2> QED BY <2>2 DEF Grant, NeverPresentsUsed, Presented
<1> QED BY <1>1, <1>2

\* A request that neither carries a token to the row nor is about to present
\* one leaves the grants as they are.
LEMMA GrantFrame ==
  ASSUME Typed, Grant, NEW h \in Refreshers,
         refresher[h].pc # "write", refresher'[h].pc \notin {"call", "write"},
         \A g \in Refreshers \ {h} : refresher'[g] = refresher[g],
         UNCHANGED <<stored, exists, valid, lost>>
  PROVE  Grant'
<1>1. TokenKept /\ Presented /\ CarriedValid
  BY GrantParts
<1>2. ASSUME NEW a, Writing(a) PROVE Writing(a)' BY <1>2 DEF Writing, OwnerOf
<1>3. TokenKept'
  BY <1>1, <1>2 DEF TokenKept
<1>4. ASSUME NEW g \in Refreshers, refresher'[g].pc \in {"call", "write"}
      PROVE  refresher'[g] = refresher[g] /\ OwnerOf(g)' = OwnerOf(g)
  BY <1>4 DEF OwnerOf
<1>5. Presented' /\ CarriedValid'
  BY <1>1, <1>4 DEF Presented, CarriedValid
<1> QED BY <1>3, <1>5, GrantParts

\* Neither do steps that no request takes, when rows change to what the
\* provider accepts, or the loss is recorded.
LEMMA GrantOthers ==
  ASSUME Typed, Grant, refresher' = refresher, exists' \subseteq exists, valid \subseteq valid',
         \A a \in Holders : lost[a] # {} => lost'[a] # {},
         \A a \in exists' : \/ stored'[a].refresh \in {stored[a].refresh, NoToken} \cup valid'
                            \/ lost'[a] # {}
  PROVE  Grant'
<1>1. TokenKept /\ Presented /\ CarriedValid /\ exists \subseteq Holders
  BY GrantParts DEF Typed, OAuthTypeOK
<1>2. ASSUME NEW a, Writing(a) PROVE Writing(a)'
  BY <1>2 DEF Writing, OwnerOf
<1>3. TokenKept'
  BY <1>1, <1>2 DEF TokenKept
<1>4. \A h \in Refreshers : refresher[h].pc = "call" => OwnerOf(h) \in Holders
  BY HolderLocks DEF HoldingSteps
<1>5. Presented' /\ CarriedValid'
  BY <1>1, <1>4 DEF Presented, CarriedValid, OwnerOf
<1> QED BY <1>3, <1>5, GrantParts

\* A refresh keeps the grants: what the provider issues is carried under the
\* lock to the row, or the loss is recorded.
LEMMA GrantRequests ==
  ASSUME Typed, TokensSound, Grant, NEW h \in Refreshers,
         RefresherStep(h) \/ RefresherDropped(h)
  PROVE  Grant'
<1> DEFINE o == OwnerOf(h)
<1>1. /\ refresher \in [Refreshers -> RefresherState] /\ stored \in [Holders -> Credentials]
      /\ lost \in [Holders -> SUBSET Ways] /\ valid \subseteq Grants /\ exists \subseteq Holders
      /\ refresher[h].pc # "idle" => OwnerOf(h) \in Holders
      /\ TokenKept /\ Presented /\ CarriedValid
  BY OwnerType, GrantParts DEF Typed, OAuthTypeOK, RowsKnown, OwnerOf
<1>2. \A g \in Refreshers : refresher[h].pc \in HoldingSteps /\ refresher[g].pc \in HoldingSteps /\ g # h => OwnerOf(g) # o
  BY OneHolder
<1>3. CASE RereadCredentials(h)
  <2>1. UNCHANGED <<stored, exists, valid, lost>> /\ refresher[h].pc = "locked" /\ o \in Holders
    BY <1>1, <1>3 DEF RereadCredentials, provider
  <2>2. CASE Leave(h) \/ Moving(h, "ready", Nothing) BY <1>1, <2>2, <2>1, GrantFrame DEF Leave, Moving, Idle, RefresherState
  <2>3. CASE Moving(h, "call", stored[o]) /\ o \in exists /\ stored[o].refresh # NoToken
    <3>1. ~Writing(o)
      BY <1>2, <2>1 DEF Writing, HoldingSteps
    <3>2. stored[o].refresh \in valid \/ lost[o] # {}
      BY <1>1, <2>3, <3>1 DEF TokenKept
    <3>3. /\ refresher'[h].pc = "call" /\ refresher'[h].seen = stored[o] /\ refresher'[h].row = refresher[h].row
          /\ \A g \in Refreshers \ {h} : refresher'[g] = refresher[g]
      BY <1>1, <2>3 DEF Moving, RefresherState
    <3>4. ASSUME NEW a, Writing(a) PROVE Writing(a)' BY <3>4, <2>1, <3>3 DEF Writing, OwnerOf
    <3>5. TokenKept'
      BY <1>1, <2>1, <3>4 DEF TokenKept
    <3>6. OwnerOf(h)' = o /\ \A g \in Refreshers \ {h} : OwnerOf(g)' = OwnerOf(g)
      BY <3>3 DEF OwnerOf
    <3>7. Presented' /\ CarriedValid'
      BY <1>1, <2>1, <3>2, <3>3, <3>6 DEF Presented, CarriedValid
    <3> QED BY <3>5, <3>7, GrantParts
  <2> QED BY <1>3, <2>2, <2>3 DEF RereadCredentials
<1>4. CASE ProviderRotates(h)
  <2> DEFINE old == refresher[h].seen.refresh
  <2>1. /\ UNCHANGED <<stored, exists>> /\ refresher[h].pc = "call" /\ o \in Holders
        /\ old \in valid /\ valid' = (valid \ {old}) \cup {issued + 1}
    BY <1>1, <1>4 DEF ProviderRotates
  <2>2. \A a \in Holders \ {o}, t \in valid : Has(a, t) => t \in valid'
    BY <1>1, <2>1 DEF TokensSound, TokensApart, Has, RequestHas
  <2>3. \A g \in Refreshers \ {h} : /\ refresher'[g] = refresher[g]
                                    /\ refresher[g].pc \in {"call", "write"} =>
                                         /\ OwnerOf(g) \in Holders \ {o}
                                         /\ Has(OwnerOf(g), refresher[g].seen.refresh)
    BY <1>1, <1>4, HolderLocks, <1>2, <2>1 DEF ProviderRotates, Moving, Leave, HoldingSteps, Has, RequestHas
  <2>4. /\ \A a \in Holders \ {o} : lost'[a] = lost[a]
        /\ \A a \in Holders : lost[a] # {} => lost'[a] # {}
        /\ \/ refresher'[h].pc = "write" /\ refresher'[h].seen.refresh = issued + 1 /\ refresher'[h].row = refresher[h].row
           \/ refresher'[h].pc = "idle" /\ lost'[o] # {}
    <3>1. CASE Moving(h, "write", FreshToken(issued + 1)) /\ lost' = lost
      BY <1>1, <3>1, TokenTypes DEF Moving, RefresherState
    <3>2. CASE Leave(h) /\ lost' = [lost EXCEPT ![o] = @ \cup {"dropped"}]
      BY <1>1, <2>1, <3>2 DEF Leave, Idle
    <3> QED BY <1>4, <3>1, <3>2 DEF ProviderRotates
  <2>5. TokenKept'
    <3> SUFFICES ASSUME NEW a \in exists, lost'[a] = {}
                 PROVE  stored[a].refresh \in valid' \cup {NoToken} \/ Writing(a)'
      BY <2>1 DEF TokenKept
    <3>1. CASE a = o BY <2>1, <2>4, <3>1 DEF OwnerOf, Writing
    <3>2. CASE a # o
      <4>1. a \in Holders /\ lost[a] = {} /\ (stored[a].refresh \in valid \cup {NoToken} \/ Writing(a))
        BY <1>1, <2>4, <3>2 DEF TokenKept
      <4>2. stored[a].refresh \in valid => stored[a].refresh \in valid'
        BY <2>2, <3>2, <4>1 DEF Has
      <4>3. ASSUME Writing(a) PROVE Writing(a)' BY <4>3, <3>2, <2>3, <2>2, <4>1 DEF Writing, OwnerOf
      <4> QED BY <4>1, <4>2, <4>3
    <3> QED BY <3>1, <3>2
  <2>6. \A g \in Refreshers \ {h} : refresher'[g] = refresher[g] /\ OwnerOf(g)' = OwnerOf(g) BY <2>3 DEF OwnerOf
  <2>7. Presented' BY <2>4, <2>6, <2>3, <1>1, <2>2 DEF Presented
  <2>8. CarriedValid'
    <3> SUFFICES ASSUME NEW g \in Refreshers, refresher'[g].pc = "write"
                 PROVE  refresher'[g].seen.refresh \in valid'
      BY DEF CarriedValid
    <3>1. CASE g = h BY <2>1, <2>4, <3>1
    <3>2. CASE g # h BY <2>3, <2>6, <3>2, <1>1, <2>2 DEF CarriedValid
    <3> QED BY <3>1, <3>2
  <2> QED BY <2>5, <2>7, <2>8, GrantParts
<1>5. CASE ProviderKeeps(h)
  <2>1. /\ UNCHANGED <<stored, exists, valid, lost>> /\ refresher[h].pc = "call"
        /\ refresher'[h].pc = "write" /\ refresher'[h].seen.refresh \in valid /\ refresher'[h].row = refresher[h].row
        /\ \A g \in Refreshers \ {h} : refresher'[g] = refresher[g]
    BY <1>1, <1>5, TokenTypes DEF ProviderKeeps, provider, Moving, RefresherState
  <2> QED BY <1>1, <2>1, GrantParts DEF TokenKept, Writing, Presented, CarriedValid, OwnerOf
<1>6. CASE ProviderRejects(h) \/ RefresherEnds(h)
  BY <1>1, <1>6, GrantFrame DEF ProviderRejects, RefresherEnds, provider, Leave, Idle
<1>7. CASE StoreRefreshed(h)
  <2>1. /\ UNCHANGED <<exists, valid, lost>> /\ refresher[h].pc = "write" /\ o \in Holders
        /\ o \in exists => stored'[o] = refresher[h].seen
        /\ \A a \in exists \ {o} : stored'[a] = stored[a]
        /\ refresher'[h].pc = "ready" /\ \A g \in Refreshers \ {h} : refresher'[g] = refresher[g]
    BY <1>1, <1>7 DEF StoreRefreshed, provider, Moving, RefresherState
  <2> QED BY <1>1, <2>1, GrantParts DEF TokenKept, Writing, Presented, CarriedValid, OwnerOf
<1>8. CASE RefresherDropped(h)
  <2>1. /\ UNCHANGED <<stored, exists, valid>> /\ Leave(h) /\ refresher[h].pc # "idle" /\ o \in Holders
        /\ \A a \in Holders : lost[a] # {} => lost'[a] # {}
        /\ refresher[h].pc = "write" => lost'[o] # {}
    BY <1>1, <1>8 DEF RefresherDropped, provider
  <2>2. refresher'[h].pc = "idle" /\ \A g \in Refreshers \ {h} : refresher'[g] = refresher[g]
    BY <1>1, <2>1 DEF Leave, Idle
  <2>3. TokenKept' /\ CarriedValid'
    BY <1>1, <2>1, <2>2 DEF TokenKept, Writing, CarriedValid, OwnerOf
  <2>4. \A g \in Refreshers : refresher[g].pc = "call" => OwnerOf(g) \in Holders
    BY HolderLocks DEF HoldingSteps
  <2>5. Presented'
    BY <1>1, <2>1, <2>2, <2>4 DEF Presented, OwnerOf
  <2> QED BY <2>3, <2>5, GrantParts
<1> QED BY <1>3, <1>4, <1>5, <1>6, <1>7, <1>8 DEF RefresherStep

\* Every step keeps the grants.
LEMMA GrantStep ==
  ASSUME Typed, TokensSound, Grant, [OAuthNext]_oauthVars
  PROVE  Grant'
<1>1. /\ refresher \in [Refreshers -> RefresherState] /\ stored \in [Holders -> Credentials]
      /\ lost \in [Holders -> SUBSET Ways] /\ exists \subseteq Holders /\ adminReq \in [Admins -> AdminState]
  BY DEF Typed, OAuthTypeOK
<1>2. CASE UNCHANGED oauthVars
  BY <1>2, GrantOthers DEF oauthVars
<1>3. ASSUME NEW h \in Refreshers, NEW row \in OAuthRows, RefreshIfNeeded(h, row) \/ RefreshForced(h, row)
      PROVE  Grant'
  BY <1>3, <1>1, GrantFrame DEF RefreshIfNeeded, RefreshForced, Begin, provider
<1>4. ASSUME NEW h \in Refreshers, Unauthorized(h) \/ RefreshLock(h)
      PROVE  Grant'
  <2>1. /\ UNCHANGED <<stored, exists, valid, lost>> /\ refresher[h].pc \in {"ready", "wait"}
        /\ refresher'[h].pc \in {"wait", "locked"}
        /\ \A g \in Refreshers \ {h} : refresher'[g] = refresher[g]
    BY <1>1, <1>4 DEF Unauthorized, provider, RefresherState, RefreshLock, Move
  <2> QED BY <2>1, GrantFrame
<1>5. ASSUME NEW a \in Holders, Expires(a)
      PROVE  Grant'
  BY <1>1, <1>5, GrantOthers DEF Expires, provider, Credentials
<1>6. ASSUME NEW x \in Admins, AdminStep(x)
      PROVE  Grant'
  <2>1. adminReq[x].owner \in Holders
    BY <1>1 DEF AdminState
  <2>2. CASE EditWrites(x) \/ ReplaceWrites(x)
    BY <2>2, <1>1, <2>1, GrantOthers DEF EditWrites, ReplaceWrites, provider, WriteBack
  <2>3. CASE \E a \in Holders : DeleteOwner(x, a) BY <1>1, <2>3, TokenTypes, GrantOthers DEF DeleteOwner, provider
  <2>4. CASE \E a \in Holders : \E age \in {"fresh", "endless"} : PasteCredentials(x, a, age)
    BY <2>4, <1>1, GrantOthers DEF PasteCredentials
  <2>5. CASE \/ \E a \in Holders : EditReads(x, a) \/ \E f \in Flows : StartFlow(x, f, a)
             \/ TakeFlow(x) \/ ExchangeCode(x) \/ ReplaceReads(x)
    <3>1. UNCHANGED <<stored, exists, lost, refresher>> /\ valid \subseteq valid'
      BY <2>5 DEF EditReads, StartFlow, TakeFlow, ExchangeCode, ReplaceReads, provider
    <3> QED BY SMTT(30), <3>1, GrantOthers
  <2> QED BY <1>6, <2>2, <2>3, <2>4, <2>5 DEF AdminStep
<1> QED BY <1>2, <1>3, <1>4, <1>5, <1>6, GrantRequests DEF OAuthNext

-----------------------------------------------------------------------------
(* OAuth states *)

\* A step that starts no exchange and leaves the states alone.
LEMMA ExchangeFrame ==
  ASSUME Exchange, flows' = flows,
         \A x \in Admins : adminReq'[x].pc = "exchange" =>
           adminReq[x].pc = "exchange" /\ adminReq'[x].flow = adminReq[x].flow
  PROVE  Exchange'
BY DEF Exchange, FlowExchangedOnce, ExchangedApart

\* The state of a callback is taken before its code is exchanged, so no
\* other callback finds it open.
LEMMA ExchangeStep ==
  ASSUME Typed, Exchange, [OAuthNext]_oauthVars
  PROVE  Exchange'
<1>1. /\ adminReq \in [Admins -> AdminState] /\ flows \in [Flows -> FlowState]
      /\ \A x \in Admins : adminReq[x].flow \in Flows
      /\ \A f \in Flows : flows[f].used \in Nat
      /\ FlowExchangedOnce /\ ExchangedApart
  BY DEF Typed, OAuthTypeOK, Exchange, AdminState, FlowState
<1>2. CASE \/ UNCHANGED oauthVars
           \/ \E h \in Refreshers :
                \/ RefresherStep(h) \/ RefreshLock(h) \/ Unauthorized(h) \/ RefresherDropped(h)
                \/ \E row \in OAuthRows : RefreshIfNeeded(h, row) \/ RefreshForced(h, row)
           \/ \E a \in Holders : Expires(a)
  <2>1. flows' = flows /\ adminReq' = adminReq
    BY <1>2 DEF oauthVars, RefresherStep, RereadCredentials, ProviderRotates, ProviderKeeps, ProviderRejects,
                StoreRefreshed, RefresherEnds, RefreshLock, Unauthorized, RefresherDropped, RefreshIfNeeded,
                RefreshForced, Begin, Expires
  <2> QED BY <2>1, ExchangeFrame
<1>3. ASSUME NEW x \in Admins, AdminStep(x)
      PROVE  Exchange'
  <2>1. CASE \/ \E a \in Holders : \/ EditReads(x, a) \/ DeleteOwner(x, a)
                                   \/ \E age \in {"fresh", "endless"} : PasteCredentials(x, a, age)
             \/ EditWrites(x) \/ ReplaceWrites(x) \/ ReplaceReads(x)
    <3>1. /\ flows' = flows /\ \A y \in Admins \ {x} : adminReq'[y] = adminReq[y]
          /\ adminReq'[x].pc \in {"edit", "idle", "replace"} \/ adminReq'[x] = adminReq[x]
      <4>1. CASE \E a \in Holders : \/ EditReads(x, a) \/ DeleteOwner(x, a)
                                   \/ \E age \in {"fresh", "endless"} : PasteCredentials(x, a, age)
        BY <1>1, <4>1 DEF EditReads, DeleteOwner, PasteCredentials, AdminState
      <4>2. CASE EditWrites(x) \/ ReplaceWrites(x)
        BY <1>1, <4>2 DEF EditWrites, ReplaceWrites, WriteBack, AdminMoves, AdminState
      <4>3. CASE ReplaceReads(x)
        BY <1>1, <4>3 DEF ReplaceReads, AdminMoves, AdminState
      <4> QED BY <2>1, <4>1, <4>2, <4>3
    <3> QED BY <3>1, ExchangeFrame
  <2>2. CASE \E a \in Holders, f \in Flows : StartFlow(x, f, a)
    <3>0. PICK a \in Holders, f \in Flows : StartFlow(x, f, a)
      BY <2>2
    <3>1. /\ flows[f].state = "none" /\ flows' = [flows EXCEPT ![f].state = "open"]
          /\ \A y \in Admins : /\ adminReq'[y].pc = adminReq[y].pc
                               /\ adminReq[y].pc # "idle" => adminReq'[y] = adminReq[y]
      <4>1. \A y \in Admins : adminReq'[y] = IF adminReq[y].pc = "idle"
                                             THEN [adminReq[y] EXCEPT !.owner = a, !.flow = f] ELSE adminReq[y]
        BY <3>0 DEF StartFlow
      <4>2. \A y \in Admins : [adminReq[y] EXCEPT !.owner = a, !.flow = f].pc = adminReq[y].pc
        BY <1>1 DEF AdminState
      <4> QED BY <3>0, <4>1, <4>2 DEF StartFlow
    <3>2. /\ flows'[f].state = "open" /\ flows'[f].used = 0
          /\ \A e \in Flows \ {f} : flows'[e] = flows[e]
      BY <1>1, <3>1 DEF ExchangedApart, FlowState
    <3>3. \A y \in Admins : adminReq'[y].pc = "exchange" => adminReq'[y] = adminReq[y] /\ adminReq[y].flow \in Flows \ {f}
      BY <1>1, <3>1 DEF ExchangedApart
    <3> QED BY <1>1, <3>2, <3>3 DEF Exchange, FlowExchangedOnce, ExchangedApart
  <2>3. CASE TakeFlow(x)
    <3> DEFINE f == adminReq[x].flow
    <3>1. /\ f \in Flows /\ flows[f].state = "open"
          /\ adminReq'[x].pc = "exchange" /\ adminReq'[x].flow = f
          /\ \A y \in Admins \ {x} : adminReq'[y] = adminReq[y]
      BY <1>1, <2>3 DEF TakeFlow, AdminMoves, AdminState
    <3>2. /\ flows'[f].state = "taken" /\ flows'[f].used = 0
          /\ \A e \in Flows \ {f} : flows'[e] = flows[e]
      BY <1>1, <2>3, <3>1 DEF TakeFlow, ExchangedApart, FlowState
    <3>3. \A y \in Admins \ {x} : adminReq[y].pc = "exchange" => adminReq[y].flow \in Flows \ {f}
      BY <1>1, <3>1 DEF ExchangedApart
    <3> HIDE DEF f
    <3> QED BY <1>1, <3>1, <3>2, <3>3 DEF Exchange, FlowExchangedOnce, ExchangedApart
  <2>4. CASE ExchangeCode(x)
    <3> DEFINE f == adminReq[x].flow
    <3>1. /\ f \in Flows /\ adminReq[x].pc = "exchange" /\ flows[f].used = 0 /\ flows[f].state = "taken"
          /\ adminReq'[x].pc \in {"read", "idle"} /\ \A y \in Admins \ {x} : adminReq'[y] = adminReq[y]
      BY <1>1, <2>4 DEF ExchangeCode, AdminMoves, ExchangedApart, AdminState
    <3>2. /\ flows'[f].state = "taken" /\ flows'[f].used \in {0, 1}
          /\ \A e \in Flows \ {f} : flows'[e] = flows[e]
      BY <1>1, <2>4, <3>1 DEF ExchangeCode, FlowState
    <3>3. \A y \in Admins \ {x} : adminReq[y].pc = "exchange" => adminReq[y].flow \in Flows \ {f}
      BY <1>1, <3>1 DEF ExchangedApart
    <3> HIDE DEF f
    <3> QED BY <1>1, <3>1, <3>2, <3>3 DEF Exchange, FlowExchangedOnce, ExchangedApart
  <2> QED BY <1>3, <2>1, <2>2, <2>3, <2>4 DEF AdminStep
<1> QED BY <1>2, <1>3 DEF OAuthNext

-----------------------------------------------------------------------------
\* Every account starts with a token of its own that the provider accepts.
LEMMA GrantInit == OAuthInit => TokensSound /\ Grant /\ Exchange
<1> SUFFICES ASSUME OAuthInit PROVE TokensSound /\ Grant /\ Exchange
  OBVIOUS
<1>1. PICK n \in [Holders -> Grants] :
        /\ \A a, b \in Holders : a # b => n[a] # n[b]
        /\ \A a \in Holders : n[a] <= Cardinality(Holders)
        /\ stored = [a \in Holders |-> FreshToken(n[a])]
  BY DEF OAuthInit
<1>2. issued \in Nat /\ valid = 1 .. issued /\ Cardinality(Holders) = issued
  BY TypedInit, OAuthBounds DEF OAuthInit, Typed, OAuthTypeOK
<1>3. \A a \in Holders : stored[a].refresh = n[a] /\ n[a] \in Nat /\ n[a] \in valid
  BY <1>1, <1>2, TokenTypes, OAuthBounds DEF Grants
<1>4. /\ \A h \in Refreshers : refresher[h].pc = "idle"
      /\ \A x \in Admins : adminReq[x].pc = "idle"
  BY DEF OAuthInit, Idle
<1>5. \A a \in Holders, t \in Grants : Has(a, t) => t = n[a]
  BY <1>3, <1>4 DEF Has, RequestHas, AdminHas
<1>6. TokensSound
  BY <1>1, <1>2, <1>3, <1>5 DEF TokensSound, TokensKnown, ValidIssued, TokensApart
<1>7. Grant
  BY <1>3, <1>4 DEF Grant, GrantKept, NeverPresentsUsed, CarriedValid, OAuthInit
<1>8. Exchange
  BY <1>4 DEF OAuthInit, Exchange, FlowExchangedOnce, ExchangedApart
<1> QED BY <1>6, <1>7, <1>8

\* In every behaviour, whatever the number of accounts, shadows, requests
\* and administrators: a lock is held exactly by the request that took it and
\* has not yet left; the token the provider accepts is in the row or carried
\* by the request that holds the lock, no request presents a used token, and
\* no OAuth state is exchanged twice (oauth.rs, refresh_account, complete_flow).
THEOREM GrantsCorrect == OAuthSpec => []GrantsSafe
<1>1. OAuthInit => GrantInv
  BY TypedInit, GrantInit DEF GrantInv
<1>2. GrantInv /\ [OAuthNext]_oauthVars => GrantInv'
  BY TypedStep, TokensStep, GrantStep, ExchangeStep DEF GrantInv
<1>3. GrantInv => GrantsSafe
  BY DEF GrantInv, Typed, Grant, Exchange, GrantsSafe
<1> QED BY <1>1, <1>2, <1>3, PTL DEF OAuthSpec

=============================================================================
