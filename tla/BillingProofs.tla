---------------------------- MODULE BillingProofs ----------------------------
(***************************************************************************)
(* Billing, for any number of users, plans, codes, handlers and rows: its  *)
(* types (no balance is overdrawn), that no cent is lost, that a code is   *)
(* used as often as it was redeemed, that a user has one active            *)
(* subscription in a scope, that renewals replace ended periods only, and  *)
(* that every period begun was paid for once.  And what calls are charged, *)
(* for any price lists, rules and answers: prices are unambiguous, a call  *)
(* costs what its price and its usage say, an answer is told once and in   *)
(* order, and a call that failed is free but for a rule or a redirection.  *)
(***************************************************************************)
EXTENDS Billing, Responses, TotalsProofs, SequenceTheorems

\* Whoever has decided on a row has seen it, and rows are never deleted.
RowsKnown == \A w \in Workers : job[w].kind \in {"auto", "renew"} => sub[job[w].sub] \in Sub

BillingInv == TypeOK /\ RowsKnown

-----------------------------------------------------------------------------
(* What a step does to the subscriptions *)

\* What becomes of a row that no renewal paid for: its owner, its scope and
\* its period stay, a period that has ended has ended, and it is not revived.
RowFollows(r, q) ==
  /\ q \in Sub
  /\ q.user = r.user /\ q.scope = r.scope /\ q.period = r.period
  /\ r.ended => q.ended
  /\ q.status = "active" => r.status = "active"

RowsFollow ==
  /\ sub' \in [SubIds -> Sub \cup {NoSub}]
  /\ \A s \in SubIds : sub[s] \in Sub => RowFollows(sub[s], sub'[s])

NoNewRow == \A s \in SubIds : sub[s] = NoSub => sub'[s] = NoSub

Begins(s, u, p, g) ==
  /\ s \in SubIds /\ u \in Users /\ p \in Plans /\ g \in Scopes
  /\ sub[s] = NoSub
  /\ sub' = WithNewSub(s, u, p, g)

\* A row is one of a subscription, or absent.
LEMMA SubRow ==
  ASSUME TypeOK, NEW s \in SubIds
  PROVE  /\ sub[s] \in Sub <=> sub[s] # NoSub
         /\ sub[s] \in Sub <=> sub[s].status # "none"
         /\ s \in Rows(sub) <=> sub[s] \in Sub
BY DEF Sub, NoSub, TypeOK, Rows

\* What was read before a commit, by its kind.
LEMMA JobFields ==
  ASSUME TypeOK, NEW w \in Workers
  PROVE  /\ job[w].kind = "purchase" => /\ job[w].user \in Users /\ job[w].plan \in Plans
                                        /\ job[w].scope \in Scopes /\ job[w].price \in Nat
         /\ job[w].kind = "assign" => /\ job[w].user \in Users /\ job[w].plan \in Plans
                                      /\ job[w].scope \in Scopes
         /\ job[w].kind = "redeem" => /\ job[w].user \in Users /\ job[w].plan \in Plans
                                      /\ job[w].scope \in Scopes /\ job[w].code \in Codes
         /\ job[w].kind = "auto" => job[w].sub \in SubIds /\ job[w].on \in BOOLEAN
         /\ job[w].kind = "renew" => /\ job[w].sub \in SubIds /\ job[w].price \in Nat
                                     /\ job[w].period \in Nat /\ job[w].ok \in BOOLEAN
<1>1. job[w] \in Job BY DEF TypeOK
<1>2. job[w].kind = "purchase" =>
        job[w] \in [kind : {"purchase"}, user : Users, plan : Plans, price : Prices, scope : Scopes]
  BY <1>1 DEF Job, Idle
<1>3. job[w].kind = "assign" => job[w] \in [kind : {"assign"}, user : Users, plan : Plans, scope : Scopes]
  BY <1>1 DEF Job, Idle
<1>4. job[w].kind = "redeem" =>
        job[w] \in [kind : {"redeem"}, user : Users, code : Codes, plan : Plans, scope : Scopes]
  BY <1>1 DEF Job, Idle
<1>5. job[w].kind = "auto" => job[w] \in [kind : {"auto"}, sub : SubIds, on : BOOLEAN]
  BY <1>1 DEF Job, Idle
<1>6. job[w].kind = "renew" =>
        job[w] \in [kind : {"renew"}, sub : SubIds, price : Prices, period : Nat, ok : BOOLEAN]
  BY <1>1 DEF Job, Idle
<1> QED BY <1>2, <1>3, <1>4, <1>5, <1>6, PricesAssumption

\* A statement that writes one row.
LEMMA OneRow ==
  ASSUME TypeOK, NEW s \in SubIds, sub[s] \in Sub, NEW q, RowFollows(sub[s], q),
         sub' = [sub EXCEPT ![s] = q]
  PROVE  RowsFollow /\ NoNewRow
<1>1. sub[s] # NoSub BY SubRow
<1>2. q \in Sub BY DEF RowFollows
<1>3. sub' \in [SubIds -> Sub \cup {NoSub}] BY <1>2 DEF TypeOK
<1>4. ASSUME NEW t \in SubIds, sub[t] \in Sub PROVE RowFollows(sub[t], sub'[t])
  <2>1. CASE t = s BY <2>1 DEF TypeOK
  <2>2. CASE t # s BY <2>2, <1>4 DEF TypeOK, RowFollows
  <2> QED BY <2>1, <2>2
<1>5. NoNewRow BY <1>1 DEF NoNewRow, TypeOK
<1> QED BY <1>3, <1>4, <1>5 DEF RowsFollow

\* A statement that leaves every row alone.
LEMMA NoRow ==
  ASSUME TypeOK, UNCHANGED sub
  PROVE  RowsFollow /\ NoNewRow
BY DEF RowsFollow, NoNewRow, RowFollows, TypeOK

\* A statement that writes the rows of a set.
LEMMA SomeRows ==
  ASSUME TypeOK, NEW S \in SUBSET SubIds, NEW f,
         \A s \in S : sub[s] \in Sub /\ RowFollows(sub[s], f[s]),
         sub' = [s \in SubIds |-> IF s \in S THEN f[s] ELSE sub[s]]
  PROVE  RowsFollow /\ NoNewRow
<1>1. \A s \in S : f[s] \in Sub BY DEF RowFollows
<1>2. sub' \in [SubIds -> Sub \cup {NoSub}] BY <1>1 DEF TypeOK
<1>3. ASSUME NEW s \in SubIds, sub[s] \in Sub PROVE RowFollows(sub[s], sub'[s]) BY <1>3 DEF RowFollows
<1>4. NoNewRow BY SubRow DEF NoNewRow
<1> QED BY <1>2, <1>3, <1>4 DEF RowsFollow

\* UPDATE .. SET status = 'cancelled' keeps the row's owner and period.
LEMMA CancelledFollows ==
  ASSUME NEW r \in Sub
  PROVE  RowFollows(r, Cancelled(r)) /\ Cancelled(r).status = "cancelled"
BY DEF RowFollows, Cancelled, Sub

\* A new subscription: the active ones of its user and scope are cancelled.
LEMMA BeginsRows ==
  ASSUME TypeOK, NEW s, NEW u, NEW p, NEW g, Begins(s, u, p, g)
  PROVE  /\ RowsFollow
         /\ \A t \in SubIds \ {s} : sub[t] = NoSub => sub'[t] = NoSub
         /\ sub'[s] \in Sub /\ sub'[s].user = u /\ sub'[s].scope = g /\ sub'[s].period = 1
         /\ \A t \in SubIds \ {s} :
              sub[t] \in Sub /\ sub[t].user = u /\ sub[t].scope = g => sub'[t].status # "active"
<1> DEFINE n == [user |-> u, plan |-> p, scope |-> g, status |-> "active", auto |-> FALSE,
                 next |-> "null", period |-> 1, ended |-> FALSE]
<1>1. n \in Sub BY DEF Sub, Begins
<1>2. sub'[s] = n BY DEF Begins, WithNewSub
<1>3. ASSUME NEW t \in SubIds \ {s}
      PROVE  sub'[t] = IF sub[t].status = "active" /\ sub[t].user = u /\ sub[t].scope = g
                       THEN Cancelled(sub[t]) ELSE sub[t]
  BY DEF Begins, WithNewSub
<1>4. ASSUME NEW t \in SubIds \ {s}, sub[t] = NoSub PROVE sub'[t] = NoSub
  BY <1>3, <1>4 DEF NoSub
<1>5. ASSUME NEW t \in SubIds, sub[t] \in Sub PROVE t # s /\ RowFollows(sub[t], sub'[t])
  BY <1>5, SubRow, CancelledFollows, <1>3 DEF Begins, RowFollows
<1>6. ASSUME NEW t \in SubIds \ {s}, sub[t] \in Sub, sub[t].user = u, sub[t].scope = g
      PROVE  sub'[t].status # "active"
  BY <1>3, <1>6, CancelledFollows
<1>7. \A t \in SubIds : sub'[t] \in Sub \cup {NoSub}
  <2> TAKE t \in SubIds
  <2>1. CASE t = s BY <1>1, <1>2, <2>1
  <2>2. CASE t # s /\ sub[t] = NoSub BY <1>4, <2>2
  <2>3. CASE t # s /\ sub[t] # NoSub BY <1>5, <2>3, SubRow DEF RowFollows
  <2> QED BY <2>1, <2>2, <2>3
<1>8. sub' \in [SubIds -> Sub \cup {NoSub}] BY <1>7 DEF Begins, WithNewSub
<1> HIDE DEF n
<1>9. n.user = u /\ n.scope = g /\ n.period = 1 BY DEF n
<1> QED BY <1>1, <1>2, <1>4, <1>5, <1>6, <1>8, <1>9 DEF RowsFollow

Renews(w) == w \in Workers /\ job[w].kind = "renew" /\ RenewPaid(job[w])

\* The row a paid renewal leaves.
Renewed(r, k) == [r EXCEPT !.status = "active", !.next = "end", !.period = k + 1, !.ended = FALSE]

LEMMA RenewedFields ==
  ASSUME NEW r \in Sub, NEW k \in Nat
  PROVE  /\ Renewed(r, k) \in Sub
         /\ Renewed(r, k).user = r.user /\ Renewed(r, k).scope = r.scope
         /\ Renewed(r, k).period = k + 1
<1>1. k + 1 \in Nat OBVIOUS
<1> QED BY <1>1 DEF Renewed, Sub

LEMMA RenewsRow ==
  ASSUME BillingInv, NEW w, Renews(w)
  PROVE  /\ job[w].sub \in SubIds /\ job[w].period \in Nat /\ sub[job[w].sub] \in Sub
         /\ sub' = [sub EXCEPT ![job[w].sub] = Renewed(sub[job[w].sub], job[w].period)]
         /\ sub' \in [SubIds -> Sub \cup {NoSub}]
         /\ job[w].period = sub[job[w].sub].period /\ ~Rival(job[w].sub)
         /\ <<job[w].sub, job[w].period>> \notin succeeded
<1> DEFINE s == job[w].sub
           q == Renewed(sub[s], job[w].period)
<1>1. s \in SubIds /\ job[w].period \in Nat BY JobFields DEF Renews, BillingInv
<1>2. sub[s] \in Sub BY DEF Renews, BillingInv, RowsKnown
<1>3. sub' = [sub EXCEPT ![s] = q] BY <1>1 DEF Renews, RenewPaid, Renewed, BillingInv, TypeOK
<1>4. q \in Sub BY <1>1, <1>2, RenewedFields
<1>5. sub' \in [SubIds -> Sub \cup {NoSub}] BY <1>3, <1>4 DEF BillingInv, TypeOK
<1>6. job[w].period = sub[s].period /\ ~Rival(s) /\ <<s, job[w].period>> \notin succeeded
  BY DEF Renews, RenewPaid, Conflict, Succeeded
<1> QED BY <1>1, <1>2, <1>3, <1>5, <1>6

\* Every other step leaves the rows as they follow from the old ones, or
\* begins a subscription as well.
LEMMA AutoRow ==
  ASSUME BillingInv, NEW h \in Handlers, AutoCommit(h)
  PROVE  RowsFollow /\ NoNewRow
<1> DEFINE j == job[h]
           q == [sub[j.sub] EXCEPT !.auto = j.on, !.next = IF j.on THEN "end" ELSE "null"]
<1>1. h \in Workers /\ j.kind = "auto" BY DEF AutoCommit, Workers
<1>2. j.sub \in SubIds /\ j.on \in BOOLEAN /\ sub[j.sub] \in Sub
  BY <1>1, JobFields DEF BillingInv, RowsKnown
<1>3. sub' = [sub EXCEPT ![j.sub] = q] BY <1>2 DEF AutoCommit, BillingInv, TypeOK
<1>4. RowFollows(sub[j.sub], q) BY <1>2 DEF RowFollows, Sub
<1> QED BY <1>2, <1>3, <1>4, OneRow DEF BillingInv

LEMMA RefusedRow ==
  ASSUME BillingInv, NEW w \in Workers, job[w].kind = "renew", RenewRefused(job[w])
  PROVE  RowsFollow /\ NoNewRow
<1> DEFINE s == job[w].sub
           q == [sub[s] EXCEPT !.status = "expired", !.next = "later"]
<1>1. s \in SubIds /\ sub[s] \in Sub BY JobFields DEF BillingInv, RowsKnown
<1>2. sub' = [sub EXCEPT ![s] = q] BY <1>1 DEF RenewRefused, BillingInv, TypeOK
<1>3. RowFollows(sub[s], q) BY <1>1 DEF RowFollows, Sub
<1> QED BY <1>1, <1>2, <1>3, OneRow DEF BillingInv

LEMMA TimeRow ==
  ASSUME BillingInv, TimePasses
  PROVE  RowsFollow /\ NoNewRow
<1>1. ASSUME NEW s \in SubIds, PeriodEnds(s) PROVE RowsFollow /\ NoNewRow
  BY <1>1, SubRow, OneRow DEF PeriodEnds, BillingInv, TypeOK, RowFollows, Sub
<1>2. ASSUME NEW s \in SubIds, RetryTimeComes(s) PROVE RowsFollow /\ NoNewRow
  BY <1>2, SubRow, OneRow DEF RetryTimeComes, BillingInv, TypeOK, RowFollows, Sub
<1>3. ASSUME NEW c \in Codes, CodeExpires(c) PROVE RowsFollow /\ NoNewRow
  BY <1>3, NoRow DEF CodeExpires, BillingInv
<1>4. ASSUME ListSubscriptions PROVE RowsFollow /\ NoNewRow
  <2> DEFINE S == {s \in SubIds : sub[s].status = "active" /\ sub[s].ended}
             f == [s \in SubIds |-> [sub[s] EXCEPT !.status = "expired"]]
  <2>1. \A s \in S : sub[s] \in Sub BY SubRow DEF BillingInv
  <2>2. \A s \in S : RowFollows(sub[s], f[s]) BY <2>1 DEF RowFollows, Sub
  <2>3. sub' = [s \in SubIds |-> IF s \in S THEN f[s] ELSE sub[s]]
    BY <1>4 DEF ListSubscriptions
  <2> HIDE DEF S, f
  <2>4. S \in SUBSET SubIds BY DEF S
  <2> QED BY <2>1, <2>2, <2>3, <2>4, SomeRows DEF BillingInv
<1> QED BY <1>1, <1>2, <1>3, <1>4 DEF TimePasses

LEMMA AdministeredRow ==
  ASSUME BillingInv, Administered
  PROVE  RowsFollow /\ NoNewRow
<1>1. ASSUME NEW o \in OrderIds, RefundOrder(o) PROVE RowsFollow /\ NoNewRow
  <2> DEFINE s == order[o].sub
  <2>1. CASE sub[s].status = "active"
    <3>1. order[o] \in Order BY <1>1 DEF RefundOrder, BillingInv, TypeOK, NoOrder
    <3>2. s \in SubIds BY <3>1 DEF Order
    <3>3. sub[s] \in Sub BY <2>1, <3>2, SubRow DEF BillingInv
    <3>4. sub' = [sub EXCEPT ![s] = Cancelled(sub[s])]
      BY <1>1, <2>1, <3>2 DEF RefundOrder, BillingInv, TypeOK
    <3> QED BY <3>2, <3>3, <3>4, CancelledFollows, OneRow DEF BillingInv
  <2>2. CASE sub[s].status # "active" BY <1>1, <2>2, NoRow DEF RefundOrder, BillingInv
  <2> QED BY <2>1, <2>2
<1>2. ASSUME NEW s \in SubIds, NEW status \in {"cancelled", "expired"}, UpdateSubscription(s, status)
      PROVE  RowsFollow /\ NoNewRow
  <2> DEFINE q == [Cancelled(sub[s]) EXCEPT !.status = status]
  <2>1. sub[s] \in Sub BY <1>2, SubRow DEF UpdateSubscription, BillingInv
  <2>2. sub' = [sub EXCEPT ![s] = q] BY <1>2 DEF UpdateSubscription, BillingInv, TypeOK
  <2>3. RowFollows(sub[s], q) BY <2>1 DEF RowFollows, Sub, Cancelled
  <2> QED BY <2>1, <2>2, <2>3, OneRow DEF BillingInv
<1>3. ASSUME NEW u \in Users, DeleteUser(u) PROVE RowsFollow /\ NoNewRow
  <2> DEFINE S == {s \in SubIds : sub[s].status = "active" /\ sub[s].user = u}
             f == [s \in SubIds |-> Cancelled(sub[s])]
  <2>1. \A s \in S : sub[s] \in Sub BY SubRow DEF BillingInv
  <2>2. \A s \in S : RowFollows(sub[s], f[s]) BY <2>1, CancelledFollows
  <2>3. sub' = [s \in SubIds |-> IF s \in S THEN f[s] ELSE sub[s]]
    BY <1>3 DEF DeleteUser
  <2> HIDE DEF S, f
  <2>4. S \in SUBSET SubIds BY DEF S
  <2> QED BY <2>1, <2>2, <2>3, <2>4, SomeRows DEF BillingInv
<1>4. ASSUME \/ \E u \in Users, n \in Amounts : AdjustBalance(u, n) \/ AdjustBalance(u, -n)
             \/ \E u \in Users : SwitchUser(u)
             \/ \E p \in Plans, enabled \in BOOLEAN, price \in Prices, scope \in Scopes :
                  UpdatePlan(p, enabled, price, scope)
             \/ \E p \in Plans : CloseGroup(p)
             \/ \E c \in Codes : UpdateCode(c)
      PROVE  RowsFollow /\ NoNewRow
  BY <1>4, NoRow DEF AdjustBalance, SwitchUser, UpdatePlan, CloseGroup, UpdateCode, BillingInv
<1> QED BY <1>1, <1>2, <1>3, <1>4 DEF Administered

\* The three kinds of step.
LEMMA RowKinds ==
  ASSUME BillingInv, [Next]_vars
  PROVE  \/ RowsFollow /\ NoNewRow
         \/ \E s, u, p, g : Begins(s, u, p, g) /\ UNCHANGED succeeded
         \/ \E w \in Workers : Renews(w)
<1>1. CASE Requested
  <2>1. UNCHANGED sub
    BY <1>1 DEF Requested, PurchaseRead, AssignRead, RedeemRead, RetryRenewal, RenewRead, AutoRead, Abandon
  <2> QED BY SMTT(30), <2>1, NoRow DEF BillingInv
<1>2. CASE Committed
  <2>1. ASSUME NEW h \in Handlers, PurchaseCommit(h) \/ AssignCommit(h) \/ RedeemCommit(h)
        PROVE  \/ RowsFollow /\ NoNewRow
               \/ \E s, u, p, g : Begins(s, u, p, g) /\ UNCHANGED succeeded
    <3> DEFINE j == job[h]
    <3>1. j.user \in Users /\ j.plan \in Plans /\ j.scope \in Scopes /\ UNCHANGED succeeded
      BY <2>1, JobFields DEF PurchaseCommit, AssignCommit, RedeemCommit, Workers, BillingInv
    <3>2. UNCHANGED sub \/ \E s \in NewSubs : sub' = WithNewSub(s, j.user, j.plan, j.scope)
      BY <2>1 DEF PurchaseCommit, AssignCommit, RedeemCommit, Redeems
    <3>3. CASE UNCHANGED sub BY <3>3, NoRow DEF BillingInv
    <3>4. ASSUME NEW s \in NewSubs, sub' = WithNewSub(s, j.user, j.plan, j.scope)
          PROVE  Begins(s, j.user, j.plan, j.scope)
      BY <3>1, <3>4 DEF Begins, NewSubs
    <3> QED BY <3>1, <3>2, <3>3, <3>4
  <2>2. ASSUME NEW h \in Handlers, AutoCommit(h) PROVE RowsFollow /\ NoNewRow
    BY <2>2, AutoRow
  <2>3. ASSUME NEW w \in Workers, RenewCommit(w)
        PROVE  (RowsFollow /\ NoNewRow) \/ Renews(w)
    BY <2>3, RefusedRow, NoRow DEF RenewCommit, RenewRolledBack, BillingInv, Renews
  <2> QED BY <1>2, <2>1, <2>2, <2>3 DEF Committed
<1>3. CASE Scheduled BY <1>3, NoRow DEF Scheduled, ProcessDueRenewals, ScheduledRenewal, ScheduledSkip, RenewRead, BillingInv
<1>4. CASE TimePasses BY <1>4, TimeRow
<1>5. CASE Administered BY <1>5, AdministeredRow
<1>6. CASE UNCHANGED vars BY <1>6, NoRow DEF vars, BillingInv
<1> QED BY <1>1, <1>2, <1>3, <1>4, <1>5, <1>6 DEF Next

\* Rows stay, with their owner and scope.
LEMMA RowsStay ==
  ASSUME BillingInv, [Next]_vars
  PROVE  /\ sub' \in [SubIds -> Sub \cup {NoSub}]
         /\ \A s \in SubIds : sub[s] \in Sub =>
              sub'[s] \in Sub /\ sub'[s].user = sub[s].user /\ sub'[s].scope = sub[s].scope
<1>1. CASE RowsFollow BY <1>1 DEF RowsFollow, RowFollows
<1>2. ASSUME NEW s, NEW u, NEW p, NEW g, Begins(s, u, p, g) PROVE RowsFollow
  BY <1>2, BeginsRows DEF BillingInv
<1>3. ASSUME NEW w \in Workers, Renews(w)
      PROVE  /\ sub' \in [SubIds -> Sub \cup {NoSub}]
             /\ \A s \in SubIds : sub[s] \in Sub =>
                  sub'[s] \in Sub /\ sub'[s].user = sub[s].user /\ sub'[s].scope = sub[s].scope
  <2> DEFINE r == job[w].sub
             q == Renewed(sub[r], job[w].period)
  <2>1. /\ r \in SubIds /\ sub[r] \in Sub /\ job[w].period \in Nat /\ sub' = [sub EXCEPT ![r] = q]
        /\ sub' \in [SubIds -> Sub \cup {NoSub}]
    BY <1>3, RenewsRow
  <2>2. q \in Sub /\ q.user = sub[r].user /\ q.scope = sub[r].scope BY <2>1, RenewedFields
  <2> HIDE DEF q
  <2>3. ASSUME NEW s \in SubIds, sub[s] \in Sub
        PROVE  sub'[s] \in Sub /\ sub'[s].user = sub[s].user /\ sub'[s].scope = sub[s].scope
    BY <2>1, <2>2, <2>3 DEF BillingInv, TypeOK
  <2> QED BY <2>1, <2>3
<1> QED BY <1>1, <1>2, <1>3, RowKinds

-----------------------------------------------------------------------------
(* Types *)

LEMMA InitType == Init => BillingInv
BY Plan0Assumption, Balance0Assumption DEF Init, Job, TypeOK, RowsKnown, Idle, BillingInv

\* A job is taken up about a row that is there, or is finished.
LEMMA JobStep ==
  ASSUME BillingInv, [Next]_vars
  PROVE  job' \in [Workers -> Job] /\ RowsKnown'
<1> DEFINE TakenBy(w, j) == /\ w \in Workers /\ job' = [job EXCEPT ![w] = j] /\ j \in Job
                            /\ j.kind \in {"auto", "renew"} => sub[j.sub] \in Sub
<1>1. ASSUME NEW w \in Workers, job' = [job EXCEPT ![w] = Idle] PROVE TakenBy(w, Idle)
  BY <1>1 DEF Job, Idle
<1>2. ASSUME NEW w \in Workers, NEW s \in SubIds, RenewRead(w, s)
      PROVE  \E j : TakenBy(w, j)
  <2> DEFINE j == [kind |-> "renew", sub |-> s, price |-> plan[sub[s].plan].price,
                   period |-> sub[s].period,
                   ok |-> plan[sub[s].plan].enabled /\ account[sub[s].user].enabled
                            /\ plan[sub[s].plan].price > 0]
  <2>1. sub[s] \in Sub BY <1>2, SubRow DEF RenewRead, BillingInv
  <2>2. sub[s].plan \in Plans /\ sub[s].user \in Users /\ sub[s].period \in Nat BY <2>1 DEF Sub
  <2>3. plan[sub[s].plan] \in Plan /\ account[sub[s].user].enabled \in BOOLEAN
    BY <2>2 DEF BillingInv, TypeOK
  <2>4. plan[sub[s].plan].price \in Prices /\ plan[sub[s].plan].enabled \in BOOLEAN
    BY <2>3 DEF Plan
  <2>5. j \in Job BY <2>2, <2>3, <2>4 DEF Job
  <2>6. job' = [job EXCEPT ![w] = j] BY <1>2 DEF RenewRead, Start
  <2>7. j.sub = s OBVIOUS
  <2> QED BY <2>1, <2>5, <2>6, <2>7
<1>3. ASSUME NEW h \in Handlers, NEW s \in SubIds, NEW on \in BOOLEAN, AutoRead(h, s, on)
      PROVE  TakenBy(h, [kind |-> "auto", sub |-> s, on |-> on])
  BY <1>3, SubRow DEF AutoRead, BillingInv, Start, Job, Workers
<1>4. ASSUME NEW h \in Handlers, NEW u \in Users, NEW p \in Plans, PurchaseRead(h, u, p)
      PROVE  \E j : TakenBy(h, j)
  <2> DEFINE j == [kind |-> "purchase", user |-> u, plan |-> p, price |-> plan[p].price,
                   scope |-> plan[p].scope]
  <2>1. plan[p].price \in Prices /\ plan[p].scope \in Scopes BY DEF BillingInv, TypeOK, Plan
  <2>2. j \in Job /\ j.kind = "purchase" BY <2>1 DEF Job
  <2> QED BY <1>4, <2>2 DEF PurchaseRead, Start, Workers
<1>5. ASSUME NEW h \in Handlers, NEW u \in Users, NEW p \in Plans, AssignRead(h, u, p)
      PROVE  \E j : TakenBy(h, j)
  <2> DEFINE j == [kind |-> "assign", user |-> u, plan |-> p, scope |-> plan[p].scope]
  <2>1. plan[p].scope \in Scopes BY DEF BillingInv, TypeOK, Plan
  <2>2. j \in Job /\ j.kind = "assign" BY <2>1 DEF Job
  <2> QED BY <1>5, <2>2 DEF AssignRead, Start, Workers
<1>6. ASSUME NEW h \in Handlers, NEW u \in Users, NEW c \in Codes, RedeemRead(h, u, c)
      PROVE  \E j : TakenBy(h, j)
  <2> DEFINE p == CodePlan[c]
             j == [kind |-> "redeem", user |-> u, code |-> c, plan |-> p, scope |-> plan[p].scope]
  <2>1. p \in Plans BY CodesAssumption
  <2>2. plan[p].scope \in Scopes BY <2>1 DEF BillingInv, TypeOK, Plan
  <2>3. j \in Job /\ j.kind = "redeem" BY <2>1, <2>2 DEF Job
  <2> QED BY <1>6, <2>3 DEF RedeemRead, Start, Workers
<1>7. UNCHANGED job \/ \E w, j : TakenBy(w, j)
  <2>1. CASE Requested
    BY <1>1, <1>2, <1>3, <1>4, <1>5, <1>6, <2>1 DEF Requested, RetryRenewal, Abandon, Finish, Workers
  <2>2. CASE Committed
    BY <1>1, <2>2 DEF Committed, PurchaseCommit, AssignCommit, RedeemCommit, AutoCommit, RenewCommit,
                      Finish, Workers
  <2>3. CASE Scheduled
    BY <1>2, <2>3 DEF Scheduled, ScheduledRenewal, ScheduledSkip, ProcessDueRenewals, Workers
  <2>4. CASE TimePasses \/ Administered \/ UNCHANGED vars
    BY <2>4 DEF TimePasses, PeriodEnds, RetryTimeComes, CodeExpires, ListSubscriptions, Administered,
                RefundOrder, UpdateSubscription, AdjustBalance, SwitchUser, DeleteUser, UpdatePlan,
                CloseGroup, UpdateCode, vars
  <2> QED BY <2>1, <2>2, <2>3, <2>4 DEF Next
<1>8. CASE UNCHANGED job BY JobFields, <1>8, RowsStay DEF BillingInv, TypeOK, RowsKnown
<1>9. ASSUME NEW w, NEW j, TakenBy(w, j) PROVE job' \in [Workers -> Job] /\ RowsKnown'
  <2>0. job \in [Workers -> Job] BY DEF BillingInv, TypeOK
  <2>1. job' \in [Workers -> Job] BY <1>9, <2>0
  <2>2. ASSUME NEW x \in Workers, job'[x].kind \in {"auto", "renew"}
        PROVE  sub'[job'[x].sub] \in Sub
    <3>1. CASE x = w BY <1>9, <2>0, <3>1, <2>2, RowsStay DEF Job, Idle
    <3>2. CASE x # w
      <4>1. job'[x] = job[x] BY <1>9, <2>0, <3>2
      <4>2. job[x].sub \in SubIds BY <2>2, <4>1, JobFields DEF BillingInv
      <4>3. sub[job[x].sub] \in Sub BY <2>2, <4>1 DEF BillingInv, RowsKnown
      <4> QED BY <4>1, <4>2, <4>3, RowsStay
    <3> QED BY <3>1, <3>2
  <2> QED BY <2>1, <2>2 DEF RowsKnown
<1> QED BY <1>7, <1>8, <1>9

-----------------------------------------------------------------------------
(* What a step does to the money *)

ChargesOrder(o, u, s, n, k) ==
  /\ o \in OrderIds /\ order[o] = NoOrder
  /\ u \in Users /\ s \in SubIds /\ n \in Nat /\ k \in Nat
  /\ balance[u] >= n
  /\ Charge(o, u, s, n, k)

Refunds(o) ==
  /\ o \in OrderIds /\ order[o] \in Order /\ order[o].status = "paid"
  /\ order' = [order EXCEPT ![o].status = "refunded"]
  /\ balance' = [balance EXCEPT ![order[o].user] = @ + order[o].amount]
  /\ UNCHANGED granted

Adjusts(u, d) ==
  /\ u \in Users /\ d \in Int /\ balance[u] + d >= 0
  /\ balance' = [balance EXCEPT ![u] = @ + d]
  /\ granted' = [granted EXCEPT ![u] = @ + d]
  /\ UNCHANGED order

LEMMA MoneyKinds ==
  ASSUME BillingInv, [Next]_vars
  PROVE  \/ UNCHANGED money
         \/ \E o, u, s, n, k : ChargesOrder(o, u, s, n, k)
         \/ \E o : Refunds(o)
         \/ \E u, d : Adjusts(u, d)
<1>1. ASSUME NEW h \in Handlers, PurchaseCommit(h)
      PROVE  UNCHANGED money \/ \E o, u, s, n, k : ChargesOrder(o, u, s, n, k)
  <2> DEFINE j == job[h]
  <2>1. j.user \in Users /\ j.price \in Nat
    BY <1>1, JobFields DEF PurchaseCommit, Workers, BillingInv
  <2>2. ASSUME CanPay(j.user, j.price), NEW s \in NewSubs, NEW o \in NewOrders,
               Charge(o, j.user, s, j.price, 0)
        PROVE  ChargesOrder(o, j.user, s, j.price, 0)
    BY SMTT(30), <2>1, <2>2 DEF ChargesOrder, CanPay, NewSubs, NewOrders
  <2> QED BY <1>1, <2>2 DEF PurchaseCommit
<1>2. ASSUME NEW w \in Workers, RenewCommit(w)
      PROVE  UNCHANGED money \/ \E o, u, s, n, k : ChargesOrder(o, u, s, n, k)
  <2> DEFINE j == job[w]
             u == sub[j.sub].user
  <2>1. j.sub \in SubIds /\ j.price \in Nat /\ j.period \in Nat /\ sub[j.sub] \in Sub
    BY <1>2, JobFields DEF RenewCommit, BillingInv, RowsKnown
  <2>2. u \in Users BY <2>1 DEF Sub
  <2>3. ASSUME CanPay(u, j.price), NEW o \in NewOrders, Charge(o, u, j.sub, j.price, j.period)
        PROVE  ChargesOrder(o, u, j.sub, j.price, j.period)
    BY <2>1, <2>2, <2>3 DEF ChargesOrder, CanPay, NewOrders
  <2> QED BY <1>2, <2>3 DEF RenewCommit, RenewRefused, RenewRolledBack, RenewPaid
<1>3. ASSUME NEW o \in OrderIds, RefundOrder(o) PROVE Refunds(o)
  BY <1>3 DEF RefundOrder, BillingInv, TypeOK, NoOrder, Refunds
<1>4. ASSUME NEW u \in Users, NEW n \in Amounts, AdjustBalance(u, n) \/ AdjustBalance(u, -n)
      PROVE  Adjusts(u, n) \/ Adjusts(u, -n)
  BY AmountsAssumption, <1>4 DEF AdjustBalance, Adjusts
<1>5. CASE Requested
  BY <1>5 DEF Requested, PurchaseRead, AssignRead, RedeemRead, RetryRenewal, RenewRead, AutoRead, Abandon
<1>6. CASE Committed BY <1>1, <1>2, <1>6 DEF AssignCommit, RedeemCommit, AutoCommit, Committed
<1>7. CASE Scheduled \/ TimePasses \/ UNCHANGED vars
  BY <1>7 DEF Scheduled, ProcessDueRenewals, ScheduledRenewal, ScheduledSkip, RenewRead, TimePasses,
              PeriodEnds, RetryTimeComes, CodeExpires, ListSubscriptions, vars
<1>8. CASE Administered
  <2>1. ASSUME \/ \E s \in SubIds, status \in {"cancelled", "expired"} : UpdateSubscription(s, status)
               \/ \E u \in Users : SwitchUser(u) \/ DeleteUser(u)
               \/ \E p \in Plans, enabled \in BOOLEAN, price \in Prices, scope \in Scopes :
                    UpdatePlan(p, enabled, price, scope)
               \/ \E p \in Plans : CloseGroup(p)
               \/ \E c \in Codes : UpdateCode(c)
        PROVE  UNCHANGED money
    BY <2>1 DEF UpdateSubscription, SwitchUser, DeleteUser, UpdatePlan, CloseGroup, UpdateCode
  <2> QED BY <1>3, <1>4, <1>8, <2>1 DEF Administered
<1> QED BY <1>5, <1>6, <1>7, <1>8 DEF Next

-----------------------------------------------------------------------------
(* The money *)

PaidAmount(u) == Total(Paid(u), Amount)

MoneyInv == BillingInv /\ MoneyConserved

\* A user's paid orders are finitely many rows with natural amounts.
LEMMA PaidFinite ==
  ASSUME TypeOK, NEW u \in Users
  PROVE  /\ IsFiniteSet(Paid(u)) /\ Paid(u) \subseteq OrderIds
         /\ \A o \in Paid(u) : Amount[o] \in Nat /\ Amount[o] = order[o].amount /\ order[o] \in Order
         /\ PaidAmount(u) \in Nat
<1>1. Paid(u) \subseteq OrderIds BY DEF Paid
<1>2. IsFiniteSet(Paid(u)) BY <1>1, IdsAssumption, FS_Subset
<1>3. \A o \in Paid(u) : order[o] \in Order BY DEF Paid, TypeOK, NoOrder
<1>4. \A o \in Paid(u) : Amount[o] \in Nat /\ Amount[o] = order[o].amount
  BY <1>1, <1>3 DEF Amount, Order
<1>5. PaidAmount(u) \in Nat BY <1>2, <1>4, TotalType DEF PaidAmount
<1> QED BY <1>1, <1>2, <1>3, <1>4, <1>5

LEMMA ChargeMoney ==
  ASSUME MoneyInv, NEW o, NEW u, NEW s, NEW n, NEW k, ChargesOrder(o, u, s, n, k)
  PROVE  /\ balance' \in [Users -> Nat] /\ granted' \in [Users -> Nat]
         /\ order' \in [OrderIds -> Order \cup {NoOrder}]
         /\ MoneyConserved'
<1> DEFINE r == [user |-> u, sub |-> s, amount |-> n, status |-> "paid", renewal |-> k]
<1>1. TypeOK BY DEF MoneyInv, BillingInv
<1>2. r \in Order BY DEF ChargesOrder, Order
<1>3. order' = [order EXCEPT ![o] = r] BY DEF ChargesOrder, Charge
<1>4. order' \in [OrderIds -> Order \cup {NoOrder}] BY <1>1, <1>2, <1>3 DEF TypeOK
<1>5. balance[u] - n \in Nat BY <1>1 DEF ChargesOrder, TypeOK
<1>6. balance' \in [Users -> Nat] /\ granted' \in [Users -> Nat]
  BY <1>1, <1>5 DEF TypeOK, ChargesOrder, Charge
<1>7. ASSUME NEW v \in Users PROVE balance'[v] + PaidAmount(v)' = granted'[v]
  <2>1. /\ IsFiniteSet(Paid(v)) /\ Paid(v) \subseteq OrderIds /\ PaidAmount(v) \in Nat
        /\ \A p \in Paid(v) : Amount[p] \in Nat /\ Amount[p] = order[p].amount
    BY <1>1, PaidFinite
  <2>2. o \notin Paid(v) BY DEF ChargesOrder, Paid, NoOrder
  <2>3. \A p \in OrderIds \ {o} : order'[p] = order[p] BY <1>1, <1>3 DEF TypeOK
  <2>4. order'[o] = r /\ o \in OrderIds BY <1>1, <1>3 DEF TypeOK, ChargesOrder
  <2>5. \A p \in Paid(v) : Amount'[p] = Amount[p] BY <2>1, <2>2, <2>3 DEF Amount
  <2>6. Amount'[o] = n BY <2>4 DEF Amount
  <2>7. balance[v] + PaidAmount(v) = granted[v] BY DEF MoneyInv, MoneyConserved, PaidAmount
  <2>8. granted' = granted BY DEF ChargesOrder, Charge
  <2>9. CASE v = u
    <3>1. Paid(v)' = Paid(v) \cup {o} BY <2>3, <2>4, <2>9 DEF Paid
    <3>2. Total(Paid(v) \cup {o}, Amount') = Total(Paid(v), Amount') + n BY <2>1, <2>5, <2>2, <2>6, TotalAdd DEF ChargesOrder
    <3>3. Total(Paid(v), Amount') = PaidAmount(v) BY <2>5, TotalSame DEF PaidAmount
    <3>4. PaidAmount(v)' = PaidAmount(v) + n BY <3>1, <3>2, <3>3 DEF PaidAmount
    <3>5. balance'[v] = balance[v] - n BY <1>1, <2>9 DEF TypeOK, ChargesOrder, Charge
    <3>6. balance[v] \in Nat /\ n \in Nat BY <1>1 DEF TypeOK, ChargesOrder
    <3> QED BY <2>1, <2>7, <2>8, <3>4, <3>5, <3>6
  <2>10. CASE v # u
    <3>1. Paid(v)' = Paid(v) BY <2>2, <2>3, <2>4, <2>10 DEF Paid
    <3>2. PaidAmount(v)' = PaidAmount(v) BY <2>5, <3>1, TotalSame DEF PaidAmount
    <3>3. balance'[v] = balance[v] BY <1>1, <2>10 DEF TypeOK, ChargesOrder, Charge
    <3> QED BY <2>7, <2>8, <3>2, <3>3
  <2> QED BY <2>9, <2>10
<1> QED BY <1>4, <1>6, <1>7 DEF MoneyConserved, PaidAmount

LEMMA RefundMoney ==
  ASSUME MoneyInv, NEW o, Refunds(o)
  PROVE  /\ balance' \in [Users -> Nat] /\ granted' \in [Users -> Nat]
         /\ order' \in [OrderIds -> Order \cup {NoOrder}]
         /\ MoneyConserved'
<1> DEFINE u == order[o].user
           n == order[o].amount
           r == [order[o] EXCEPT !.status = "refunded"]
<1>1. TypeOK BY DEF MoneyInv, BillingInv
<1>2. u \in Users /\ n \in Nat /\ o \in OrderIds BY DEF Refunds, Order
<1>3. r \in Order /\ r.amount = n /\ r.user = u /\ r.status = "refunded" BY DEF Refunds, Order
<1>4. order' = [order EXCEPT ![o] = r] BY <1>1, <1>2 DEF Refunds, TypeOK
<1>5. balance' = [balance EXCEPT ![u] = balance[u] + n] /\ granted' = granted
  BY <1>1, <1>2 DEF Refunds, TypeOK
<1>6. balance[u] + n \in Nat BY <1>1, <1>2 DEF TypeOK
<1>7. balance' \in [Users -> Nat] /\ granted' \in [Users -> Nat] BY <1>1, <1>5, <1>6 DEF TypeOK
<1> HIDE DEF r
<1>8. order' \in [OrderIds -> Order \cup {NoOrder}] BY <1>1, <1>3, <1>4 DEF TypeOK
<1>9. ASSUME NEW v \in Users PROVE balance'[v] + PaidAmount(v)' = granted'[v]
  <2>1. /\ IsFiniteSet(Paid(v)) /\ Paid(v) \subseteq OrderIds /\ PaidAmount(v) \in Nat
        /\ \A p \in Paid(v) : Amount[p] \in Nat /\ Amount[p] = order[p].amount
    BY <1>1, PaidFinite
  <2>2. \A p \in OrderIds \ {o} : order'[p] = order[p] BY <1>1, <1>4 DEF TypeOK
  <2>3. order'[o] = r BY <1>1, <1>2, <1>4 DEF TypeOK
  <2>4. \A p \in OrderIds : Amount'[p] = Amount[p] BY <1>3, <2>2, <2>3 DEF Amount
  <2>5. balance[v] + PaidAmount(v) = granted[v] BY DEF MoneyInv, MoneyConserved, PaidAmount
  <2>6. CASE v = u
    <3>1. o \in Paid(v) BY <1>2, <2>6 DEF Paid, Refunds
    <3>2. Paid(v)' = Paid(v) \ {o} BY <1>3, <2>2, <2>3 DEF Paid
    <3>3. Total(Paid(v) \ {o}, Amount) = Total(Paid(v), Amount) - Amount[o]
      BY <2>1, <3>1, TotalRemove
    <3>4. Amount[o] = n BY <2>1, <3>1
    <3>5. Total(Paid(v) \ {o}, Amount') = Total(Paid(v) \ {o}, Amount)
      BY <2>1, <2>4, TotalSame
    <3>6. PaidAmount(v)' = PaidAmount(v) - n BY <3>2, <3>3, <3>4, <3>5 DEF PaidAmount
    <3>7. balance'[v] = balance[v] + n /\ balance[v] \in Nat BY <1>1, <1>5, <2>6 DEF TypeOK
    <3> QED BY <1>2, <1>5, <2>1, <2>5, <3>6, <3>7
  <2>7. CASE v # u
    <3>1. o \notin Paid(v) BY <2>7 DEF Paid
    <3>2. Paid(v)' = Paid(v) BY <1>3, <2>2, <2>3, <3>1 DEF Paid
    <3>3. PaidAmount(v)' = PaidAmount(v) BY <2>1, <2>4, <3>2, TotalSame DEF PaidAmount
    <3>4. balance'[v] = balance[v] BY <1>1, <1>5, <2>7 DEF TypeOK
    <3> QED BY <1>5, <2>5, <3>3, <3>4
  <2> QED BY <2>6, <2>7
<1> QED BY <1>7, <1>8, <1>9 DEF MoneyConserved, PaidAmount

LEMMA AdjustMoney ==
  ASSUME MoneyInv, NEW u, NEW d, Adjusts(u, d)
  PROVE  /\ balance' \in [Users -> Nat] /\ granted' \in [Users -> Nat]
         /\ order' \in [OrderIds -> Order \cup {NoOrder}]
         /\ MoneyConserved'
<1>1. TypeOK BY DEF MoneyInv, BillingInv
<1>2. \A v \in Users : balance[v] + PaidAmount(v) = granted[v] /\ PaidAmount(v) \in Nat
  BY <1>1, PaidFinite DEF MoneyInv, MoneyConserved, PaidAmount
<1>3. balance' = [balance EXCEPT ![u] = balance[u] + d] /\ granted' = [granted EXCEPT ![u] = granted[u] + d]
  BY <1>1 DEF Adjusts, TypeOK
<1>4. balance[u] + d \in Nat /\ granted[u] + d \in Nat
  BY <1>1, <1>2 DEF Adjusts, TypeOK
<1>5. balance' \in [Users -> Nat] /\ granted' \in [Users -> Nat]
  BY <1>1, <1>3, <1>4 DEF TypeOK
<1>6. order' = order BY DEF Adjusts
<1>7. \A v \in Users : PaidAmount(v)' = PaidAmount(v) BY <1>6 DEF PaidAmount, Paid, Amount
<1>8. \A v \in Users : balance'[v] + PaidAmount(v)' = granted'[v]
  <2> TAKE v \in Users
  <2>1. CASE v = u BY <1>1, <1>2, <1>3, <1>7, <2>1 DEF TypeOK, Adjusts
  <2>2. CASE v # u BY <1>1, <1>2, <1>3, <1>7, <2>2 DEF TypeOK
  <2> QED BY <2>1, <2>2
<1> QED BY <1>1, <1>5, <1>6, <1>8 DEF MoneyConserved, PaidAmount, TypeOK

LEMMA MoneyStep ==
  ASSUME MoneyInv, [Next]_vars
  PROVE  /\ balance' \in [Users -> Nat] /\ granted' \in [Users -> Nat]
         /\ order' \in [OrderIds -> Order \cup {NoOrder}]
         /\ MoneyConserved'
<1>1. CASE UNCHANGED money
  BY <1>1 DEF money, MoneyInv, BillingInv, TypeOK, MoneyConserved, Paid, Amount
<1> QED BY <1>1, MoneyKinds, ChargeMoney, RefundMoney, AdjustMoney DEF MoneyInv

-----------------------------------------------------------------------------
(* The other variables *)

LEMMA CodeStep ==
  ASSUME BillingInv, [Next]_vars
  PROVE  \/ UNCHANGED codes
         \/ \E h \in Handlers : /\ job[h].kind = "redeem" /\ Claimable(job[h])
                                /\ code' = [code EXCEPT ![job[h].code].used = @ + 1]
                                /\ redemptions' = redemptions \cup {<<job[h].code, job[h].user>>}
         \/ /\ redemptions' = redemptions
            /\ code' \in [Codes -> [enabled : BOOLEAN, expired : BOOLEAN, used : Nat]]
            /\ \A c \in Codes : code'[c].used = code[c].used
<1>1. ASSUME NEW h \in Handlers, RedeemCommit(h)
      PROVE  \/ UNCHANGED codes
             \/ /\ job[h].kind = "redeem" /\ Claimable(job[h])
                /\ code' = [code EXCEPT ![job[h].code].used = @ + 1]
                /\ redemptions' = redemptions \cup {<<job[h].code, job[h].user>>}
  BY <1>1 DEF RedeemCommit, Redeems
<1>2. ASSUME NEW c \in Codes, CodeExpires(c) \/ UpdateCode(c)
      PROVE  /\ redemptions' = redemptions
             /\ code' \in [Codes -> [enabled : BOOLEAN, expired : BOOLEAN, used : Nat]]
             /\ \A d \in Codes : code'[d].used = code[d].used
  <2>1. redemptions' = redemptions BY <1>2 DEF CodeExpires, UpdateCode
  <2>2. \E q \in [enabled : BOOLEAN, expired : BOOLEAN, used : Nat] :
          q.used = code[c].used /\ code' = [code EXCEPT ![c] = q]
    <3>1. CASE CodeExpires(c) BY <3>1 DEF BillingInv, TypeOK, CodeExpires
    <3>2. CASE UpdateCode(c) BY <3>2 DEF BillingInv, TypeOK, UpdateCode
    <3> QED BY <1>2, <3>1, <3>2
  <2>3. PICK q \in [enabled : BOOLEAN, expired : BOOLEAN, used : Nat] :
          q.used = code[c].used /\ code' = [code EXCEPT ![c] = q]
    BY <2>2
  <2> QED BY <2>1, <2>3 DEF BillingInv, TypeOK
<1>3. CASE Requested
  BY <1>3 DEF Requested, PurchaseRead, AssignRead, RedeemRead, RetryRenewal, RenewRead, AutoRead, Abandon
<1>4. CASE Committed
  BY <1>1, <1>4 DEF Committed, PurchaseCommit, AssignCommit, AutoCommit, RenewCommit
<1>5. CASE Scheduled \/ UNCHANGED vars
  BY <1>5 DEF Scheduled, ProcessDueRenewals, ScheduledRenewal, ScheduledSkip, RenewRead, vars
<1>6. CASE TimePasses
  BY <1>2, <1>6 DEF TimePasses, PeriodEnds, RetryTimeComes, ListSubscriptions
<1>7. CASE Administered
  BY <1>2, <1>7 DEF Administered, RefundOrder, UpdateSubscription, AdjustBalance, SwitchUser,
                    DeleteUser, UpdatePlan, CloseGroup
<1> QED BY <1>3, <1>4, <1>5, <1>6, <1>7 DEF Next

Redeemers(c) == {u \in Users : <<c, u>> \in redemptions}

LEMMA CodesKept ==
  ASSUME BillingInv, CodeUses, [Next]_vars
  PROVE  /\ code' \in [Codes -> [enabled : BOOLEAN, expired : BOOLEAN, used : Nat]]
         /\ redemptions' \subseteq Codes \X Users
         /\ CodeUses'
<1>1. TypeOK BY DEF BillingInv
<1>2. CASE UNCHANGED codes BY <1>1, <1>2 DEF codes, TypeOK, CodeUses
<1>3. CASE /\ redemptions' = redemptions
           /\ code' \in [Codes -> [enabled : BOOLEAN, expired : BOOLEAN, used : Nat]]
           /\ \A c \in Codes : code'[c].used = code[c].used
  BY <1>1, <1>3 DEF TypeOK, CodeUses
<1>4. ASSUME NEW h \in Handlers, job[h].kind = "redeem", Claimable(job[h]),
             code' = [code EXCEPT ![job[h].code].used = @ + 1],
             redemptions' = redemptions \cup {<<job[h].code, job[h].user>>}
      PROVE  /\ code' \in [Codes -> [enabled : BOOLEAN, expired : BOOLEAN, used : Nat]]
             /\ redemptions' \subseteq Codes \X Users
             /\ CodeUses'
  <2> DEFINE c == job[h].code
             u == job[h].user
             q == [code[c] EXCEPT !.used = code[c].used + 1]
  <2>1. c \in Codes /\ u \in Users BY <1>1, <1>4, JobFields DEF Workers
  <2>2. code[c].used + 1 \in Nat BY <1>1, <2>1 DEF TypeOK
  <2>3. q \in [enabled : BOOLEAN, expired : BOOLEAN, used : Nat] /\ q.used = code[c].used + 1
    BY <1>1, <2>1, <2>2 DEF TypeOK
  <2>4. code' = [code EXCEPT ![c] = q] BY <1>1, <1>4, <2>1 DEF TypeOK
  <2> HIDE DEF q
  <2>5. code' \in [Codes -> [enabled : BOOLEAN, expired : BOOLEAN, used : Nat]]
    BY <1>1, <2>3, <2>4 DEF TypeOK
  <2>6. redemptions' \subseteq Codes \X Users BY <1>1, <1>4, <2>1 DEF TypeOK
  <2>7. ASSUME NEW d \in Codes
        PROVE  code'[d].used = Cardinality(Redeemers(d)') /\ code'[d].used <= MaxUses[d]
    <3>1. code[d].used = Cardinality(Redeemers(d)) /\ code[d].used <= MaxUses[d]
      BY DEF CodeUses, Redeemers
    <3>2. IsFiniteSet(Redeemers(d)) BY UsersAssumption, FS_Subset DEF Redeemers
    <3>3. CASE d = c
      <4>1. u \notin Redeemers(d) BY <1>4, <3>3 DEF Claimable, Redeemers
      <4>2. Redeemers(d)' = Redeemers(d) \cup {u} BY <1>4, <2>1, <3>3 DEF Redeemers
      <4>3. Cardinality(Redeemers(d)') = Cardinality(Redeemers(d)) + 1
        BY <3>2, <4>1, <4>2, FS_AddElement
      <4>4. code'[d].used = code[d].used + 1 BY <1>1, <2>1, <2>3, <2>4, <3>3 DEF TypeOK
      <4>5. code[d].used < MaxUses[d] BY <1>4, <3>3 DEF Claimable
      <4>6. code[d].used \in Nat /\ MaxUses[d] \in Nat BY <1>1, CodesAssumption DEF TypeOK
      <4> QED BY <3>1, <4>3, <4>4, <4>5, <4>6
    <3>4. CASE d # c BY <1>4, <3>4, <1>1, <2>4, <3>1 DEF Redeemers, TypeOK
    <3> QED BY <3>3, <3>4
  <2> QED BY <2>5, <2>6, <2>7 DEF CodeUses, Redeemers
<1> QED BY <1>2, <1>3, <1>4, CodeStep

\* Plans, users, attempts, the scheduler's list and the bound.
LEMMA OtherTypes ==
  ASSUME BillingInv, [Next]_vars
  PROVE  /\ plan' \in [Plans -> Plan]
         /\ account' \in [Users -> [enabled : BOOLEAN, deleted : BOOLEAN]]
         /\ succeeded' \subseteq SubIds \X Nat
         /\ todo' \subseteq SubIds
         /\ edits' \in Nat
<1>0. /\ plan \in [Plans -> Plan]
      /\ account \in [Users -> [enabled : BOOLEAN, deleted : BOOLEAN]]
      /\ succeeded \subseteq SubIds \X Nat /\ todo \subseteq SubIds /\ edits \in Nat
  BY DEF BillingInv, TypeOK
<1>1. CASE Requested
  <2>1. UNCHANGED <<plan, account, succeeded, todo>>
    BY <1>1 DEF Requested, PurchaseRead, AssignRead, RedeemRead, RetryRenewal, RenewRead, AutoRead, Abandon
  <2>2. edits' = edits \/ edits' = edits + 1
    BY <1>1 DEF Requested, PurchaseRead, AssignRead, RedeemRead, RetryRenewal, RenewRead, AutoRead, Abandon
  <2> QED BY SMTT(30), <1>0, <2>1, <2>2
<1>2. CASE Committed
  <2>1. UNCHANGED <<plan, account, todo, edits>>
    BY <1>2 DEF Committed, PurchaseCommit, AssignCommit, RedeemCommit, AutoCommit, RenewCommit
  <2>2. succeeded' \subseteq SubIds \X Nat
    <3>1. ASSUME NEW w \in Workers, RenewCommit(w) PROVE succeeded' \subseteq SubIds \X Nat
      <4>1. job[w].sub \in SubIds /\ job[w].period \in Nat
        BY <3>1, JobFields DEF RenewCommit, BillingInv
      <4>2. succeeded' = succeeded \/ succeeded' = succeeded \cup {<<job[w].sub, job[w].period>>}
        BY <3>1 DEF RenewRefused, RenewRolledBack, RenewPaid, RenewCommit
      <4> QED BY <1>0, <4>1, <4>2
    <3>2. ASSUME NEW h \in Handlers,
                 PurchaseCommit(h) \/ AssignCommit(h) \/ RedeemCommit(h) \/ AutoCommit(h)
          PROVE  UNCHANGED succeeded
      BY <3>2 DEF PurchaseCommit, AssignCommit, RedeemCommit, AutoCommit
    <3> QED BY <1>0, <1>2, <3>1, <3>2 DEF Committed
  <2> QED BY <1>0, <2>1, <2>2
<1>3. CASE Scheduled BY <1>3, <1>0 DEF Scheduled, ProcessDueRenewals, ScheduledRenewal, ScheduledSkip, RenewRead
<1>4. CASE TimePasses \/ UNCHANGED vars
  BY <1>4, <1>0 DEF TimePasses, PeriodEnds, RetryTimeComes, CodeExpires, ListSubscriptions, vars
<1>5. CASE Administered
  <2>1. UNCHANGED <<succeeded, todo>> /\ edits' = edits + 1
    BY <1>5 DEF Administered, RefundOrder, UpdateSubscription, AdjustBalance, SwitchUser, DeleteUser,
                UpdatePlan, CloseGroup, UpdateCode, Edit
  <2>2. account' \in [Users -> [enabled : BOOLEAN, deleted : BOOLEAN]]
    <3>1. ASSUME NEW u \in Users, SwitchUser(u)
          PROVE  account' \in [Users -> [enabled : BOOLEAN, deleted : BOOLEAN]]
      BY <1>0, <3>1 DEF SwitchUser
    <3>2. ASSUME NEW u \in Users, DeleteUser(u)
          PROVE  account' \in [Users -> [enabled : BOOLEAN, deleted : BOOLEAN]]
      BY <1>0, <3>2 DEF DeleteUser
    <3>3. UNCHANGED account \/ (\E u \in Users : SwitchUser(u)) \/ (\E u \in Users : DeleteUser(u))
      BY <1>5 DEF Administered, RefundOrder, UpdateSubscription, AdjustBalance, UpdatePlan, CloseGroup,
                  UpdateCode
    <3> QED BY <1>0, <3>1, <3>2, <3>3
  <2>3. plan' \in [Plans -> Plan]
    <3>1. ASSUME NEW p \in Plans, NEW enabled \in BOOLEAN, NEW price \in Prices, NEW scope \in Scopes,
                 UpdatePlan(p, enabled, price, scope)
          PROVE  plan' \in [Plans -> Plan]
      BY <1>0, <3>1 DEF UpdatePlan, Plan
    <3>2. ASSUME NEW p \in Plans, CloseGroup(p) PROVE plan' \in [Plans -> Plan] BY <1>0, <3>2 DEF Plan, CloseGroup
    <3>3. \/ UNCHANGED plan
          \/ \E p \in Plans : CloseGroup(p)
          \/ \E p \in Plans, enabled \in BOOLEAN, price \in Prices, scope \in Scopes :
               UpdatePlan(p, enabled, price, scope)
      BY <1>5 DEF Administered, RefundOrder, UpdateSubscription, AdjustBalance, SwitchUser, DeleteUser,
                  UpdateCode
    <3> QED BY <1>0, <3>1, <3>2, <3>3
  <2> QED BY <1>0, <2>1, <2>2, <2>3
<1> QED BY <1>1, <1>2, <1>3, <1>4, <1>5 DEF Next

-----------------------------------------------------------------------------
(* Theorems *)

\* Types depend on the money being conserved: an administrator may take back
\* no more than the balance, and so no more than was granted.
BooksInv == BillingInv /\ MoneyConserved /\ CodeUses

LEMMA InitBooks == Init => BooksInv
<1> SUFFICES ASSUME Init PROVE BooksInv OBVIOUS
<1>1. BillingInv BY InitType
<1>2. MoneyConserved
  <2> SUFFICES ASSUME NEW u \in Users PROVE balance[u] + Total(Paid(u), Amount) = granted[u]
    BY DEF MoneyConserved
  <2>1. Paid(u) = {} BY DEF Init, Paid, NoOrder
  <2>2. Total(Paid(u), Amount) = 0 BY <2>1, TotalEmpty
  <2>3. balance[u] = granted[u] /\ balance[u] \in Nat BY Balance0Assumption DEF Init
  <2> QED BY <2>2, <2>3
<1>3. CodeUses
  <2> SUFFICES ASSUME NEW c \in Codes
               PROVE  /\ code[c].used = Cardinality({u \in Users : <<c, u>> \in redemptions})
                      /\ code[c].used <= MaxUses[c]
    BY DEF CodeUses
  <2>1. {u \in Users : <<c, u>> \in redemptions} = {} BY DEF Init
  <2>2. code[c].used = 0 /\ MaxUses[c] \in Nat \ {0} BY CodesAssumption DEF Init
  <2>3. Cardinality({u \in Users : <<c, u>> \in redemptions}) = 0 BY <2>1, FS_EmptySet
  <2>4. 0 <= MaxUses[c] BY <2>2
  <2> QED BY <2>2, <2>3, <2>4
<1> QED BY <1>1, <1>2, <1>3 DEF BooksInv

LEMMA BooksStep == BooksInv /\ [Next]_vars => BooksInv'
BY MoneyStep, CodesKept, RowsStay, JobStep, OtherTypes DEF BooksInv, MoneyInv, TypeOK, BillingInv

\* The state is well typed, and no balance is ever overdrawn, however many
\* purchases and renewals were decided on the same balance.
THEOREM TypeCorrect == Spec => []TypeOK
<1>1. BooksInv => TypeOK BY DEF BooksInv, BillingInv
<1> QED BY <1>1, InitBooks, BooksStep, PTL DEF Spec

\* Balances and paid orders add up to what the administrator granted: a refund
\* gives back what was paid, once.
THEOREM MoneyCorrect == Spec => []MoneyConserved
<1>1. BooksInv => MoneyConserved BY DEF BooksInv
<1> QED BY <1>1, InitBooks, BooksStep, PTL DEF Spec

\* A redeem code is used once by a user and at most max_uses times, by any
\* number of users at once.
THEOREM CodesCorrect == Spec => []CodeUses
<1>1. BooksInv => CodeUses BY DEF BooksInv
<1> QED BY <1>1, InitBooks, BooksStep, PTL DEF Spec

-----------------------------------------------------------------------------
(* One active subscription *)

LEMMA ActiveStep == BooksInv /\ OneActive /\ [Next]_vars => OneActive'
<1> SUFFICES ASSUME BooksInv, OneActive, [Next]_vars PROVE OneActive' OBVIOUS
<1>1. BillingInv /\ TypeOK BY DEF BooksInv, BillingInv
<1> DEFINE Same(a, b, f) == /\ f[a].status = "active" /\ f[b].status = "active"
                            /\ f[a].user = f[b].user /\ f[a].scope = f[b].scope
<1>2. \A a, b \in SubIds : sub[a] \in Sub /\ sub[b] \in Sub /\ Same(a, b, sub) => a = b
  BY <1>1, SubRow DEF OneActive
<1>3. SUFFICES ASSUME NEW a \in SubIds, NEW b \in SubIds, Same(a, b, sub'), a # b PROVE FALSE
  BY <1>1, RowsStay, <1>3 DEF Rows, OneActive
<1>4. sub'[a] \in Sub /\ sub'[b] \in Sub BY <1>1, RowsStay, <1>3 DEF NoSub
<1>5. sub'[a] # NoSub /\ sub'[b] # NoSub BY <1>4 DEF Sub, NoSub
<1>6. CASE RowsFollow /\ NoNewRow
  <2>1. sub[a] \in Sub /\ sub[b] \in Sub BY <1>1, <1>5, <1>6, SubRow DEF NoNewRow
  <2>2. RowFollows(sub[a], sub'[a]) /\ RowFollows(sub[b], sub'[b]) BY <1>6, <2>1 DEF RowsFollow
  <2> QED BY <1>2, <1>3, <2>1, <2>2 DEF RowFollows
<1>7. ASSUME NEW s, NEW u, NEW p, NEW g, Begins(s, u, p, g) PROVE FALSE
  <2>1. /\ RowsFollow
        /\ \A t \in SubIds \ {s} : sub[t] = NoSub => sub'[t] = NoSub
        /\ sub'[s].user = u /\ sub'[s].scope = g
        /\ \A t \in SubIds \ {s} :
             sub[t] \in Sub /\ sub[t].user = u /\ sub[t].scope = g => sub'[t].status # "active"
    BY <1>1, <1>7, BeginsRows
  <2>2. ASSUME NEW t \in SubIds, t # s, sub'[t] # NoSub
        PROVE  sub[t] \in Sub /\ RowFollows(sub[t], sub'[t])
    BY <1>1, <2>1, <2>2, SubRow DEF RowsFollow
  <2>3. CASE a = s BY <1>3, <1>5, <2>1, <2>2, <2>3 DEF RowFollows
  <2>4. CASE b = s BY <1>3, <1>5, <2>1, <2>2, <2>4 DEF RowFollows
  <2>5. CASE a # s /\ b # s BY <1>5, <2>2, <2>5, <1>2, <1>3 DEF RowFollows
  <2> QED BY <2>3, <2>4, <2>5
<1>8. ASSUME NEW w \in Workers, Renews(w) PROVE FALSE
  <2> DEFINE r == job[w].sub
             q == Renewed(sub[r], job[w].period)
  <2>1. /\ r \in SubIds /\ sub[r] \in Sub /\ job[w].period \in Nat
        /\ sub' = [sub EXCEPT ![r] = q] /\ ~Rival(r)
    BY <1>1, <1>8, RenewsRow
  <2>2. q.user = sub[r].user /\ q.scope = sub[r].scope BY <2>1, RenewedFields
  <2> HIDE DEF q
  <2>3. sub'[r] = q /\ \A t \in SubIds \ {r} : sub'[t] = sub[t] BY <1>1, <2>1 DEF TypeOK
  <2>4. CASE a = r BY <1>3, <2>1, <2>2, <2>3, <2>4 DEF Rival
  <2>5. CASE b = r BY <1>3, <2>1, <2>2, <2>3, <2>5 DEF Rival
  <2>6. CASE a # r /\ b # r BY <1>2, <1>3, <1>4, <2>3, <2>6
  <2> QED BY <2>4, <2>5, <2>6
<1> QED BY <1>1, <1>6, <1>7, <1>8, RowKinds

\* A user never has two active subscriptions in a scope.
THEOREM ActiveCorrect == Spec => []OneActive
<1>1. Init => OneActive BY DEF Init, OneActive, Rows, NoSub
<1> QED BY <1>1, InitBooks, BooksStep, ActiveStep, PTL DEF Spec

-----------------------------------------------------------------------------
(* Renewals and the periods they end *)

\* Every period behind a subscription has a succeeded attempt; and a renewal
\* that was decided on the current period has seen it ended.
Behind == \A s \in SubIds : sub[s] \in Sub =>
            \A k \in Nat : 0 < k /\ k < sub[s].period => <<s, k>> \in succeeded
Decided ==
  \A w \in Workers : job[w].kind = "renew" =>
    LET j == job[w] IN
    /\ 0 < j.period /\ j.period <= sub[j.sub].period
    /\ j.period = sub[j.sub].period => sub[j.sub].ended
FromOne == \A s \in SubIds : sub[s] \in Sub => 0 < sub[s].period

PeriodsInv == BooksInv /\ Behind /\ Decided /\ FromOne

\* What a renewal or a new subscription makes of the periods.
LEMMA PeriodRows ==
  ASSUME BillingInv, [Next]_vars
  PROVE  \A s \in SubIds : sub[s] \in Sub =>
           \/ sub'[s].period = sub[s].period /\ (sub[s].ended => sub'[s].ended)
           \/ \E w \in Workers : /\ Renews(w) /\ job[w].sub = s /\ job[w].period = sub[s].period
                                 /\ sub'[s].period = sub[s].period + 1
                                 /\ succeeded' = succeeded \cup {<<s, sub[s].period>>}
<1> TAKE s \in SubIds
<1> HAVE sub[s] \in Sub
<1>1. CASE RowsFollow BY <1>1 DEF RowsFollow, RowFollows
<1>2. ASSUME NEW t, NEW u, NEW p, NEW g, Begins(t, u, p, g) PROVE RowsFollow
  BY <1>2, BeginsRows DEF BillingInv
<1>3. ASSUME NEW w \in Workers, Renews(w)
      PROVE  \/ sub'[s].period = sub[s].period /\ (sub[s].ended => sub'[s].ended)
             \/ /\ job[w].sub = s /\ job[w].period = sub[s].period
                /\ sub'[s].period = sub[s].period + 1
                /\ succeeded' = succeeded \cup {<<s, sub[s].period>>}
  <2> DEFINE r == job[w].sub
             q == Renewed(sub[r], job[w].period)
  <2>1. /\ r \in SubIds /\ sub[r] \in Sub /\ job[w].period \in Nat
        /\ sub' = [sub EXCEPT ![r] = q] /\ job[w].period = sub[r].period
    BY <1>3, RenewsRow
  <2>2. q.period = job[w].period + 1 BY <2>1, RenewedFields
  <2>3. succeeded' = succeeded \cup {<<r, job[w].period>>} BY <1>3 DEF Renews, RenewPaid
  <2> HIDE DEF q
  <2>4. CASE r = s BY <2>1, <2>2, <2>3, <2>4 DEF BillingInv, TypeOK
  <2>5. CASE r # s BY <2>1, <2>5 DEF BillingInv, TypeOK
  <2> QED BY <2>4, <2>5
<1> QED BY <1>1, <1>2, <1>3, RowKinds

\* A new row begins with period 1.
LEMMA NewPeriod ==
  ASSUME BillingInv, [Next]_vars, NEW s \in SubIds, sub[s] \notin Sub, sub'[s] \in Sub
  PROVE  sub'[s].period = 1
<1>1. sub[s] = NoSub BY SubRow DEF BillingInv
<1>2. sub'[s] # NoSub BY DEF Sub, NoSub
<1>3. CASE NoNewRow BY <1>1, <1>2, <1>3 DEF NoNewRow
<1>4. ASSUME NEW t, NEW u, NEW p, NEW g, Begins(t, u, p, g) PROVE sub'[s].period = 1
  BY <1>4, BeginsRows, <1>1, <1>2 DEF BillingInv
<1>5. ASSUME NEW w \in Workers, Renews(w) PROVE FALSE BY <1>5, RenewsRow DEF BillingInv, TypeOK
<1> QED BY <1>3, <1>4, <1>5, RowKinds

\* A renewal is decided on the row as it is, or was decided before.
LEMMA NewDecision ==
  ASSUME BillingInv, [Next]_vars, NEW w \in Workers, job'[w].kind = "renew"
  PROVE  \/ job'[w] = job[w]
         \/ \E s \in SubIds : /\ sub[s] \in Sub /\ sub[s].ended /\ UNCHANGED sub
                              /\ job'[w].sub = s /\ job'[w].period = sub[s].period
<1> DEFINE New(s) == /\ sub[s] \in Sub /\ sub[s].ended /\ UNCHANGED sub
                     /\ job'[w].sub = s /\ job'[w].period = sub[s].period
<1>0. w \in DOMAIN job BY DEF BillingInv, TypeOK
<1>1. ASSUME NEW x \in Workers, NEW s \in SubIds, RenewRead(x, s), UNCHANGED sub
      PROVE  job'[w] = job[w] \/ New(s)
  BY <1>1, SubRow, <1>0 DEF RenewRead, BillingInv, Start
<1>2. ASSUME NEW x \in Workers, NEW j, job' = [job EXCEPT ![x] = j], j.kind # "renew"
      PROVE  job'[w] = job[w]
  BY <1>0, <1>2
<1>3. Idle.kind # "renew" BY DEF Idle
<1>4. CASE Requested
  <2>1. ASSUME NEW h \in Handlers,
               \/ Abandon(h)
               \/ \E u \in Users, p \in Plans : PurchaseRead(h, u, p) \/ AssignRead(h, u, p)
               \/ \E u \in Users, c \in Codes : RedeemRead(h, u, c)
               \/ \E s \in SubIds, on \in BOOLEAN : AutoRead(h, s, on)
        PROVE  \E j : job' = [job EXCEPT ![h] = j] /\ j.kind # "renew"
    BY <1>3, <2>1 DEF Abandon, PurchaseRead, AssignRead, RedeemRead, AutoRead, Start, Finish
  <2>2. ASSUME NEW h \in Handlers, NEW s \in SubIds, RetryRenewal(h, s)
        PROVE  RenewRead(h, s) /\ UNCHANGED sub
    BY <2>2 DEF RetryRenewal, RenewRead
  <2> QED BY <1>1, <1>2, <1>4, <2>1, <2>2 DEF Requested, Workers
<1>5. CASE Committed
  BY <1>2, <1>3, <1>5 DEF Committed, PurchaseCommit, AssignCommit, RedeemCommit, AutoCommit,
                          RenewCommit, Finish, Workers
<1>6. CASE Scheduled BY <1>1, <1>6 DEF ScheduledRenewal, RenewRead, Scheduled, ProcessDueRenewals, ScheduledSkip, Workers
<1>7. CASE TimePasses \/ Administered \/ UNCHANGED vars
  BY SMTT(30), <1>7 DEF TimePasses, PeriodEnds, RetryTimeComes, CodeExpires, ListSubscriptions, Administered,
              RefundOrder, UpdateSubscription, AdjustBalance, SwitchUser, DeleteUser, UpdatePlan,
              CloseGroup, UpdateCode, vars
<1> QED BY <1>4, <1>5, <1>6, <1>7 DEF Next

LEMMA AttemptsKept ==
  ASSUME [Next]_vars
  PROVE  succeeded \subseteq succeeded'
BY DEF Next, Requested, PurchaseRead, AssignRead, RedeemRead, RetryRenewal, RenewRead, AutoRead, Abandon,
       Committed, PurchaseCommit, AssignCommit, RedeemCommit, AutoCommit, RenewCommit, RenewRefused,
       RenewRolledBack, RenewPaid, Scheduled, ProcessDueRenewals, ScheduledRenewal, ScheduledSkip,
       TimePasses, PeriodEnds, RetryTimeComes, CodeExpires, ListSubscriptions, Administered, RefundOrder,
       UpdateSubscription, AdjustBalance, SwitchUser, DeleteUser, UpdatePlan, CloseGroup, UpdateCode, vars

LEMMA InitPeriods == Init => PeriodsInv
<1> SUFFICES ASSUME Init PROVE PeriodsInv OBVIOUS
<1>1. BooksInv BY InitBooks
<1>2. \A s \in SubIds : sub[s] \notin Sub BY DEF Init, Sub, NoSub
<1>3. \A w \in Workers : job[w].kind # "renew" BY DEF Init, Idle
<1> QED BY <1>1, <1>2, <1>3 DEF PeriodsInv, Behind, Decided, FromOne

LEMMA PeriodsStep == PeriodsInv /\ [Next]_vars => PeriodsInv'
<1> SUFFICES ASSUME PeriodsInv, [Next]_vars PROVE PeriodsInv' OBVIOUS
<1>1. BooksInv' BY BooksStep DEF PeriodsInv
<1>2. BillingInv /\ TypeOK BY DEF PeriodsInv, BooksInv, BillingInv
<1>3. \A s \in SubIds : sub[s] \in Sub => sub[s].period \in Nat BY DEF Sub
<1>4. FromOne'
  <2> SUFFICES ASSUME NEW s \in SubIds, sub'[s] \in Sub PROVE 0 < sub'[s].period BY DEF FromOne
  <2>1. CASE sub[s] \notin Sub BY <1>2, <2>1, NewPeriod
  <2>2. CASE sub[s] \in Sub BY <1>2, <2>2, PeriodRows, <1>3 DEF PeriodsInv, FromOne
  <2> QED BY <2>1, <2>2
<1>5. Behind'
  <2> SUFFICES ASSUME NEW s \in SubIds, sub'[s] \in Sub, NEW k \in Nat, 0 < k, k < sub'[s].period
               PROVE  <<s, k>> \in succeeded'
    BY DEF Behind
  <2>1. CASE sub[s] \notin Sub BY <1>2, <2>1, NewPeriod
  <2>2. CASE sub[s] \in Sub
    <3>1. sub[s].period \in Nat BY <1>3, <2>2
    <3>2. k < sub[s].period => <<s, k>> \in succeeded BY <2>2 DEF PeriodsInv, Behind
    <3>3. CASE sub'[s].period = sub[s].period BY <3>2, <3>3, AttemptsKept
    <3>4. CASE sub'[s].period = sub[s].period + 1 /\ succeeded' = succeeded \cup {<<s, sub[s].period>>} BY <3>1, <3>4, <3>2
    <3> QED BY <1>2, <2>2, <3>3, <3>4, PeriodRows
  <2> QED BY <2>1, <2>2
<1>6. Decided'
  <2> SUFFICES ASSUME NEW w \in Workers, job'[w].kind = "renew"
               PROVE  LET j == job'[w] IN
                      /\ 0 < j.period /\ j.period <= sub'[j.sub].period
                      /\ j.period = sub'[j.sub].period => sub'[j.sub].ended
    BY DEF Decided
  <2> DEFINE j == job'[w]
             s == j.sub
  <2>1. CASE j = job[w] BY <2>1, <1>2, JobFields, PeriodRows, <1>3 DEF PeriodsInv, Decided, BillingInv, RowsKnown, s, j
  <2>2. ASSUME NEW t \in SubIds, sub[t] \in Sub, sub[t].ended, UNCHANGED sub, s = t,
               j.period = sub[t].period
        PROVE  0 < j.period /\ j.period <= sub'[s].period /\ sub'[s].ended
    BY <1>3, <2>2 DEF PeriodsInv, FromOne
  <2> QED BY <1>2, <2>1, <2>2, NewDecision
<1> QED BY <1>1, <1>4, <1>5, <1>6 DEF PeriodsInv

\* A renewal that is paid for replaces a period that has ended, whatever was
\* renewed, refunded or edited since its row was read.
THEOREM RenewalsCorrect == Spec => RenewsEndedPeriods
<1>1. PeriodsInv /\ [Next]_vars =>
        [\A s \in Rows(sub) : sub'[s].period # sub[s].period => sub[s].ended]_vars
  <2> SUFFICES ASSUME PeriodsInv, [Next]_vars, NEW s \in Rows(sub), sub'[s].period # sub[s].period
               PROVE  sub[s].ended
    OBVIOUS
  <2>1. BillingInv /\ TypeOK BY DEF PeriodsInv, BooksInv, BillingInv
  <2>2. s \in SubIds /\ sub[s] \in Sub BY <2>1, SubRow DEF Rows, TypeOK
  <2>3. PICK w \in Workers : Renews(w) /\ job[w].sub = s /\ job[w].period = sub[s].period
    BY <2>1, <2>2, PeriodRows
  <2> QED BY <2>3 DEF PeriodsInv, Decided, Renews
<1> QED BY <1>1, InitPeriods, PeriodsStep, PTL DEF Spec, RenewsEndedPeriods

\* A period that was paid for and still runs is not expired by a renewal that
\* could not be paid, even if that renewal was decided on an older period.
THEOREM ServiceCorrect == Spec => PaidPeriodIsServed
<1> DEFINE Served == \A s \in Rows(sub) :
                       sub[s].status = "active" /\ ~sub[s].ended /\ sub'[s].status = "expired"
                       => UpdateSubscription(s, "expired")
<1>1. PeriodsInv /\ [Next]_vars => [Served]_vars
  <2> SUFFICES ASSUME PeriodsInv, [Next]_vars, NEW s \in Rows(sub),
                      sub[s].status = "active", ~sub[s].ended, sub'[s].status = "expired"
               PROVE  UpdateSubscription(s, "expired")
    OBVIOUS
  <2>1. BillingInv /\ TypeOK BY DEF PeriodsInv, BooksInv, BillingInv
  <2>2. s \in SubIds /\ sub[s] \in Sub BY <2>1, SubRow DEF Rows, TypeOK
  <2>3. sub'[s] # sub[s] OBVIOUS
  <2>4. ASSUME NEW w \in Workers, RenewCommit(w) PROVE FALSE
    <3> DEFINE j == job[w]
    <3>1. /\ j.sub \in SubIds /\ j.period \in Nat /\ sub[j.sub] \in Sub
          /\ 0 < j.period /\ j.period <= sub[j.sub].period
          /\ j.period = sub[j.sub].period => sub[j.sub].ended
      BY <2>1, <2>4, JobFields DEF RenewCommit, BillingInv, RowsKnown, PeriodsInv, Decided
    <3>2. CASE RenewRefused(j)
      <4>1. j.sub = s BY <2>1, <2>2, <2>3, <3>2 DEF RenewRefused, TypeOK
      <4>2. sub[s].period \in Nat BY <2>2 DEF Sub
      <4>3. j.period < sub[s].period BY <3>1, <4>1, <4>2
      <4>4. <<s, j.period>> \in succeeded BY <2>2, <3>1, <4>3 DEF PeriodsInv, Behind
      <4> QED BY <3>2, <4>1, <4>4 DEF RenewRefused, Succeeded
    <3>3. CASE RenewRolledBack(j) BY <2>3, <3>3 DEF RenewRolledBack
    <3>4. CASE RenewPaid(j)
      <4> DEFINE q == Renewed(sub[j.sub], j.period)
      <4>1. Renews(w) BY <2>4, <3>4 DEF RenewCommit, Renews
      <4>2. sub' = [sub EXCEPT ![j.sub] = q] BY <2>1, <4>1, RenewsRow
      <4>3. q.status = "active" BY <3>1 DEF Renewed, Sub
      <4> QED BY <2>1, <2>2, <2>3, <4>2, <4>3 DEF TypeOK
    <3> QED BY <2>4, <3>2, <3>3, <3>4 DEF RenewCommit
  <2>5. ASSUME NEW t, NEW u, NEW p, NEW g, sub' = WithNewSub(t, u, p, g) PROVE FALSE
    BY <2>2, <2>5, CancelledFollows, <2>3 DEF WithNewSub
  <2>6. ASSUME NEW t, NEW q, q.status # "expired", sub' = [sub EXCEPT ![t] = q] PROVE FALSE
    BY <2>1, <2>2, <2>3, <2>6 DEF TypeOK
  <2>7. CASE Committed
    <3>1. ASSUME NEW h \in Handlers, PurchaseCommit(h) \/ AssignCommit(h) \/ RedeemCommit(h) PROVE FALSE
      BY <2>3, <2>5, <3>1 DEF PurchaseCommit, AssignCommit, RedeemCommit, Redeems
    <3>2. ASSUME NEW h \in Handlers, AutoCommit(h) PROVE FALSE
      <4> DEFINE j == job[h]
                 q == [sub[j.sub] EXCEPT !.auto = j.on, !.next = IF j.on THEN "end" ELSE "null"]
      <4>1. j.sub \in SubIds /\ sub[j.sub] \in Sub
        BY <2>1, <3>2, JobFields DEF AutoCommit, BillingInv, RowsKnown, Workers
      <4>2. sub' = [sub EXCEPT ![j.sub] = q] BY <2>1, <3>2, <4>1 DEF AutoCommit, TypeOK
      <4>3. q.status = sub[j.sub].status BY <4>1 DEF Sub
      <4>4. j.sub = s BY <2>1, <2>2, <2>3, <4>2 DEF TypeOK
      <4> QED BY <2>6, <4>2, <4>3, <4>4
    <3> QED BY <2>4, <2>7, <3>1, <3>2 DEF Committed
  <2>8. CASE TimePasses
    <3>1. ASSUME NEW t \in SubIds, PeriodEnds(t) \/ RetryTimeComes(t) PROVE FALSE
      BY <2>1, <3>1, <2>2, <2>3, <2>6 DEF PeriodEnds, RetryTimeComes, TypeOK, Sub
    <3>2. ASSUME ListSubscriptions PROVE FALSE
      BY <2>2, <2>3, <3>2 DEF ListSubscriptions
    <3>3. ASSUME NEW c \in Codes, CodeExpires(c) PROVE FALSE BY <2>3, <3>3 DEF CodeExpires
    <3> QED BY <2>8, <3>1, <3>2, <3>3 DEF TimePasses
  <2>9. CASE Administered
    <3>1. ASSUME NEW o \in OrderIds, RefundOrder(o) PROVE FALSE
      <4> DEFINE t == order[o].sub
      <4>1. sub' = [sub EXCEPT ![t] = Cancelled(sub[t])] BY <2>3, <3>1 DEF RefundOrder
      <4>2. t = s BY <2>1, <2>2, <2>3, <4>1 DEF TypeOK
      <4>3. Cancelled(sub[s]).status # "expired" BY <2>2, CancelledFollows
      <4> QED BY <2>6, <4>1, <4>2, <4>3
    <3>2. ASSUME NEW t \in SubIds, NEW status \in {"cancelled", "expired"}, UpdateSubscription(t, status)
          PROVE  UpdateSubscription(s, "expired")
      BY <2>1, <3>2, <2>2, <2>3, <2>6 DEF UpdateSubscription, TypeOK, Cancelled, Sub
    <3>3. ASSUME NEW u \in Users, DeleteUser(u) PROVE FALSE BY <2>2, <3>3, CancelledFollows, <2>3 DEF DeleteUser
    <3> QED
      BY <2>3, <2>9, <3>1, <3>2, <3>3 DEF Administered, AdjustBalance, SwitchUser, UpdatePlan,
                                          CloseGroup, UpdateCode
  <2>10. CASE Requested \/ Scheduled \/ UNCHANGED vars
    BY <2>3, <2>10 DEF Requested, PurchaseRead, AssignRead, RedeemRead, RetryRenewal, RenewRead,
       AutoRead, Abandon, Scheduled, ProcessDueRenewals, ScheduledRenewal, ScheduledSkip, vars
  <2> QED BY <2>7, <2>8, <2>9, <2>10 DEF Next
<1> QED BY <1>1, InitPeriods, PeriodsStep, PTL DEF Spec, PaidPeriodIsServed

-----------------------------------------------------------------------------
(* Periods, their orders and their attempts *)

\* Order o charged subscription s for the period that follows its k-th.
RenewalOf(o, s, k) == order[o].status # "none" /\ order[o].sub = s /\ order[o].renewal = k

\* An order of a renewal and its attempt name each other, once, and a period
\* that has been begun.
Ordered == \A s \in SubIds, k \in Nat \ {0} :
             <<s, k>> \in succeeded <=> \E o \in OrderIds : RenewalOf(o, s, k)
OrderedOnce == \A s \in SubIds, k \in Nat \ {0}, o, p \in OrderIds :
                 RenewalOf(o, s, k) /\ RenewalOf(p, s, k) => o = p
Ahead == \A s \in SubIds, k \in Nat : <<s, k>> \in succeeded =>
           sub[s] \in Sub /\ 0 < k /\ k < sub[s].period
Bounded == \A s \in SubIds : sub[s] \in Sub => sub[s].period - 1 <= MaxPeriods

PaidInv == PeriodsInv /\ Ordered /\ OrderedOnce /\ Ahead /\ Bounded

\* An order is a row's, or absent.
LEMMA OrderRow ==
  ASSUME TypeOK, NEW o \in OrderIds
  PROVE  /\ order[o] \in Order \cup {NoOrder} /\ NoOrder.status = "none"
         /\ order[o].status # "none" => order[o] \in Order
         /\ o \in Rows(order) <=> order[o].status # "none"
         /\ order[o].status # "none" => order[o].renewal \in Nat
BY DEF TypeOK, NoOrder, Order, Rows

\* The two kinds of step: a renewal is written with its order and its attempt,
\* in one transaction, or neither is.
PaidTogether(w, o) ==
  /\ Renews(w) /\ o \in OrderIds /\ order[o] = NoOrder
  /\ order'[o].status = "paid" /\ order'[o].sub = job[w].sub /\ order'[o].renewal = job[w].period
  /\ \A p \in OrderIds \ {o} : order'[p] = order[p]
  /\ succeeded' = succeeded \cup {<<job[w].sub, job[w].period>>}

RenewalsSame ==
  /\ succeeded' = succeeded
  /\ \A o \in OrderIds, s \in SubIds, k \in Nat \ {0} : RenewalOf(o, s, k)' <=> RenewalOf(o, s, k)

\* A step that writes neither table is of the second kind.
LEMMA OrdersSame ==
  ASSUME succeeded' = succeeded, order' = order
  PROVE  RenewalsSame
BY DEF RenewalsSame, RenewalOf

\* Nothing else writes an attempt, or an order of a renewal: a purchase's
\* order has period 0, and a refund keeps the order's subscription and period.
LEMMA PaidKinds ==
  ASSUME BillingInv, [Next]_vars
  PROVE  RenewalsSame \/ \E w \in Workers, o \in OrderIds : PaidTogether(w, o)
<1>0. TypeOK /\ order \in [OrderIds -> Order \cup {NoOrder}] BY DEF BillingInv, TypeOK
<1>1. ASSUME NEW h \in Handlers, PurchaseCommit(h) PROVE RenewalsSame
  <2> DEFINE j == job[h]
  <2>1. succeeded' = succeeded BY <1>1 DEF PurchaseCommit
  <2>2. CASE UNCHANGED money BY <2>1, <2>2, OrdersSame DEF money
  <2>3. ASSUME NEW s \in NewSubs, NEW o \in NewOrders, Charge(o, j.user, s, j.price, 0) PROVE RenewalsSame
    BY OrderRow, <1>0, <2>3, <2>1 DEF NewOrders, NoOrder, Charge, RenewalsSame, RenewalOf
  <2> QED BY <1>1, <2>2, <2>3 DEF PurchaseCommit
<1>2. ASSUME NEW w \in Workers, RenewCommit(w)
      PROVE  RenewalsSame \/ \E o \in OrderIds : PaidTogether(w, o)
  <2> DEFINE j == job[w]
  <2>1. CASE RenewRefused(j) \/ RenewRolledBack(j)
    BY <2>1, OrdersSame DEF RenewRefused, RenewRolledBack, money
  <2>2. CASE RenewPaid(j)
    <3>1. Renews(w) BY SMTT(30), <1>2, <2>2 DEF RenewCommit, Renews
    <3>2. PICK o \in NewOrders : Charge(o, sub[j.sub].user, j.sub, j.price, j.period)
      BY <2>2 DEF RenewPaid
    <3>3. o \in OrderIds /\ order[o] = NoOrder BY DEF NewOrders
    <3>4. /\ order'[o].status = "paid" /\ order'[o].sub = j.sub /\ order'[o].renewal = j.period
          /\ \A p \in OrderIds \ {o} : order'[p] = order[p]
      BY SMTT(30), <1>0, <3>2, <3>3 DEF Charge
    <3>5. succeeded' = succeeded \cup {<<j.sub, j.period>>} BY <2>2 DEF RenewPaid
    <3> QED BY <3>1, <3>3, <3>4, <3>5 DEF PaidTogether
  <2> QED BY <1>2, <2>1, <2>2 DEF RenewCommit
<1>3. ASSUME NEW o \in OrderIds, RefundOrder(o) PROVE RenewalsSame
  BY <1>3, <1>0, OrderRow DEF RefundOrder, Order, RenewalsSame, RenewalOf
<1>4. CASE Requested
  BY <1>4, OrdersSame DEF Requested, PurchaseRead, AssignRead, RedeemRead, RetryRenewal, RenewRead, AutoRead, Abandon,
                          money
<1>5. CASE Committed BY OrdersSame, <1>1, <1>2, <1>5 DEF AssignCommit, RedeemCommit, AutoCommit, money, Committed
<1>6. CASE Scheduled \/ TimePasses \/ UNCHANGED vars
  BY <1>6, OrdersSame DEF Scheduled, ProcessDueRenewals, ScheduledRenewal, ScheduledSkip, RenewRead, TimePasses,
              PeriodEnds, RetryTimeComes, CodeExpires, ListSubscriptions, vars, money
<1>7. CASE Administered
  <2>1. ASSUME \/ \E s \in SubIds, status \in {"cancelled", "expired"} : UpdateSubscription(s, status)
               \/ \E u \in Users, n \in Amounts : AdjustBalance(u, n) \/ AdjustBalance(u, -n)
               \/ \E u \in Users : SwitchUser(u) \/ DeleteUser(u)
               \/ \E p \in Plans, enabled \in BOOLEAN, price \in Prices, scope \in Scopes :
                    UpdatePlan(p, enabled, price, scope)
               \/ \E p \in Plans : CloseGroup(p)
               \/ \E c \in Codes : UpdateCode(c)
        PROVE  RenewalsSame
    BY <2>1, OrdersSame DEF UpdateSubscription, AdjustBalance, SwitchUser, DeleteUser, UpdatePlan, CloseGroup,
                            UpdateCode, money
  <2> QED BY <1>3, <1>7, <2>1 DEF Administered
<1> QED BY <1>4, <1>5, <1>6, <1>7 DEF Next

\* A renewal's period is new to both tables, so they grow alike.
LEMMA PaidStep == PaidInv /\ [Next]_vars => PaidInv'
<1> SUFFICES ASSUME PaidInv, [Next]_vars PROVE PaidInv' OBVIOUS
<1>1. PeriodsInv /\ PeriodsInv' BY PeriodsStep DEF PaidInv
<1>2. BillingInv /\ TypeOK /\ (\A s \in SubIds : sub[s] \in Sub => sub[s].period \in Nat)
  BY <1>1 DEF PeriodsInv, BooksInv, BillingInv, Sub
<1>3. Ordered /\ OrderedOnce /\ Ahead /\ Bounded BY DEF PaidInv
<1>4. CASE RenewalsSame
  <2>1. ASSUME NEW s \in SubIds, sub[s] \in Sub PROVE sub'[s] \in Sub /\ sub'[s].period = sub[s].period
    <3>1. sub'[s] \in Sub BY <1>2, <2>1, RowsStay
    <3>2. ASSUME NEW w \in Workers, Renews(w), job[w].sub = s, job[w].period = sub[s].period,
                 succeeded' = succeeded \cup {<<s, sub[s].period>>}
          PROVE  FALSE
      BY <1>2, <1>4, <3>2, RenewsRow DEF RenewalsSame
    <3> QED BY <1>2, <2>1, <3>1, <3>2, PeriodRows
  <2>2. Ahead' BY <1>3, <1>4, <2>1 DEF Ahead, RenewalsSame
  <2>3. Bounded'
    <3> SUFFICES ASSUME NEW s \in SubIds, sub'[s] \in Sub PROVE sub'[s].period - 1 <= MaxPeriods
      BY DEF Bounded
    <3>1. CASE sub[s] \in Sub BY <1>3, <2>1, <3>1 DEF Bounded
    <3>2. CASE sub[s] \notin Sub BY <1>2, <3>2, NewPeriod, BoundsAssumption
    <3> QED BY <3>1, <3>2
  <2>4. Ordered' /\ OrderedOnce' BY <1>3, <1>4 DEF Ordered, OrderedOnce, RenewalsSame
  <2> QED BY <1>1, <2>2, <2>3, <2>4 DEF PaidInv
<1>5. ASSUME NEW w \in Workers, NEW o \in OrderIds, PaidTogether(w, o)
      PROVE  PaidInv'
  <2>0. PICK r \in SubIds, n \in Nat : r = job[w].sub /\ n = job[w].period
    BY <1>2, <1>5, RenewsRow DEF PaidTogether
  <2> DEFINE q == Renewed(sub[r], n)
  <2>1. /\ r \in SubIds /\ n \in Nat /\ sub[r] \in Sub /\ n = sub[r].period
        /\ sub' = [sub EXCEPT ![r] = q] /\ <<r, n>> \notin succeeded
    BY <1>2, <1>5, <2>0, RenewsRow DEF PaidTogether
  <2>2. 0 < n BY <1>1, <2>1 DEF PeriodsInv, FromOne
  <2>3. q \in Sub /\ q.period = n + 1 BY <2>1, RenewedFields
  <2> HIDE DEF q
  <2>4. /\ sub'[r] \in Sub /\ sub'[r].period = n + 1
        /\ \A s \in SubIds \ {r} : sub'[s] = sub[s]
    BY <1>2, <2>1, <2>3 DEF TypeOK
  <2>5. n < MaxPeriods BY <1>5, <2>0 DEF PaidTogether, Renews, RenewPaid
  <2>6. succeeded' = succeeded \cup {<<r, n>>} BY <1>5, <2>0 DEF PaidTogether
  <2>7. /\ RenewalOf(o, r, n)'
        /\ \A s \in SubIds, k \in Nat \ {0} : RenewalOf(o, s, k)' => s = r /\ k = n
        /\ \A p \in OrderIds \ {o}, s \in SubIds, k \in Nat \ {0} : RenewalOf(p, s, k)' <=> RenewalOf(p, s, k)
        /\ \A s \in SubIds, k \in Nat \ {0} : ~RenewalOf(o, s, k)
    BY <1>5, <2>0 DEF PaidTogether, NoOrder, RenewalOf
  <2>8. \A p \in OrderIds : ~RenewalOf(p, r, n) BY <1>3, <2>1, <2>2 DEF Ordered
  <2>9. Ordered' /\ OrderedOnce'
    <3>1. ASSUME NEW s \in SubIds, NEW k \in Nat \ {0}
          PROVE  <<s, k>> \in succeeded' <=> \E p \in OrderIds : RenewalOf(p, s, k)'
      <4>1. CASE s = r /\ k = n BY <2>6, <2>7, <4>1
      <4>2. CASE ~(s = r /\ k = n) BY <2>6, <4>2, <2>7, <1>3 DEF Ordered
      <4> QED BY <4>1, <4>2
    <3>2. ASSUME NEW s \in SubIds, NEW k \in Nat \ {0}, NEW p \in OrderIds, NEW t \in OrderIds,
                 RenewalOf(p, s, k)', RenewalOf(t, s, k)'
          PROVE  p = t
      <4>1. CASE p = o BY <2>7, <3>2, <4>1, <2>8
      <4>2. CASE t = o BY <2>7, <3>2, <4>2, <2>8
      <4>3. CASE p # o /\ t # o BY <1>3, <2>7, <3>2, <4>3 DEF OrderedOnce
      <4> QED BY <4>1, <4>2, <4>3
    <3> QED BY <3>1, <3>2 DEF Ordered, OrderedOnce
  <2>10. Ahead'
    <3> SUFFICES ASSUME NEW s \in SubIds, NEW k \in Nat, <<s, k>> \in succeeded'
                 PROVE  sub'[s] \in Sub /\ 0 < k /\ k < sub'[s].period
      BY DEF Ahead
    <3>1. CASE s = r /\ k = n BY <2>1, <2>2, <2>4, <3>1
    <3>2. CASE <<s, k>> \in succeeded BY <1>3, <3>2, <2>1, <2>4 DEF Ahead
    <3> QED BY <2>6, <3>1, <3>2
  <2>11. Bounded' BY <2>1, <2>4, <2>5, BoundsAssumption, <1>3 DEF Bounded
  <2> QED BY <1>1, <2>9, <2>10, <2>11 DEF PaidInv
<1> QED BY <1>2, <1>4, <1>5, PaidKinds

\* At first there are no orders.
LEMMA InitPaid == Init => PaidInv
<1> SUFFICES ASSUME Init PROVE PaidInv OBVIOUS
<1>1. PeriodsInv BY InitPeriods
<1>2. \A s \in SubIds : sub[s] \notin Sub BY DEF Init, Sub, NoSub
<1>3. succeeded = {} /\ \A o \in OrderIds : order[o].status = "none" BY DEF Init, NoOrder
<1> QED BY <1>1, <1>2, <1>3 DEF PaidInv, Ordered, OrderedOnce, Ahead, Bounded, RenewalOf

\* The orders of a subscription's renewals are as many as its begun periods.
LEMMA PaidCount ==
  ASSUME PaidInv, NEW s \in Rows(sub)
  PROVE  LET orders == {o \in Rows(order) : order[o].sub = s /\ order[o].renewal > 0} IN
         /\ Cardinality(orders) = sub[s].period - 1
         /\ {order[o].renewal : o \in orders} = 1 .. sub[s].period - 1
         /\ {k \in 1 .. MaxPeriods : <<s, k>> \in succeeded} = 1 .. sub[s].period - 1
<1> DEFINE orders == {o \in Rows(order) : order[o].sub = s /\ order[o].renewal > 0}
           n == sub[s].period - 1
           f == [o \in orders |-> order[o].renewal]
<1>1. TypeOK /\ Behind /\ FromOne /\ Ordered /\ OrderedOnce /\ Ahead /\ Bounded
  BY DEF PaidInv, PeriodsInv, BooksInv, BillingInv
<1>2. s \in SubIds /\ sub[s] \in Sub BY <1>1, SubRow DEF Rows, TypeOK
<1>3. n \in Nat /\ n <= MaxPeriods /\ n + 1 = sub[s].period BY <1>1, <1>2 DEF FromOne, Sub, Bounded
<1>4. \A k \in Nat : <<s, k>> \in succeeded <=> k \in 1 .. n
  BY <1>1, <1>2, <1>3 DEF Behind, Ahead
<1>5. \A o : o \in orders <=> o \in OrderIds /\ order[o].renewal \in Nat \ {0} /\ RenewalOf(o, s, order[o].renewal)
  BY <1>1, OrderRow DEF Rows, TypeOK, RenewalOf
<1> HIDE DEF n, orders
<1>6. \A o \in orders : order[o].renewal \in 1 .. n
  BY <1>1, <1>2, <1>4, <1>5 DEF Ordered
<1>7. \A k \in 1 .. n : \E o \in orders : order[o].renewal = k
  <2> TAKE k \in 1 .. n
  <2>1. k \in Nat \ {0} BY <1>3
  <2>2. PICK o \in OrderIds : RenewalOf(o, s, k) BY <1>1, <1>2, <1>4, <2>1 DEF Ordered
  <2>3. order[o].renewal = k BY <2>2 DEF RenewalOf
  <2> QED BY <1>5, <2>1, <2>2, <2>3
<1>8. \A o, p \in orders : order[o].renewal = order[p].renewal => o = p
  BY <1>1, <1>2, <1>5 DEF OrderedOnce
<1>9. f \in Bijection(orders, 1 .. n)
  BY <1>6, <1>7, <1>8 DEF Bijection, Injection, Surjection, IsInjective
<1>10. IsFiniteSet(1 .. n) /\ Cardinality(1 .. n) = n
  BY <1>3, FS_Interval
<1>11. Cardinality(orders) = n
  <2>1. IsFiniteSet(orders) BY <1>5, IdsAssumption, FS_Subset
  <2>2. ExistsBijection(orders, 1 .. n) BY <1>9 DEF ExistsBijection
  <2> QED BY <1>10, <2>1, <2>2, FS_Bijection
<1>12. {order[o].renewal : o \in orders} = 1 .. n BY <1>6, <1>7
<1>13. {k \in 1 .. MaxPeriods : <<s, k>> \in succeeded} = 1 .. n
  BY <1>3, <1>4, BoundsAssumption
<1> QED BY <1>11, <1>12, <1>13 DEF orders, n

\* Each period after a subscription's first has one succeeded attempt and one
\* order, whoever renewed it, however many tried at once and whatever was
\* refunded in between.
THEOREM PeriodsCorrect == Spec => []PeriodsPaidOnce
<1>1. PaidInv => PeriodsPaidOnce BY PaidCount DEF PeriodsPaidOnce
<1> QED BY <1>1, InitPaid, PaidStep, PTL DEF Spec

-----------------------------------------------------------------------------
(*                       Intervals that do not overlap                     *)

Precedes(intervals, j, i) ==
  intervals[j].min < intervals[i].min \/ (intervals[j].min = intervals[i].min /\ j < i)
AreIntervals(intervals) == IsList(intervals) /\ \A i \in DOMAIN intervals : IsInterval(intervals[i])
Rank(intervals, i) == Cardinality(Earlier(intervals, i))

\* The order of intervals is total, and the rank of an interval tells its place.
LEMMA PrecedesOrders ==
  ASSUME NEW intervals, AreIntervals(intervals),
         NEW i \in DOMAIN intervals, NEW j \in DOMAIN intervals, NEW k \in DOMAIN intervals
  PROVE  /\ ~Precedes(intervals, i, i)
         /\ Precedes(intervals, i, j) /\ Precedes(intervals, j, k) => Precedes(intervals, i, k)
         /\ i = j \/ Precedes(intervals, i, j) \/ Precedes(intervals, j, i)
         /\ Precedes(intervals, i, j) => intervals[i].min <= intervals[j].min
         /\ i \in Earlier(intervals, j) <=> Precedes(intervals, i, j)
BY DEF AreIntervals, IsList, IsInterval, Earlier, Precedes

LEMMA EarlierFinite ==
  ASSUME NEW intervals, AreIntervals(intervals), NEW i \in DOMAIN intervals
  PROVE  /\ IsFiniteSet(Earlier(intervals, i)) /\ Earlier(intervals, i) \subseteq DOMAIN intervals
         /\ Rank(intervals, i) \in Nat /\ Rank(intervals, i) + 1 \in DOMAIN intervals
<1>1. IsFiniteSet(DOMAIN intervals) /\ Cardinality(DOMAIN intervals) = Len(intervals) /\ Len(intervals) \in Nat
      /\ DOMAIN intervals = 1 .. Len(intervals)
  <2>1. Len(intervals) \in Nat /\ DOMAIN intervals = 1 .. Len(intervals) BY DEF AreIntervals, IsList
  <2>2. \A n \in Nat : IsFiniteSet(1 .. n) /\ Cardinality(1 .. n) = n BY FS_Interval
  <2> QED BY <2>1, <2>2
<1>2. Earlier(intervals, i) \subseteq DOMAIN intervals \ {i} BY PrecedesOrders DEF Earlier
<1>3. IsFiniteSet(DOMAIN intervals \ {i}) /\ Cardinality(DOMAIN intervals \ {i}) = Len(intervals) - 1
  BY <1>1, FS_RemoveElement
<1>4. IsFiniteSet(Earlier(intervals, i)) /\ Cardinality(Earlier(intervals, i)) <= Len(intervals) - 1
  BY <1>2, <1>3, FS_Subset
<1>5. Cardinality(Earlier(intervals, i)) \in Nat BY <1>4, FS_CardinalityType
<1> QED BY <1>1, <1>2, <1>4, <1>5 DEF Rank

LEMMA RankOrders ==
  ASSUME NEW intervals, AreIntervals(intervals), NEW i \in DOMAIN intervals, NEW j \in DOMAIN intervals,
         Precedes(intervals, i, j)
  PROVE  Rank(intervals, i) < Rank(intervals, j)
<1> DEFINE A == Earlier(intervals, i)
           B == Earlier(intervals, j)
<1>1. A \subseteq B BY PrecedesOrders, EarlierFinite
<1>2. i \in B /\ i \notin A BY PrecedesOrders
<1>3. IsFiniteSet(B) /\ Rank(intervals, i) \in Nat /\ Rank(intervals, j) \in Nat BY EarlierFinite
<1>4. Cardinality(A) <= Cardinality(B) /\ (Cardinality(A) = Cardinality(B) => A = B) BY <1>1, <1>3, FS_Subset
<1> QED BY <1>2, <1>3, <1>4 DEF Rank

LEMMA RankTells ==
  ASSUME NEW intervals, AreIntervals(intervals), NEW i \in DOMAIN intervals, NEW j \in DOMAIN intervals
  PROVE  /\ Rank(intervals, i) = Rank(intervals, j) => i = j
         /\ Rank(intervals, i) <= Rank(intervals, j) => ~Precedes(intervals, j, i)
BY EarlierFinite, RankOrders, PrecedesOrders

LEMMA SortedByRank ==
  ASSUME NEW intervals, AreIntervals(intervals), NEW i \in DOMAIN intervals
  PROVE  SortedIntervals(intervals)[Rank(intervals, i) + 1] = intervals[i]
BY EarlierFinite, RankTells DEF Rank, SortedIntervals

\* Whatever comes after an interval has one that comes next.
LEMMA NextInterval ==
  ASSUME NEW intervals, AreIntervals(intervals), NEW i \in DOMAIN intervals, NEW j \in DOMAIN intervals,
         Precedes(intervals, i, j)
  PROVE  \E b \in DOMAIN intervals : Rank(intervals, b) = Rank(intervals, i) + 1 /\ intervals[b].min <= intervals[j].min
<1> DEFINE After == {b \in DOMAIN intervals : Precedes(intervals, i, b)}
           Ranks == {Rank(intervals, b) : b \in After}
<1>1. j \in After OBVIOUS
<1>2. Ranks \in SUBSET Nat /\ Ranks # {} BY <1>1, EarlierFinite
<1>3. PICK r \in Ranks : \A q \in Ranks : r <= q BY <1>2, LeastOf
<1>4. PICK b \in After : r = Rank(intervals, b) BY <1>3
<1>5. \A a \in After : ~Precedes(intervals, a, b) BY <1>3, <1>4, RankTells
<1>6. Earlier(intervals, b) = Earlier(intervals, i) \cup {i}
  <2>1. ASSUME NEW a \in Earlier(intervals, b) PROVE a \in Earlier(intervals, i) \cup {i}
    BY EarlierFinite, PrecedesOrders, <1>5
  <2>2. ASSUME NEW a \in Earlier(intervals, i) \cup {i} PROVE a \in Earlier(intervals, b) BY EarlierFinite, PrecedesOrders
  <2> QED BY <2>1, <2>2
<1>7. IsFiniteSet(Earlier(intervals, i)) /\ i \notin Earlier(intervals, i) BY EarlierFinite, PrecedesOrders
<1>8. Cardinality(Earlier(intervals, b)) = Cardinality(Earlier(intervals, i)) + 1 BY <1>6, <1>7, FS_AddElement
<1>9. intervals[b].min <= intervals[j].min BY <1>1, <1>5, PrecedesOrders DEF AreIntervals, IsInterval
<1> QED BY <1>8, <1>9 DEF Rank

\* At most one interval of a price that could be saved has a given total.
LEMMA OneInterval ==
  ASSUME NEW entry, IsEntry(entry), ValidIntervals(entry), NEW total \in Int,
         NEW i \in DOMAIN entry.intervals, NEW j \in DOMAIN entry.intervals,
         InInterval(entry.intervals[i], total), InInterval(entry.intervals[j], total)
  PROVE  i = j
<1> DEFINE I == entry.intervals
<1>1. AreIntervals(I) BY DEF IsEntry, AreIntervals
<1>2. ASSUME NEW a \in DOMAIN I, NEW b \in DOMAIN I, InInterval(I[a], total), InInterval(I[b], total), Precedes(I, a, b)
      PROVE  FALSE
  <2>1. PICK n \in DOMAIN I : Rank(I, n) = Rank(I, a) + 1 /\ I[n].min <= I[b].min BY <1>1, <1>2, NextInterval
  <2>2. Rank(I, a) \in Nat /\ Rank(I, n) + 1 \in DOMAIN I BY <1>1, EarlierFinite
  <2>3. SortedIntervals(I)[Rank(I, a) + 1] = I[a] /\ SortedIntervals(I)[Rank(I, n) + 1] = I[n] BY <1>1, SortedByRank
  <2>4. DOMAIN SortedIntervals(I) = DOMAIN I BY DEF SortedIntervals
  <2>5. \A x \in DOMAIN I : x > 1 => Follows(SortedIntervals(I)[x - 1], SortedIntervals(I)[x])
    BY <2>4 DEF ValidIntervals
  <2>6. Rank(I, n) + 1 > 1 /\ (Rank(I, n) + 1) - 1 = Rank(I, a) + 1 BY <2>1, <2>2
  <2>7. Follows(I[a], I[n]) BY <2>2, <2>3, <2>5, <2>6
  <2>8. I[n].min \in Int /\ I[b].min \in Int /\ \A max \in I[a].max : max \in Int
    BY <1>1 DEF AreIntervals, IsInterval, IsOption
  <2>9. PICK max \in I[a].max : max <= I[n].min BY <2>7 DEF Follows
  <2>10. total > I[b].min /\ total <= max BY <1>2, <2>9 DEF InInterval
  <2> QED BY <2>1, <2>8, <2>9, <2>10
<1> HIDE DEF I
<1>3. i \in DOMAIN I /\ j \in DOMAIN I /\ InInterval(I[i], total) /\ InInterval(I[j], total) BY DEF I
<1> QED BY <1>1, <1>2, <1>3, PrecedesOrders

-----------------------------------------------------------------------------
(*                     Prices that do not contradict                       *)

IsPattern(p) == IsList(p.text) /\ p.wild \in BOOLEAN
Plain(p) == p.wild => \A x \in DOMAIN p.text : p.text[x] # "_"

\* Two plain patterns of one name are in conflict.
LEMMA PatternsMeet ==
  ASSUME NEW p, NEW q, NEW name, IsPattern(p), IsPattern(q), IsList(name), Plain(p), Plain(q),
         Fits(p, name), Fits(q, name)
  PROVE  PatternsConflict(p, q)
<1>1. /\ ~p.wild => p.text = name
      /\ ~q.wild => q.text = name
      /\ p.wild => IsPrefixOf(p.text, name)
      /\ q.wild => IsPrefixOf(q.text, name)
  BY DEF Fits, LikePrefix, Plain, IsPrefixOf
<1>2. CASE p.wild /\ q.wild BY <1>1, <1>2 DEF IsPattern, IsList, IsPrefixOf, PatternsConflict
<1> QED BY <1>1, <1>2 DEF PatternsConflict, IsPattern

\* Of prices that could be saved one at most is for a name, on one platform.
LEMMA OnePrice ==
  ASSUME NEW prices, IsPriceList(prices), ValidEntries(prices), NEW name, IsList(name),
         NEW i \in DOMAIN prices, NEW j \in DOMAIN prices,
         Applies(prices[i], name), Applies(prices[j], name), prices[i].platform = prices[j].platform
  PROVE  i = j \/ Wildcards(prices[i]) \/ Wildcards(prices[j])
<1> SUFFICES ASSUME ~Wildcards(prices[i]), ~Wildcards(prices[j]) PROVE i = j OBVIOUS
<1>1. IsEntry(prices[i]) /\ IsEntry(prices[j]) /\ i \in Int /\ j \in Int BY DEF IsPriceList, IsList
<1>2. PICK x \in DOMAIN prices[i].models : Fits(prices[i].models[x], name) BY DEF Applies
<1>3. PICK y \in DOMAIN prices[j].models : Fits(prices[j].models[y], name) BY DEF Applies
<1> DEFINE p == prices[i].models[x]
           q == prices[j].models[y]
<1>4. IsPattern(p) /\ IsPattern(q) BY <1>1 DEF IsEntry, IsPattern
<1>5. Plain(p) /\ Plain(q) BY DEF Wildcards, Plain
<1>6. Fits(p, name) /\ Fits(q, name) BY <1>2, <1>3
<1>7. PatternsConflict(p, q) /\ PatternsConflict(q, p) BY <1>4, <1>5, <1>6, PatternsMeet
<1>8. ~(i < j) /\ ~(j < i) BY <1>7 DEF ValidEntries
<1> QED BY <1>1, <1>8

-----------------------------------------------------------------------------
(*                          What tokens cost                               *)

PriceFields == {"input", "output", "read", "write", "imageIn", "imageOut"}
TokensOf(usage) == Reported(usage, "input") + Reported(usage, "output")

LEMMA ReportedNumbers ==
  ASSUME NEW usage, IsUsage(usage), NEW f \in DOMAIN NoUsage
  PROVE  Reported(usage, f) \in Nat
BY DEF IsUsage, IsOption, OrElse, Reported, AtLeastZero

\* Every token is of one kind.
LEMMA KindsCount ==
  ASSUME NEW usage, IsUsage(usage)
  PROVE  /\ \A f \in PriceFields : Kinds(usage)[f] \in Nat
         /\ Kinds(usage).input + Kinds(usage).read + Kinds(usage).write + Kinds(usage).imageIn = Reported(usage, "input")
         /\ Kinds(usage).output + Kinds(usage).imageOut = Reported(usage, "output")
         /\ Reported(usage, "input") \in Nat /\ Reported(usage, "output") \in Nat
         /\ TokensOf(usage) \in Nat /\ TotalTokens(usage) \in Nat
<1>1. \A f \in {"input", "output", "cached", "write", "imageIn", "imageOut"} : Reported(usage, f) \in Nat
  BY ReportedNumbers DEF NoUsage
<1>2. \A f \in {"total"} : OrElse(usage[f], TokensOf(usage)) \in Int
  BY <1>1 DEF IsUsage, IsOption, OrElse, TokensOf, NoUsage
<1>3. TotalTokens(usage) \in Nat BY <1>2 DEF TotalTokens, AtLeastZero, TokensOf
<1> DEFINE in == Reported(usage, "input")
           out == Reported(usage, "output")
           cached == Lesser(Reported(usage, "cached"), in)
           write == Lesser(Reported(usage, "write"), in - cached)
           imageIn == Lesser(Reported(usage, "imageIn"), in - cached - write)
           imageOut == Lesser(Reported(usage, "imageOut"), out)
<1>4. Kinds(usage) = [input |-> in - cached - write - imageIn, read |-> cached, write |-> write, imageIn |-> imageIn,
                      output |-> out - imageOut, imageOut |-> imageOut]
  BY DEF Kinds
<1>5. in \in Nat /\ out \in Nat BY <1>1
<1>6. cached \in Nat /\ cached <= in BY <1>1 DEF Lesser
<1>7. write \in Nat /\ write <= in - cached BY <1>1, <1>5, <1>6 DEF Lesser
<1>8. imageIn \in Nat /\ imageIn <= in - cached - write BY <1>1, <1>5, <1>6, <1>7 DEF Lesser
<1>9. imageOut \in Nat /\ imageOut <= out
  <2> HIDE DEF out
  <2> QED BY <1>1, <1>5 DEF Lesser
<1>10. TokensOf(usage) = in + out BY DEF TokensOf
<1> HIDE DEF in, out, cached, write, imageIn, imageOut
<1>11. in = Reported(usage, "input") /\ out = Reported(usage, "output") BY DEF in, out
<1> QED BY <1>3, <1>4, <1>5, <1>6, <1>7, <1>8, <1>9, <1>10, <1>11 DEF PriceFields

\* The prices that count are prices the entry knows of.
OwnInterval(entry, interval) == interval = {} \/ \E i \in DOMAIN entry.intervals : interval = {entry.intervals[i]}
LEMMA PricesKnown ==
  ASSUME NEW entry, IsEntry(entry), NEW interval, OwnInterval(entry, interval)
  PROVE  /\ PricesOf(entry) \subseteq Nat
         /\ \A f \in PriceFields : PricesIn(entry, interval)[f] \in PricesOf(entry)
<1> DEFINE T == {"input", "output", "read", "write"}
           of(f, default) == IF interval = {} THEN default ELSE OrElse((CHOOSE v \in interval : TRUE)[f], default)
<1>1. /\ \A f \in {"read", "write", "imageIn", "imageOut"} : entry[f] \subseteq Nat
      /\ \A i \in DOMAIN entry.intervals, f \in T : entry.intervals[i][f] \subseteq Nat
      /\ entry.input \in Nat /\ entry.output \in Nat
  BY DEF IsEntry, IsInterval, IsOption
<1>2. PricesOf(entry) \subseteq Nat BY <1>1 DEF PricesOf
<1>3. ASSUME NEW f \in T, NEW default \in PricesOf(entry) PROVE of(f, default) \in PricesOf(entry)
  <2>1. CASE interval = {} BY <1>3, <2>1
  <2>2. CASE interval # {} BY <2>2, <1>3 DEF OwnInterval, PricesOf, OrElse
  <2> QED BY <2>1, <2>2
<1>4. entry.input \in PricesOf(entry) /\ entry.output \in PricesOf(entry)
      /\ \A f \in {"read", "write", "imageIn", "imageOut"}, default \in PricesOf(entry) :
           OrElse(entry[f], default) \in PricesOf(entry)
  BY DEF PricesOf, OrElse
<1> DEFINE in == of("input", entry.input)
           out == of("output", entry.output)
<1>5. in \in PricesOf(entry) /\ out \in PricesOf(entry) BY <1>3, <1>4
<1>6. PricesIn(entry, interval) =
        [input |-> in, output |-> out,
         read |-> of("read", OrElse(entry.read, in)), write |-> of("write", OrElse(entry.write, in)),
         imageIn |-> OrElse(entry.imageIn, in), imageOut |-> OrElse(entry.imageOut, out)]
  BY DEF PricesIn
<1>7. of("read", OrElse(entry.read, in)) \in PricesOf(entry) /\ of("write", OrElse(entry.write, in)) \in PricesOf(entry)
      /\ OrElse(entry.imageIn, in) \in PricesOf(entry) /\ OrElse(entry.imageOut, out) \in PricesOf(entry)
  <2>1. /\ OrElse(entry.read, in) \in PricesOf(entry) /\ OrElse(entry.write, in) \in PricesOf(entry)
        /\ OrElse(entry.imageIn, in) \in PricesOf(entry) /\ OrElse(entry.imageOut, out) \in PricesOf(entry)
    BY <1>4, <1>5
  <2> QED BY <1>3, <2>1
<1> HIDE DEF of, in, out
<1> QED BY <1>2, <1>5, <1>6, <1>7 DEF PriceFields

LEMMA TimesGrows ==
  ASSUME NEW k \in Nat, NEW p \in Nat, NEW h \in Nat
  PROVE  k * p \in Nat /\ (p <= h => k * p <= k * h) /\ (h <= p => k * h <= k * p)
OBVIOUS

\* A sum of tokens times prices lies between all tokens at the lowest and at the
\* highest price.
LEMMA SumWithin ==
  ASSUME NEW kinds, NEW prices, NEW S \in SUBSET Nat,
         \A f \in PriceFields : kinds[f] \in Nat /\ prices[f] \in S,
         NEW tokens, tokens = kinds["input"] + kinds["read"] + kinds["write"] + kinds["imageIn"] + kinds["output"] + kinds["imageOut"],
         NEW sum, sum = kinds["input"] * prices["input"] + kinds["read"] * prices["read"] + kinds["write"] * prices["write"]
                        + kinds["imageIn"] * prices["imageIn"] + kinds["output"] * prices["output"]
                        + kinds["imageOut"] * prices["imageOut"]
  PROVE  /\ sum \in Nat
         /\ \E h \in S : sum <= h * tokens
         /\ \E l \in S : l * tokens <= sum
<1>1. \A f \in PriceFields : kinds[f] \in Nat /\ prices[f] \in Nat /\ kinds[f] * prices[f] \in Nat
  <2> TAKE f \in PriceFields
  <2>1. kinds[f] \in Nat /\ prices[f] \in Nat OBVIOUS
  <2> QED BY <2>1, TimesGrows
<1>2. sum \in Nat BY <1>1 DEF PriceFields
<1>3. \E h \in S : \A f \in PriceFields : prices[f] <= h
  <2> DEFINE P == {prices[f] : f \in PriceFields}
  <2>1. P \in SUBSET Nat /\ P # {} BY <1>1 DEF PriceFields
  <2>2. IsFiniteSet(P)
    <3>1. P = {prices["input"], prices["output"], prices["read"]} \cup {prices["write"], prices["imageIn"], prices["imageOut"]}
      BY DEF PriceFields
    <3>2. \A a, b, c : IsFiniteSet({a, b, c})
      <4> TAKE a, b, c
      <4>1. IsFiniteSet({a}) /\ IsFiniteSet({b}) /\ IsFiniteSet({c}) BY FS_Singleton
      <4>2. IsFiniteSet({a} \cup {b}) BY <4>1, FS_Union
      <4>3. IsFiniteSet(({a} \cup {b}) \cup {c}) BY <4>1, <4>2, FS_Union
      <4>4. ({a} \cup {b}) \cup {c} = {a, b, c} OBVIOUS
      <4> QED BY <4>3, <4>4
    <3> HIDE DEF P
    <3> QED BY <3>1, <3>2, FS_Union
  <2>3. PICK h \in P : \A n \in P : n <= h BY <2>1, <2>2, GreatestOf
  <2> QED BY <2>3
<1>4. \E l \in S : \A f \in PriceFields : l <= prices[f]
  <2> DEFINE P == {prices[f] : f \in PriceFields}
  <2>1. P \in SUBSET Nat /\ P # {} BY <1>1 DEF PriceFields
  <2>2. PICK l \in P : \A n \in P : l <= n BY <2>1, LeastOf
  <2> QED BY <2>2
<1>5. PICK h \in S : \A f \in PriceFields : prices[f] <= h BY <1>3
<1>6. PICK l \in S : \A f \in PriceFields : l <= prices[f] BY <1>4
<1>7. \A f \in PriceFields : kinds[f] * prices[f] <= kinds[f] * h /\ kinds[f] * l <= kinds[f] * prices[f]
  <2> TAKE f \in PriceFields
  <2>1. kinds[f] \in Nat /\ prices[f] \in Nat /\ h \in Nat /\ l \in Nat /\ prices[f] <= h /\ l <= prices[f] BY <1>5, <1>6
  <2> QED BY <2>1, TimesGrows
<1>8. ASSUME NEW x \in Nat
      PROVE  x * tokens = kinds["input"] * x + kinds["read"] * x + kinds["write"] * x + kinds["imageIn"] * x
                          + kinds["output"] * x + kinds["imageOut"] * x
  BY <1>1 DEF PriceFields
<1>9. \A f \in PriceFields : kinds[f] * h \in Nat /\ kinds[f] * l \in Nat
  <2> TAKE f \in PriceFields
  <2>1. kinds[f] \in Nat /\ h \in Nat /\ l \in Nat BY <1>5, <1>6
  <2> QED BY <2>1, TimesGrows
<1>10. h \in Nat /\ l \in Nat OBVIOUS
<1>11. sum <= h * tokens
  <2>1. h * tokens = kinds["input"] * h + kinds["read"] * h + kinds["write"] * h + kinds["imageIn"] * h
                     + kinds["output"] * h + kinds["imageOut"] * h
    BY <1>8, <1>10
  <2> QED BY <1>1, <1>7, <1>9, <2>1 DEF PriceFields
<1>12. l * tokens <= sum
  <2>1. l * tokens = kinds["input"] * l + kinds["read"] * l + kinds["write"] * l + kinds["imageIn"] * l
                     + kinds["output"] * l + kinds["imageOut"] * l
    BY <1>8, <1>10
  <2> QED BY <1>1, <1>7, <1>9, <2>1 DEF PriceFields
<1> QED BY <1>2, <1>11, <1>12

LEMMA NumeratorWithin ==
  ASSUME NEW entry, IsEntry(entry), NEW interval, OwnInterval(entry, interval), NEW usage, IsUsage(usage)
  PROVE  /\ Numerator(entry, interval, usage) \in Nat
         /\ \E h \in PricesOf(entry) : Numerator(entry, interval, usage) <= h * TokensOf(usage)
         /\ \E l \in PricesOf(entry) : l * TokensOf(usage) <= Numerator(entry, interval, usage)
<1> DEFINE kinds == Kinds(usage)
           prices == PricesIn(entry, interval)
<1>1. \A f \in PriceFields : kinds[f] \in Nat /\ prices[f] \in PricesOf(entry) BY KindsCount, PricesKnown
<1>2. PricesOf(entry) \in SUBSET Nat BY PricesKnown
<1>3. TokensOf(usage) = kinds["input"] + kinds["read"] + kinds["write"] + kinds["imageIn"] + kinds["output"] + kinds["imageOut"]
  BY KindsCount, <1>1 DEF TokensOf, PriceFields
<1>4. Numerator(entry, interval, usage) =
        kinds["input"] * prices["input"] + kinds["read"] * prices["read"] + kinds["write"] * prices["write"]
        + kinds["imageIn"] * prices["imageIn"] + kinds["output"] * prices["output"]
        + kinds["imageOut"] * prices["imageOut"]
  BY DEF Numerator
<1> HIDE DEF kinds, prices
<1> QED BY <1>1, <1>2, <1>3, <1>4, SumWithin

LEMMA Divides ==
  ASSUME NEW n \in Nat, NEW s \in Nat \ {0}
  PROVE  n \div s \in Nat /\ (n \div s) * s <= n /\ n < (n \div s + 1) * s
OBVIOUS

LEMMA TimesWithin ==
  ASSUME NEW n \in Nat, NEW s \in Nat \ {0}, NEW p \in Nat, NEW r \in Nat
  PROVE  /\ n <= p => (n \div s) * s <= p /\ ((n * r) \div (s * s)) * s * s <= p * r
         /\ p <= n => (n \div s + 1) * s > p /\ ((n * r) \div (s * s) + 1) * s * s > p * r
<1>1. s * s \in Nat \ {0} /\ n * r \in Nat /\ p * r \in Nat OBVIOUS
<1>2. PICK q \in Nat : q = n \div s /\ q * s <= n /\ n < (q + 1) * s BY Divides
<1>3. PICK b \in Nat : b = (n * r) \div (s * s) /\ b * (s * s) <= n * r /\ n * r < (b + 1) * (s * s) BY <1>1, Divides
<1>4. b * s * s = b * (s * s) /\ (b + 1) * s * s = (b + 1) * (s * s) OBVIOUS
<1>5. n <= p => n * r <= p * r OBVIOUS
<1>6. p <= n => p * r <= n * r OBVIOUS
<1>7. q * s \in Nat /\ (q + 1) * s \in Nat OBVIOUS
<1>8. b * (s * s) \in Nat /\ (b + 1) * (s * s) \in Nat BY <1>1
<1>9. n <= p => (n \div s) * s <= p /\ ((n * r) \div (s * s)) * s * s <= p * r
  <2> SUFFICES ASSUME n <= p PROVE q * s <= p /\ b * s * s <= p * r BY <1>2, <1>3
  <2>1. q * s <= p BY <1>2, <1>7
  <2>2. b * (s * s) <= p * r BY <1>1, <1>3, <1>5, <1>8
  <2> QED BY <1>4, <2>1, <2>2
<1>10. p <= n => (n \div s + 1) * s > p /\ ((n * r) \div (s * s) + 1) * s * s > p * r
  <2> SUFFICES ASSUME p <= n PROVE (q + 1) * s > p /\ (b + 1) * s * s > p * r BY <1>2, <1>3
  <2>1. (q + 1) * s > p BY <1>2, <1>7
  <2>2. (b + 1) * (s * s) > p * r BY <1>1, <1>3, <1>6, <1>8
  <2> QED BY <1>4, <2>1, <2>2
<1> QED BY <1>9, <1>10

\* A call's amounts, computed from an entry and one of its intervals.
LEMMA CostWithin ==
  ASSUME NEW entry, IsEntry(entry), NEW interval, OwnInterval(entry, interval), NEW usage, IsUsage(usage),
         NEW rate \in Nat, NEW base, NEW billed,
         base = Numerator(entry, interval, usage) \div Scale,
         billed = (Numerator(entry, interval, usage) * rate) \div (Scale * Scale)
  PROVE  /\ base \in Nat /\ billed \in Nat
         /\ \E p \in PricesOf(entry) : base * Scale <= p * TokensOf(usage)
                                       /\ billed * Scale * Scale <= p * TokensOf(usage) * rate
         /\ \E p \in PricesOf(entry) : (base + 1) * Scale > p * TokensOf(usage)
                                       /\ (billed + 1) * Scale * Scale > p * TokensOf(usage) * rate
<1> DEFINE n == Numerator(entry, interval, usage)
           tokens == TokensOf(usage)
<1>1. n \in Nat /\ tokens \in Nat /\ Scale \in Nat \ {0} /\ PricesOf(entry) \subseteq Nat
  BY NumeratorWithin, KindsCount, PricesKnown, PricingAssumption
<1>2. PICK h \in PricesOf(entry) : n <= h * tokens BY NumeratorWithin
<1>3. PICK l \in PricesOf(entry) : l * tokens <= n BY NumeratorWithin
<1>4. base = n \div Scale /\ billed = (n * rate) \div (Scale * Scale) OBVIOUS
<1> HIDE DEF n, tokens
<1>5. h * tokens \in Nat /\ l * tokens \in Nat /\ n * rate \in Nat /\ Scale * Scale \in Nat \ {0} BY <1>1
<1>6. base \in Nat /\ billed \in Nat
  <2>1. base \in Nat BY <1>1, <1>4, Divides
  <2>2. (n * rate) \div (Scale * Scale) \in Nat BY <1>5, Divides
  <2> QED BY <1>4, <2>1, <2>2
<1>7. base * Scale <= h * tokens /\ billed * Scale * Scale <= h * tokens * rate BY <1>1, <1>2, <1>4, <1>5, TimesWithin
<1>8. (base + 1) * Scale > l * tokens /\ (billed + 1) * Scale * Scale > l * tokens * rate BY <1>1, <1>3, <1>4, <1>5, TimesWithin
<1> QED BY <1>6, <1>7, <1>8 DEF tokens

FitsOf(entry, usage) == {i \in DOMAIN entry.intervals : InInterval(entry.intervals[i], TotalTokens(usage))}

\* The interval that is found is the one that fits, if there is one.
LEMMA IntervalChosen ==
  ASSUME NEW entry, IsEntry(entry), ValidIntervals(entry), NEW usage, IsUsage(usage)
  PROVE  /\ Cardinality(FitsOf(entry, usage)) <= 1
         /\ IntervalFor(entry.intervals, TotalTokens(usage)) = {entry.intervals[i] : i \in FitsOf(entry, usage)}
         /\ OwnInterval(entry, IntervalFor(entry.intervals, TotalTokens(usage)))
<1> DEFINE I == entry.intervals
           total == TotalTokens(usage)
           fits == {i \in DOMAIN I : InInterval(I[i], total)}
<1>1. total \in Int BY KindsCount
<1>2. \A i, j \in fits : i = j BY <1>1, OneInterval
<1>3. fits = FitsOf(entry, usage) BY DEF FitsOf
<1>4. CASE fits = {} BY <1>4, FS_EmptySet, <1>3 DEF IntervalFor, OwnInterval
<1>5. CASE fits # {}
  <2>1. PICK i \in fits : TRUE BY <1>5
  <2>2. fits = {i} BY <1>2, <2>1
  <2>3. Cardinality(fits) = 1 BY <2>2, FS_Singleton
  <2>4. I[i].min <= I[i].min BY DEF IsEntry, IsInterval
  <2>5. (CHOOSE j \in fits : \A k \in fits : I[j].min <= I[k].min) = i BY <2>2, <2>4
  <2>6. IntervalFor(I, total) = {I[i]} BY <1>5, <2>5 DEF IntervalFor
  <2>7. {I[j] : j \in fits} = {I[i]} BY <2>2
  <2> QED BY <1>3, <2>1, <2>3, <2>6, <2>7 DEF OwnInterval
<1> QED BY <1>4, <1>5

LEMMA NoInterval ==
  ASSUME NEW total
  PROVE  IntervalFor(<<>>, total) = {}
BY DEF IntervalFor

-----------------------------------------------------------------------------
(*                         What a call carries                             *)

GroupsRated ==
  /\ rateRow = [g \in PriceGroups |-> rateRow[g]]
  /\ \A g \in PriceGroups : rateRow[g].rate \in Nat /\ rateRow[g].peakRate \in Nat
  /\ userRate = [g \in PriceGroups |-> userRate[g]] /\ \A g \in PriceGroups : userRate[g] \subseteq UserRates
  /\ keyGroup \in PriceGroups \cup {Ungrouped}
AreChannels(rows) == rows = [k \in ChannelIds |-> rows[k]] /\ \A k \in ChannelIds : IsChannel(rows[k])

\* A price that was read is one that could be saved, of an edition there has been.
PriceKnown(rows, row) ==
  /\ IsEntry(row.entry) /\ ValidIntervals(row.entry)
  /\ row.channel \in ChannelIds /\ row.edition \in 1 .. rows[row.channel].edition
Replaced(rows, row) == ~(rows[row.channel].there /\ rows[row.channel].edition = row.edition)
Within(x, row) ==
  /\ \E p \in PricesOf(row.entry) : x.base * Scale <= p * TokensOf(x.usage)
                                    /\ x.billed * Scale * Scale <= p * TokensOf(x.usage) * x.effective
  /\ \E p \in PricesOf(row.entry) : (x.base + 1) * Scale > p * TokensOf(x.usage)
                                    /\ (x.billed + 1) * Scale * Scale > p * TokensOf(x.usage) * x.effective
Chosen(rows, x, row) ==
  \/ x.interval = {row.entry.intervals[i] : i \in FitsOf(row.entry, x.usage)}
  \/ x.interval = {} /\ Replaced(rows, row)

ChargeAmounts == {"rate", "effective", "base", "billed", "fallback", "stats"}
ChargePlaces == {"idle", "resolved", "answered", "interval", "statsChannel", "statsPrice", "statsInterval", "logged"}
\* A call knows its price, from before its interval is read; what it costs its
\* account is known once it is logged, and free before it is answered.
ChargeOK(rows, x) ==
  /\ DOMAIN x = DOMAIN NoCharge /\ x.pc \in ChargePlaces
  /\ \A f \in ChargeAmounts : x[f] \in Nat
  /\ IsUsage(x.usage)
  /\ x.pc \in {"idle", "resolved"} => ~x.failed
  /\ x.pc \in {"idle", "resolved", "answered"} => x.price = {}
  /\ x.pc \in {"idle", "resolved", "answered", "interval"} => x.billed = 0 /\ x.stats = 0
  /\ x.pc = "interval" => x.price # {}
  /\ \A row \in x.price : /\ x.price = {row} /\ PriceKnown(rows, row)
                          /\ x.pc # "interval" => Within(x, row) /\ Chosen(rows, x, row)
  /\ x.pc \in {"statsPrice", "statsInterval"} => x.channel.id \in ChannelIds /\ (x.billed > 0 => x.fallback > 0)
  /\ x.pc = "statsInterval" => x.statsPrice # {} /\ \A row \in x.statsPrice : PriceKnown(rows, row)
  /\ x.pc = "logged" /\ x.billed > 0 => x.stats > 0

ChargesShape == charge = [c \in Charges |-> charge[c]]
PriceInv == GroupsRated /\ AreChannels(channelRow) /\ ChargesShape /\ \A c \in Charges : ChargeOK(channelRow, charge[c])

\* Editions grow, and one that was replaced does not come back.
EditionsMove(rows, new) ==
  \A k \in ChannelIds :
    /\ new[k].edition >= rows[k].edition
    /\ \A e \in 1 .. rows[k].edition :
         ~(rows[k].there /\ rows[k].edition = e) => ~(new[k].there /\ new[k].edition = e)

LEMMA ChargeKept ==
  ASSUME NEW rows, NEW new, AreChannels(rows), AreChannels(new), EditionsMove(rows, new), NEW x, ChargeOK(rows, x)
  PROVE  ChargeOK(new, x)
<1>1. ASSUME NEW row, PriceKnown(rows, row) PROVE PriceKnown(new, row) /\ (Replaced(rows, row) => Replaced(new, row))
  BY <1>1 DEF PriceKnown, AreChannels, IsChannel, EditionsMove, Replaced
<1> QED BY <1>1 DEF ChargeOK, Chosen

\* The rows that a price is read from are there.
LEMMA RowsThere ==
  ASSUME AreChannels(channelRow), NEW name, NEW row \in PricingRows(name)
  PROVE  PriceKnown(channelRow, row)
<1>1. PICK k \in ActiveChannels :
        \E j \in DOMAIN channelRow[k].saved.prices :
          row.channel = k /\ row.edition = channelRow[k].edition /\ row.entry = channelRow[k].saved.prices[j]
  BY DEF PricingRows
<1>2. k \in ChannelIds /\ channelRow[k].there BY DEF ActiveChannels, ChannelThere
<1>3. IsChannel(channelRow[k]) BY <1>2 DEF AreChannels
<1>4. /\ channelRow[k].edition \in Nat /\ channelRow[k].edition > 0
      /\ IsEntry(row.entry) /\ ValidEntries(channelRow[k].saved.prices)
  BY <1>1, <1>2, <1>3 DEF IsChannel, IsInput, IsPriceList, ValidPrices
<1>5. ValidIntervals(row.entry) BY <1>1, <1>4 DEF ValidEntries
<1> QED BY <1>1, <1>2, <1>4, <1>5 DEF PriceKnown

LEMMA EmptyDomain == DOMAIN <<>> = {}
OBVIOUS

LEMMA StatsRowsThere ==
  ASSUME AreChannels(channelRow), NEW c \in Charges, charge[c].channel.id \in ChannelIds, NEW row \in StatsRows(c)
  PROVE  PriceKnown(channelRow, row)
<1> DEFINE at == charge[c].channel
           rules == IF ChannelThere(at.id) THEN channelRow[at.id].saved.rules ELSE <<>>
           inScope == {i \in DOMAIN rules : charge[c].account \in rules[i].accounts \/ at.group \in rules[i].groups}
           fits(i, j) == rules[i].prices[j].platform = at.platform /\ Applies(rules[i].prices[j], charge[c].statsModel)
           found == UNION {{<<i, j>> : j \in {n \in DOMAIN rules[i].prices : fits(i, n)}} : i \in inScope}
           of(r) == [channel |-> at.id, edition |-> channelRow[at.id].edition, entry |-> rules[r[1]].prices[r[2]]]
<1>1. PICK r \in found : row = of(r)
  <2> HIDE DEF fits
  <2> QED BY ZenonT(60) DEF StatsRows, fits
<1>2. PICK i \in DOMAIN rules : \E j \in DOMAIN rules[i].prices : r = <<i, j>>
  <2> HIDE DEF rules
  <2> QED BY <1>1
<1>3. PICK j \in DOMAIN rules[i].prices : r = <<i, j>> BY <1>2
<1>4. row.channel = at.id /\ row.edition = channelRow[at.id].edition /\ row.entry = rules[i].prices[j]
  <2>1. r[1] = i /\ r[2] = j BY ZenonT(60), <1>3
  <2>2. row = [channel |-> at.id, edition |-> channelRow[at.id].edition, entry |-> rules[r[1]].prices[r[2]]] BY ZenonT(60), <1>1
  <2> HIDE DEF rules, found, of, at
  <2> QED BY SMTT(30), <2>1, <2>2
<1>5. channelRow[at.id].there /\ rules = channelRow[at.id].saved.rules
  <2>1. ~ChannelThere(at.id) => rules = <<>> BY SMTT(30)
  <2>2. DOMAIN <<>> = {} BY ZenonT(60), EmptyDomain
  <2>3. ChannelThere(at.id) BY <1>2, <2>1, <2>2
  <2> QED BY <2>3 DEF ChannelThere
<1>6. IsChannel(channelRow[at.id]) BY ZenonT(60) DEF AreChannels
<1>7. channelRow[at.id].edition \in Nat /\ channelRow[at.id].edition > 0 BY ZenonT(60), <1>5, <1>6 DEF IsChannel
<1>8. IsEntry(rules[i].prices[j]) /\ ValidEntries(rules[i].prices)
  <2>1. IsInput(channelRow[at.id].saved) /\ ValidPrices(channelRow[at.id].saved) BY ZenonT(60), <1>5, <1>6 DEF IsChannel
  <2> HIDE DEF rules
  <2> QED BY ZenonT(60), <1>2, <1>3, <1>5, <2>1 DEF IsInput, IsPriceList, ValidPrices
<1>9. ValidIntervals(rules[i].prices[j]) BY <1>8 DEF ValidEntries
<1> HIDE DEF rules
<1> QED BY SMTT(30), <1>4, <1>7, <1>8, <1>9 DEF PriceKnown

LEMMA RatesAreNumbers ==
  ASSUME GroupsRated
  PROVE  ResolvedRate \in Nat /\ EffectiveRate \in Nat
<1>0. Scale \in Nat \ {0} /\ UserRates \subseteq Nat BY PricingAssumption
<1>1. ResolvedRate \in Nat BY <1>0 DEF GroupsRated, ResolvedRate, OrElse
<1>2. PeakMultiplier \in Nat BY <1>0 DEF GroupsRated, PeakMultiplier
<1>3. Scale \div 2 \in Nat BY <1>0
<1>4. ResolvedRate * PeakMultiplier \in Nat BY <1>1, <1>2
<1>5. EffectiveRate \in Nat
  <2>1. ResolvedRate * PeakMultiplier + Scale \div 2 \in Nat BY <1>3, <1>4
  <2> QED BY <1>0, <2>1, Divides DEF EffectiveRate
<1> QED BY <1>1, <1>5


\* A step of a call changes its record alone, to one that could be.
Charged(c) ==
  \E x : /\ charge' = [charge EXCEPT ![c] = x] /\ ChargeOK(channelRow, x)
         /\ charge[c].pc # "resolved" /\ (x.failed => charge[c].failed /\ charge[c].pc # "logged")

LEMMA NoChargeOK ==
  ASSUME NEW rows
  PROVE  ChargeOK(rows, NoCharge)
<1>1. IsUsage(NoUsage) BY DEF IsUsage, NoUsage, IsOption
<1>2. /\ \A f \in ChargeAmounts : NoCharge[f] \in Nat
      /\ NoCharge.pc = "idle" /\ NoCharge.usage = NoUsage /\ ~NoCharge.failed /\ NoCharge.price = {}
      /\ NoCharge.billed = 0 /\ NoCharge.stats = 0
  BY DEF NoCharge, ChargeAmounts
<1> QED BY <1>1, <1>2 DEF ChargeOK, ChargePlaces

\* A record that differs in what a call has no use for yet is no worse.
LEMMA ResolveModelCharges ==
  ASSUME PriceInv, NEW c \in Charges, NEW name, ResolveModel(c, name)
  PROVE  Charged(c)
<1>1. PICK mapped, source, billing :
        charge' = [charge EXCEPT ![c] = [NoCharge EXCEPT !.pc = "resolved", !.requested = name, !.mapped = mapped,
                                                         !.source = source, !.billing = billing]]
  BY DEF ResolveModel
<1> DEFINE x == [NoCharge EXCEPT !.pc = "resolved", !.requested = name, !.mapped = mapped,
                                 !.source = source, !.billing = billing]
<1>2. /\ DOMAIN x = DOMAIN NoCharge /\ x.pc = "resolved" /\ x.usage = NoCharge.usage /\ x.failed = NoCharge.failed
      /\ x.price = NoCharge.price /\ \A f \in ChargeAmounts : x[f] = NoCharge[f]
  BY DEF NoCharge, ChargeAmounts
<1>3. ChargeOK(channelRow, NoCharge) BY NoChargeOK
<1>4. NoCharge.pc = "idle" /\ ~NoCharge.failed BY DEF NoCharge
<1>5. charge' = [charge EXCEPT ![c] = x] BY <1>1
<1>6. charge[c].pc = "idle" BY DEF ResolveModel
<1> HIDE DEF x
<1>7. ChargeOK(channelRow, x)
  BY <1>2, <1>3, <1>4 DEF ChargeOK, ChargePlaces, ChargeAmounts
<1> QED BY <1>2, <1>4, <1>5, <1>6, <1>7 DEF Charged

LEMMA ReadPriceCharges ==
  ASSUME PriceInv, NEW c \in Charges, ReadPrice(c)
  PROVE  Charged(c)
<1> DEFINE rows == PricingRows(charge[c].billing)
           row == CHOOSE r \in rows : TRUE
           x1 == [charge[c] EXCEPT !.pc = "statsChannel"]
           x2 == [charge[c] EXCEPT !.pc = "statsChannel", !.base = row.entry.request,
                                   !.billed = (row.entry.request * ResolvedRate) \div Scale]
           x3 == [charge[c] EXCEPT !.pc = "interval", !.price = {row}, !.rate = ResolvedRate,
                                   !.effective = EffectiveRate]
<1>0. /\ charge[c].pc = "answered" /\ ChargeOK(channelRow, charge[c]) /\ AreChannels(channelRow) /\ GroupsRated
      /\ Scale \in Nat \ {0}
  BY SMTT(30), PricingAssumption DEF ReadPrice, PriceInv
<1>1. \/ charge' = [charge EXCEPT ![c] = x1]
      \/ rows # {} /\ charge' = [charge EXCEPT ![c] = x2]
      \/ rows # {} /\ charge' = [charge EXCEPT ![c] = x3]
  <2>1. Cardinality(rows) = 1 => rows # {} BY FS_EmptySet
  <2> QED BY <2>1 DEF ReadPrice
<1>2. rows # {} => PriceKnown(channelRow, row) BY <1>0, RowsThere
<1>3. ResolvedRate \in Nat /\ EffectiveRate \in Nat BY <1>0, RatesAreNumbers
<1>4. ASSUME rows # {} PROVE row.entry.request \in Nat /\ (row.entry.request * ResolvedRate) \div Scale \in Nat
  BY <1>2, <1>4, <1>3, <1>0, Divides DEF PriceKnown, IsEntry
<1> HIDE DEF row, rows
<1>5. CASE charge' = [charge EXCEPT ![c] = x1]
  <2>1. ChargeOK(channelRow, x1) BY <1>0 DEF ChargeOK, ChargePlaces, ChargeAmounts, NoCharge
  <2>2. x1.failed = charge[c].failed BY <1>0 DEF ChargeOK, NoCharge
  <2> QED BY <1>0, <1>5, <2>1, <2>2 DEF Charged
<1>6. CASE rows # {} /\ charge' = [charge EXCEPT ![c] = x2]
  <2>1. ChargeOK(channelRow, x2) BY <1>0, <1>4, <1>6 DEF ChargeOK, ChargePlaces, ChargeAmounts, NoCharge
  <2>2. x2.failed = charge[c].failed BY <1>0 DEF ChargeOK, NoCharge
  <2> QED BY <1>0, <1>6, <2>1, <2>2 DEF Charged
<1>7. CASE rows # {} /\ charge' = [charge EXCEPT ![c] = x3]
  <2>1. ChargeOK(channelRow, x3) BY <1>0, <1>2, <1>3, <1>7 DEF ChargeOK, ChargePlaces, ChargeAmounts, NoCharge
  <2>2. x3.failed = charge[c].failed BY <1>0 DEF ChargeOK, NoCharge
  <2> QED BY <1>0, <1>7, <2>1, <2>2 DEF Charged
<1> QED BY <1>1, <1>5, <1>6, <1>7

LEMMA ReadIntervalCharges ==
  ASSUME PriceInv, NEW c \in Charges, ReadInterval(c)
  PROVE  Charged(c)
<1> DEFINE row == CHOOSE r \in charge[c].price : TRUE
           interval == IntervalFor(CustomerIntervals(row), TotalTokens(charge[c].usage))
           numerator == Numerator(row.entry, interval, charge[c].usage)
           base == numerator \div Scale
           billed == (numerator * charge[c].effective) \div (Scale * Scale)
           x == [charge[c] EXCEPT !.pc = "statsChannel", !.interval = interval, !.base = base, !.billed = billed]
<1>0. /\ charge[c].pc = "interval" /\ ChargeOK(channelRow, charge[c]) /\ AreChannels(channelRow)
      /\ charge' = [charge EXCEPT ![c] = x]
  BY DEF ReadInterval, PriceInv
<1>1. /\ charge[c].price = {row} /\ PriceKnown(channelRow, row) /\ IsUsage(charge[c].usage)
      /\ charge[c].effective \in Nat
  BY <1>0 DEF ChargeOK, ChargeAmounts
<1>2. IsEntry(row.entry) /\ ValidIntervals(row.entry) BY <1>1 DEF PriceKnown
<1>3. \/ interval = {row.entry.intervals[i] : i \in FitsOf(row.entry, charge[c].usage)}
      \/ interval = {} /\ Replaced(channelRow, row)
  <2>1. CASE Replaced(channelRow, row) BY <2>1, NoInterval DEF CustomerIntervals, Replaced, ChannelThere
  <2>2. CASE ~Replaced(channelRow, row) BY <2>2, <1>1, <1>2, IntervalChosen DEF CustomerIntervals, Replaced, ChannelThere
  <2> QED BY <2>1, <2>2
<1>4. OwnInterval(row.entry, interval)
  <2>1. interval = {} => OwnInterval(row.entry, interval) BY DEF OwnInterval
  <2>2. OwnInterval(row.entry, IntervalFor(row.entry.intervals, TotalTokens(charge[c].usage)))
        /\ IntervalFor(row.entry.intervals, TotalTokens(charge[c].usage))
            = {row.entry.intervals[i] : i \in FitsOf(row.entry, charge[c].usage)}
    BY <1>1, <1>2, IntervalChosen
  <2> QED BY <1>3, <2>1, <2>2
<1> HIDE DEF row, interval
<1>5. /\ base \in Nat /\ billed \in Nat
      /\ \E p \in PricesOf(row.entry) : base * Scale <= p * TokensOf(charge[c].usage)
                         /\ billed * Scale * Scale <= p * TokensOf(charge[c].usage) * charge[c].effective
      /\ \E p \in PricesOf(row.entry) : (base + 1) * Scale > p * TokensOf(charge[c].usage)
                         /\ (billed + 1) * Scale * Scale > p * TokensOf(charge[c].usage) * charge[c].effective
  BY <1>1, <1>2, <1>4, CostWithin
<1> HIDE DEF numerator, base, billed
<1>6. /\ DOMAIN x = DOMAIN NoCharge /\ x.pc = "statsChannel" /\ x.base = base /\ x.billed = billed
      /\ x.interval = interval /\ x.price = charge[c].price /\ x.usage = charge[c].usage
      /\ x.effective = charge[c].effective /\ x.failed = charge[c].failed
      /\ \A f \in ChargeAmounts : x[f] \in Nat
  BY <1>0, <1>5 DEF ChargeOK, NoCharge, ChargeAmounts
<1> HIDE DEF x
<1>7. Within(x, row) BY <1>5, <1>6 DEF Within
<1>8. Chosen(channelRow, x, row) BY <1>3, <1>6 DEF Chosen
<1>9. ChargeOK(channelRow, x) BY <1>0, <1>1, <1>6, <1>7, <1>8 DEF ChargeOK, ChargePlaces
<1> QED BY <1>0, <1>6, <1>9 DEF Charged

LEMMA ReadStatsChannelCharges ==
  ASSUME PriceInv, NEW c \in Charges, ReadStatsChannel(c)
  PROVE  Charged(c)
<1> DEFINE there == IF keyGroup = Ungrouped THEN {} ELSE ChannelOf(keyGroup)
           k == CHOOSE l \in there : TRUE
           fallback == FallbackCost(channelRow[k].saved.apply, charge[c].base, charge[c].billed)
           channel == [id |-> k, group |-> keyGroup, platform |-> rateRow[keyGroup].platform]
           x1 == [charge[c] EXCEPT !.pc = "logged", !.stats = charge[c].billed]
           x2 == [charge[c] EXCEPT !.pc = "statsPrice", !.channel = channel, !.fallback = fallback]
<1>0. charge[c].pc = "statsChannel" /\ ChargeOK(channelRow, charge[c]) BY DEF ReadStatsChannel, PriceInv
<1>1. \/ charge' = [charge EXCEPT ![c] = x1]
      \/ there # {} /\ charge' = [charge EXCEPT ![c] = x2]
  BY DEF ReadStatsChannel
<1>2. there # {} => k \in ChannelIds BY DEF ChannelOf, ActiveChannels
<1>3. fallback \in Nat /\ (charge[c].billed > 0 => fallback > 0)
  BY <1>0 DEF ChargeOK, ChargeAmounts, FallbackCost
<1>4. channel.id = k OBVIOUS
<1> HIDE DEF fallback, there, k, channel
<1>5. CASE charge' = [charge EXCEPT ![c] = x1]
  <2>1. ChargeOK(channelRow, x1) BY <1>0 DEF ChargeOK, NoCharge, ChargeAmounts, ChargePlaces, Within, Chosen
  <2>2. x1.failed = charge[c].failed BY <1>0 DEF ChargeOK, NoCharge
  <2> QED BY <1>0, <1>5, <2>1, <2>2 DEF Charged
<1>6. CASE there # {} /\ charge' = [charge EXCEPT ![c] = x2]
  <2>1. ChargeOK(channelRow, x2)
    BY <1>0, <1>3, <1>2, <1>4, <1>6 DEF ChargeOK, NoCharge, ChargeAmounts, ChargePlaces, Within, Chosen
  <2>2. x2.failed = charge[c].failed BY <1>0 DEF ChargeOK, NoCharge
  <2> QED BY <1>0, <1>6, <2>1, <2>2 DEF Charged
<1> QED BY <1>1, <1>5, <1>6

LEMMA LogsStatsCharges ==
  ASSUME PriceInv, NEW c \in Charges, NEW cost \in Nat, LogsStats(c, cost),
         charge[c].pc \in {"statsPrice", "statsInterval"}
  PROVE  Charged(c)
<1> DEFINE s == IF cost > 0 THEN cost ELSE charge[c].fallback
           x == [charge[c] EXCEPT !.pc = "logged", !.stats = s]
<1>0. ChargeOK(channelRow, charge[c]) /\ ChargesShape BY DEF PriceInv
<1>1. charge' = [charge EXCEPT ![c] = x] BY <1>0 DEF LogsStats, ChargesShape
<1>2. s \in Nat /\ (charge[c].billed > 0 => s > 0) BY <1>0 DEF ChargeOK, ChargeAmounts
<1> HIDE DEF s
<1>3. /\ DOMAIN x = DOMAIN NoCharge /\ x.pc = "logged" /\ x.stats = s
      /\ x.billed = charge[c].billed /\ x.price = charge[c].price /\ x.usage = charge[c].usage
      /\ x.effective = charge[c].effective /\ x.base = charge[c].base /\ x.interval = charge[c].interval
      /\ x.failed = charge[c].failed /\ \A f \in ChargeAmounts : x[f] \in Nat
  BY <1>0, <1>2 DEF ChargeOK, NoCharge, ChargeAmounts
<1> HIDE DEF x
<1>4. ChargeOK(channelRow, x) BY <1>0, <1>2, <1>3 DEF ChargeOK, ChargePlaces, Within, Chosen
<1> QED BY <1>1, <1>3, <1>4 DEF Charged

LEMMA ReadStatsPriceCharges ==
  ASSUME PriceInv, NEW c \in Charges, ReadStatsPrice(c)
  PROVE  Charged(c)
<1> DEFINE rows == StatsRows(c)
           row == CHOOSE r \in rows : TRUE
           x == [charge[c] EXCEPT !.pc = "statsInterval", !.statsPrice = {row}]
<1>0. charge[c].pc = "statsPrice" /\ ChargeOK(channelRow, charge[c]) /\ AreChannels(channelRow) /\ ChargesShape
  BY DEF ReadStatsPrice, PriceInv
<1>1. rows # {} => PriceKnown(channelRow, row) BY <1>0, StatsRowsThere DEF ChargeOK
<1>2. \/ LogsStats(c, 0)
      \/ rows # {} /\ LogsStats(c, row.entry.request)
      \/ rows # {} /\ charge' = [charge EXCEPT ![c].pc = "statsInterval", ![c].statsPrice = {row}]
  BY DEF ReadStatsPrice, row, rows
<1> HIDE DEF row, rows
<1>3. CASE LogsStats(c, 0) BY <1>0, <1>3, LogsStatsCharges
<1>4. CASE rows # {} /\ LogsStats(c, row.entry.request) BY <1>1, <1>4, <1>0, LogsStatsCharges DEF PriceKnown, IsEntry
<1>5. CASE rows # {} /\ charge' = [charge EXCEPT ![c].pc = "statsInterval", ![c].statsPrice = {row}]
  <2>1. charge' = [charge EXCEPT ![c] = x] BY <1>0, <1>5 DEF ChargesShape
  <2>2. /\ DOMAIN x = DOMAIN NoCharge /\ x.pc = "statsInterval" /\ x.statsPrice = {row}
        /\ x.stats = charge[c].stats /\ x.channel = charge[c].channel /\ x.fallback = charge[c].fallback
        /\ x.billed = charge[c].billed /\ x.price = charge[c].price /\ x.usage = charge[c].usage
        /\ x.effective = charge[c].effective /\ x.base = charge[c].base /\ x.interval = charge[c].interval
        /\ x.failed = charge[c].failed /\ \A f \in ChargeAmounts : x[f] \in Nat
    BY <1>0 DEF ChargeOK, NoCharge, ChargeAmounts
  <2> HIDE DEF x
  <2>3. ChargeOK(channelRow, x) BY <1>0, <1>1, <1>5, <2>2 DEF ChargeOK, ChargePlaces, Within, Chosen
  <2> QED BY <1>0, <2>1, <2>2, <2>3 DEF Charged
<1> QED BY <1>2, <1>3, <1>4, <1>5

LEMMA ReadStatsIntervalCharges ==
  ASSUME PriceInv, NEW c \in Charges, ReadStatsInterval(c)
  PROVE  Charged(c)
<1> DEFINE row == CHOOSE r \in charge[c].statsPrice : TRUE
           interval == IntervalFor(CustomerIntervals(row), TotalTokens(charge[c].usage))
           numerator == Numerator(row.entry, interval, charge[c].usage)
<1>0. /\ charge[c].pc = "statsInterval" /\ ChargeOK(channelRow, charge[c])
      /\ LogsStats(c, numerator \div Scale)
  BY DEF ReadStatsInterval, PriceInv
<1>1. PriceKnown(channelRow, row) /\ IsUsage(charge[c].usage) BY <1>0 DEF ChargeOK
<1>2. IsEntry(row.entry) /\ ValidIntervals(row.entry) BY <1>1 DEF PriceKnown
<1>3. OwnInterval(row.entry, interval)
  <2>1. CustomerIntervals(row) \in {row.entry.intervals, <<>>} BY DEF CustomerIntervals
  <2>2. OwnInterval(row.entry, IntervalFor(row.entry.intervals, TotalTokens(charge[c].usage)))
    BY <1>1, <1>2, IntervalChosen
  <2>3. \A total : IntervalFor(<<>>, total) = {} BY NoInterval
  <2>4. OwnInterval(row.entry, {}) BY DEF OwnInterval
  <2> QED BY <2>1, <2>2, <2>3, <2>4
<1> HIDE DEF row, interval
<1>4. numerator \in Nat BY <1>1, <1>2, <1>3, NumeratorWithin
<1> HIDE DEF numerator
<1>5. numerator \div Scale \in Nat BY <1>4, PricingAssumption, Divides
<1> QED BY <1>0, <1>5, LogsStatsCharges

-----------------------------------------------------------------------------
(*                       Calls, rates and channels                         *)

\* A call that is logged has a price before it, or none when its account failed it.
LogsAs(c, failed, ok) ==
  \E x : /\ charge' = [charge EXCEPT ![c] = x] /\ ChargeOK(channelRow, x)
         /\ x.failed = failed /\ (~ok => x.pc = "logged" /\ x.billed = 0 /\ x.stats = 0)
LEMMA LogsCharges ==
  ASSUME PriceInv, NEW c \in Charges, charge[c].pc = "resolved", NEW payer, NEW failed, NEW ok, NEW usage,
         IsUsage(usage), NEW observed, Logs(c, payer, failed, ok, usage, observed)
  PROVE  LogsAs(c, failed, ok)
<1>0. ChargeOK(channelRow, charge[c]) BY DEF PriceInv
<1>1. PICK p, b, m : p = (IF ok THEN "answered" ELSE "logged")
        /\ charge' = [charge EXCEPT ![c] = [@ EXCEPT !.pc = p, !.account = payer, !.failed = failed, !.ok = ok,
                                                     !.usage = usage, !.billing = b, !.statsModel = m]]
  BY DEF Logs
<1>2. p \in {"answered", "logged"} /\ (~ok => p = "logged") BY <1>1
<1> DEFINE x == [charge[c] EXCEPT !.pc = p, !.account = payer, !.failed = failed, !.ok = ok, !.usage = usage,
                                  !.billing = b, !.statsModel = m]
<1>5. charge' = [charge EXCEPT ![c] = x] BY <1>1
<1>3. /\ DOMAIN x = DOMAIN NoCharge /\ x.pc = p /\ x.failed = failed /\ x.usage = usage /\ x.price = charge[c].price
      /\ x.billed = charge[c].billed /\ x.stats = charge[c].stats /\ \A f \in ChargeAmounts : x[f] \in Nat
  BY <1>0 DEF ChargeOK, NoCharge, ChargeAmounts
<1> HIDE DEF x
<1>4. ChargeOK(channelRow, x) /\ x.billed = 0 /\ x.stats = 0 BY <1>0, <1>2, <1>3 DEF ChargeOK, ChargePlaces
<1> QED BY <1>2, <1>3, <1>4, <1>5 DEF LogsAs

LEMMA ChargeStepCharges ==
  ASSUME PriceInv, NEW c \in Charges, ChargeStep(c)
  PROVE  Charged(c) /\ UnchangedPrices
<1>1. Charged(c)
  BY SMTT(30), ResolveModelCharges, ReadPriceCharges, ReadIntervalCharges, ReadStatsChannelCharges, ReadStatsPriceCharges,
     ReadStatsIntervalCharges DEF ChargeStep
<1>2. UnchangedPrices
  BY DEF ChargeStep, ResolveModel, ReadPrice, ReadInterval, ReadStatsChannel, ReadStatsPrice, ReadStatsInterval
<1> QED BY <1>1, <1>2

LEMMA SamePrices ==
  ASSUME PriceInv, UnchangedPrices
  PROVE  GroupsRated' /\ AreChannels(channelRow)' /\ channelRow' = channelRow
BY DEF PriceInv, UnchangedPrices, GroupsRated, AreChannels

LEMMA OneChargeMoves ==
  ASSUME PriceInv, UnchangedPrices, NEW c \in Charges, NEW x, charge' = [charge EXCEPT ![c] = x], ChargeOK(channelRow, x)
  PROVE  PriceInv'
BY SamePrices DEF PriceInv, ChargesShape

LEMMA SaveChannelMoves ==
  ASSUME AreChannels(channelRow), NEW k \in ChannelIds, NEW input \in ChannelInputs, SaveChannel(k, input)
  PROVE  AreChannels(channelRow)' /\ EditionsMove(channelRow, channelRow')
<1> DEFINE row == [there |-> TRUE, edition |-> channelRow[k].edition + 1, saved |-> input]
<1>1. channelRow' = [channelRow EXCEPT ![k] = row] BY DEF SaveChannel
<1>2. IsInput(input) /\ ValidPrices(input) BY TablesAssumption DEF SaveChannel, Savable, ValidPrices
<1>3. \A l \in ChannelIds : IsChannel(channelRow[l]) /\ channelRow[l].edition \in Nat BY DEF AreChannels, IsChannel
<1>4. row.there /\ row.edition = channelRow[k].edition + 1 /\ row.saved = input /\ IsChannel(row) BY <1>3, <1>2 DEF IsChannel
<1> HIDE DEF row
<1>5. AreChannels(channelRow)' BY <1>1, <1>3, <1>4 DEF AreChannels
<1>6. EditionsMove(channelRow, channelRow') BY <1>1, <1>3, <1>4 DEF EditionsMove, AreChannels
<1> QED BY <1>5, <1>6

LEMMA DropChannelMoves ==
  ASSUME AreChannels(channelRow), NEW k \in ChannelIds, DropChannel(k)
  PROVE  AreChannels(channelRow)' /\ EditionsMove(channelRow, channelRow')
<1> DEFINE row == [channelRow[k] EXCEPT !.there = FALSE]
<1>1. channelRow' = [channelRow EXCEPT ![k] = row] BY DEF DropChannel
<1>2. \A l \in ChannelIds : IsChannel(channelRow[l]) /\ channelRow[l].edition \in Nat BY DEF AreChannels, IsChannel
<1>3. ~row.there /\ row.edition = channelRow[k].edition /\ IsChannel(row) BY <1>2 DEF IsChannel
<1> HIDE DEF row
<1>4. AreChannels(channelRow)' BY <1>1, <1>2, <1>3 DEF AreChannels
<1>5. EditionsMove(channelRow, channelRow') BY <1>1, <1>2, <1>3 DEF EditionsMove, AreChannels
<1> QED BY <1>4, <1>5

LEMMA SameEditions ==
  ASSUME AreChannels(channelRow), channelRow' = channelRow
  PROVE  AreChannels(channelRow)' /\ EditionsMove(channelRow, channelRow')
BY DEF AreChannels, IsChannel, EditionsMove

LEMMA PricingEditsKeep ==
  ASSUME PriceInv, PricingEdits
  PROVE  PriceInv' /\ charge' = charge
<1>0. GroupsRated /\ AreChannels(channelRow) BY DEF PriceInv
<1>1. charge' = charge
  BY DEF PricingEdits, DropChannel, SaveChannel, SaveGroup, SetUserRate, MoveKeyTo, PeakTurns
<1>2. AreChannels(channelRow)' /\ EditionsMove(channelRow, channelRow')
  BY <1>0, DropChannelMoves, SaveChannelMoves, SameEditions DEF PricingEdits, SaveGroup, SetUserRate, MoveKeyTo, PeakTurns
<1>3. GroupsRated'
  <2>1. CASE \E k \in ChannelIds : DropChannel(k) \/ \E input \in ChannelInputs : SaveChannel(k, input)
    BY <1>0, <2>1 DEF DropChannel, SaveChannel, GroupsRated
  <2>2. ASSUME NEW g \in PriceGroups, NEW row \in GroupInputs, SaveGroup(g, row) PROVE GroupsRated'
    BY TablesAssumption, <1>0, <2>2 DEF SaveGroup, GroupsRated
  <2>3. ASSUME NEW g \in PriceGroups, NEW option \in {{}} \cup {{r} : r \in UserRates}, SetUserRate(g, option)
        PROVE  GroupsRated'
    BY <1>0, <2>3 DEF SetUserRate, GroupsRated
  <2>4. CASE PeakTurns \/ \E g \in PriceGroups \cup {Ungrouped} : MoveKeyTo(g)
    BY <1>0, <2>4 DEF PeakTurns, MoveKeyTo, GroupsRated
  <2> QED BY <2>1, <2>2, <2>3, <2>4 DEF PricingEdits
<1>4. ASSUME NEW c \in Charges PROVE ChargeOK(channelRow', charge[c]) BY <1>2, <1>0, ChargeKept DEF PriceInv, AreChannels
<1> QED BY <1>1, <1>2, <1>3, <1>4 DEF PriceInv, ChargesShape

LEMMA PriceInvStarts == PricingInit => PriceInv
BY TablesAssumption, NoChargeOK DEF PricingInit, GroupsRated, AreChannels, ChargesShape, PriceInv

\* What PriceInv says of the prices and the calls' amounts.
LEMMA PricesAreSafe ==
  ASSUME PriceInv
  PROVE  PricesUnambiguous /\ WithinItsPrices /\ OneIntervalFits /\ AccountCostKnown
<1>1. PricesUnambiguous
  <2> SUFFICES ASSUME NEW k \in ChannelIds, ChannelThere(k), NEW i \in DOMAIN channelRow[k].saved.prices,
                      NEW j \in DOMAIN channelRow[k].saved.prices, NEW name \in ModelNames,
                      Applies(channelRow[k].saved.prices[i], name), Applies(channelRow[k].saved.prices[j], name),
                      channelRow[k].saved.prices[i].platform = channelRow[k].saved.prices[j].platform
               PROVE  i = j \/ Wildcards(channelRow[k].saved.prices[i]) \/ Wildcards(channelRow[k].saved.prices[j])
    BY DEF PricesUnambiguous
  <2>1. IsPriceList(channelRow[k].saved.prices) /\ ValidEntries(channelRow[k].saved.prices)
    BY DEF PriceInv, AreChannels, IsChannel, IsInput, ValidPrices, ChannelThere
  <2>2. IsList(name) BY TablesAssumption
  <2> QED BY <2>1, <2>2, OnePrice
<1>2. WithinItsPrices BY DEF WithinItsPrices, TokensOf, PriceInv, ChargeOK, Within
<1>3. OneIntervalFits
  <2> SUFFICES ASSUME NEW c \in Charges, NEW row \in charge[c].price
               PROVE  /\ Cardinality(FitsOf(row.entry, charge[c].usage)) <= 1
                      /\ charge[c].pc # "interval" => Chosen(channelRow, charge[c], row)
    BY DEF OneIntervalFits, FitsOf, Chosen, Replaced, ChannelThere
  <2>1. PriceKnown(channelRow, row) /\ IsUsage(charge[c].usage)
        /\ (charge[c].pc # "interval" => Chosen(channelRow, charge[c], row))
    BY DEF PriceInv, ChargeOK
  <2> QED BY <2>1, IntervalChosen DEF PriceKnown
<1>4. AccountCostKnown BY DEF AccountCostKnown, PriceInv, ChargeOK
<1> QED BY <1>1, <1>2, <1>3, <1>4

-----------------------------------------------------------------------------
(*                          What a client is sent                          *)

Role == <<"role">>
Stop == <<"stop">>
Done == <<"[DONE]">>
ChunkSet == {Role, Stop, Done} \cup (ContentKinds \X Nat)

LEMMA ChunksDiffer ==
  /\ Role # Stop /\ Role # Done /\ Stop # Done
  /\ Len(Role) = 1 /\ Len(Stop) = 1 /\ Len(Done) = 1
  /\ \A kind, n : Len(<<kind, n>>) = 2 /\ <<kind, n>>[2] = n
                  /\ <<kind, n>> # Role /\ <<kind, n>> # Stop /\ <<kind, n>> # Done
BY DEF Role, Stop, Done

\* What was sent so far: the content, whether the first event came, and whether it was finished.
Told(s, content, opened, closed) ==
  /\ s \in Seq(ChunkSet)
  /\ {s[i] : i \in ContentOf(s)} = content
  /\ \A i, j \in ContentOf(s) : i < j => s[i][2] < s[j][2]
  /\ \A i \in DOMAIN s : (s[i] = Role <=> i = 1 /\ opened) /\ (s[i] = Done => closed /\ i = Len(s))
  /\ opened => s # <<>>
  /\ ~opened /\ ~closed => s = <<>>
  /\ closed => s # <<>> /\ s[Len(s)] = Done

\* A sequence with one more element.
LEMMA OneMore ==
  ASSUME NEW S, NEW s \in Seq(S), NEW x \in S
  PROVE  /\ s \o <<x>> \in Seq(S) /\ Len(s \o <<x>>) = Len(s) + 1 /\ Len(s) \in Nat
         /\ DOMAIN s = 1 .. Len(s) /\ DOMAIN (s \o <<x>>) = 1 .. Len(s) + 1
         /\ \A i \in 1 .. Len(s) : (s \o <<x>>)[i] = s[i]
         /\ (s \o <<x>>)[Len(s) + 1] = x
         /\ s \o <<x>> # <<>>
BY LenProperties, ConcatProperties

LEMMA NothingTold == Told(<<>>, {}, FALSE, FALSE)
BY EmptyDomain DEF ContentOf, Told

LEMMA RoleTold == Told(<<>> \o <<Role>>, {}, TRUE, FALSE)
<1> DEFINE t == <<>> \o <<Role>>
<1>1. <<>> \in Seq(ChunkSet) /\ Len(<<>>) = 0 OBVIOUS
<1>2. Role \in ChunkSet BY DEF ChunkSet
<1>3. t \in Seq(ChunkSet) /\ DOMAIN t = 1 .. 1 /\ t[1] = Role /\ t # <<>> BY <1>1, <1>2, OneMore
<1> HIDE DEF t
<1>4. ContentOf(t) = {} BY <1>3, ChunksDiffer DEF ContentOf
<1>5. \A i \in DOMAIN t : i = 1 /\ t[i] = Role /\ t[i] # Done BY <1>3, ChunksDiffer
<1>6. Told(t, {}, TRUE, FALSE) BY <1>3, <1>4, <1>5 DEF Told
<1> QED BY <1>6 DEF t

\* An event's content is sent after what was sent before it.
LEMMA ContentTold ==
  ASSUME NEW s, NEW content, Told(s, content, TRUE, FALSE), NEW kind \in ContentKinds, NEW n \in Nat,
         \A x \in content : x[2] < n
  PROVE  Told(s \o << <<kind, n>> >>, content \cup {<<kind, n>>}, TRUE, FALSE)
<1> DEFINE x == <<kind, n>>
           t == s \o <<x>>
<1>1. s \in Seq(ChunkSet) /\ x \in ChunkSet BY DEF Told, ChunkSet
<1>2. x # Role /\ x # Done /\ Len(x) = 2 /\ x[2] = n BY ChunksDiffer
<1> HIDE DEF x
<1>3. /\ t \in Seq(ChunkSet) /\ Len(t) = Len(s) + 1 /\ Len(s) \in Nat
      /\ DOMAIN s = 1 .. Len(s) /\ DOMAIN t = 1 .. Len(s) + 1
      /\ \A i \in 1 .. Len(s) : t[i] = s[i]
      /\ t[Len(s) + 1] = x /\ t # <<>>
  BY <1>1, OneMore
<1> HIDE DEF t
<1>4. Len(s) > 0 BY <1>1, EmptySeq DEF Told
<1>5. ContentOf(t) = ContentOf(s) \cup {Len(s) + 1} BY <1>2, <1>3 DEF ContentOf
<1>6. \A i \in ContentOf(s) : i \in 1 .. Len(s) /\ t[i] = s[i] BY <1>3 DEF ContentOf
<1>7. {t[i] : i \in ContentOf(t)} = content \cup {x} BY <1>3, <1>5, <1>6 DEF Told
<1>8. ASSUME NEW i \in ContentOf(t), NEW j \in ContentOf(t), i < j PROVE t[i][2] < t[j][2]
  <2>1. i \in ContentOf(s) BY <1>3, <1>5, <1>6, <1>8
  <2>2. CASE j \in ContentOf(s) BY <1>6, <1>8, <2>1, <2>2 DEF Told
  <2>3. CASE j = Len(s) + 1 BY <2>1, <1>2, <1>3, <1>6, <2>3 DEF Told
  <2> QED BY <1>5, <2>2, <2>3
<1>9. ASSUME NEW i \in DOMAIN t PROVE (t[i] = Role <=> i = 1) /\ t[i] # Done BY <1>3, <1>2, <1>4 DEF Told
<1>10. Told(t, content \cup {x}, TRUE, FALSE) BY <1>3, <1>7, <1>8, <1>9 DEF Told
<1> QED BY <1>10 DEF t, x

\* An end that is sent once leaves the content as it was.
LEMMA EndTold ==
  ASSUME NEW s, NEW content, NEW opened, Told(s, content, opened, FALSE)
  PROVE  Told(s \o << <<"stop">>, <<"[DONE]">> >>, content, opened, TRUE)
<1> DEFINE e == <<Stop, Done>>
           t == s \o e
<1>1. s \in Seq(ChunkSet) /\ Len(s) \in Nat /\ DOMAIN s = 1 .. Len(s) BY LenProperties DEF Told
<1>2. e \in Seq(ChunkSet) /\ Len(e) = 2 /\ e[1] = Stop /\ e[2] = Done BY DEF ChunkSet
<1> HIDE DEF e
<1>3. /\ t \in Seq(ChunkSet) /\ Len(t) = Len(s) + 2
      /\ \A i \in 1 .. Len(s) + 2 : t[i] = IF i <= Len(s) THEN s[i] ELSE e[i - Len(s)]
  <2>1. /\ s \o e \in Seq(ChunkSet) /\ Len(s \o e) = Len(s) + Len(e)
        /\ \A i \in 1 .. Len(s) + Len(e) : (s \o e)[i] = IF i <= Len(s) THEN s[i] ELSE e[i - Len(s)]
    BY <1>1, <1>2, ConcatProperties
  <2> QED BY <1>2, <2>1
<1>4. DOMAIN t = 1 .. Len(s) + 2 BY <1>3, LenProperties
<1>5. \A i \in 1 .. Len(s) : t[i] = s[i] BY <1>1, <1>3
<1>6. t[Len(s) + 1] = Stop /\ t[Len(s) + 2] = Done /\ t # <<>> BY <1>1, <1>2, <1>3
<1> HIDE DEF t
<1>7. ContentOf(t) = ContentOf(s)
  <2>1. Len(t[Len(s) + 1]) # 2 /\ Len(t[Len(s) + 2]) # 2 BY <1>6, ChunksDiffer
  <2>2. \A i \in DOMAIN t : i \in 1 .. Len(s) \/ i = Len(s) + 1 \/ i = Len(s) + 2 BY <1>1, <1>4
  <2>3. \A i \in 1 .. Len(s) : i \in DOMAIN t /\ i \in DOMAIN s BY <1>1, <1>4
  <2> QED BY <1>1, <1>5, <2>1, <2>2, <2>3 DEF ContentOf
<1>8. \A i \in ContentOf(s) : t[i] = s[i] BY <1>1, <1>5 DEF ContentOf
<1>9. ASSUME NEW i \in DOMAIN t PROVE (t[i] = Role <=> i = 1 /\ opened) /\ (t[i] = Done => i = Len(t))
  <2>1. CASE i \in 1 .. Len(s) BY <1>1, <1>5, <2>1 DEF Told
  <2>2. CASE i = Len(s) + 1 BY <1>1, <2>2, EmptySeq, <1>6, ChunksDiffer DEF Told
  <2>3. CASE i = Len(s) + 2 BY <1>1, <1>3, <1>6, <2>3, ChunksDiffer
  <2> QED BY <1>1, <1>4, <2>1, <2>2, <2>3
<1>10. {t[i] : i \in ContentOf(t)} = content BY <1>7, <1>8 DEF Told
<1>11. \A i, j \in ContentOf(t) : i < j => t[i][2] < t[j][2] BY <1>7, <1>8 DEF Told
<1>12. Told(t, content, opened, TRUE) BY <1>3, <1>6, <1>9, <1>10, <1>11 DEF Told
<1> QED BY <1>12 DEF t, e, Stop, Done

-----------------------------------------------------------------------------
(*                         The events of a stream                          *)

ScriptOK(script) ==
  /\ IsList(script)
  /\ \A n \in DOMAIN script : IsUsage(script[n].usage) /\ (script[n].kind = "completed" => n = Len(script))
CompletedBy(script, n) == \E i \in 1 .. n : script[i].kind = "completed"

\* What a stream has taken of its events.
EventsOK(r) ==
  /\ DOMAIN r = DOMAIN NoReply /\ ScriptOK(r.script) /\ r.read \in 0 .. Len(r.script)
  /\ IsUsage(r.usage) /\ \A f \in DOMAIN NoUsage : r.usage[f] = LastReport(r.script, r.read, f)
  /\ r.converted \in BOOLEAN /\ r.role \in BOOLEAN /\ r.done \in BOOLEAN
  /\ r.converted => /\ r.role <=> r.read > 0
                    /\ Told(r.sent, ContentIn(r.script, r.read), r.read > 0, r.done)
                    /\ r.pc # "ended" => (r.done <=> CompletedBy(r.script, r.read))
                    /\ r.pc = "ended" => r.done
Kept == {"pc", "script", "left", "buffer", "converted", "account", "code"}

LEMMA LastReportNext ==
  ASSUME NEW script, NEW n \in Nat, NEW f
  PROVE  LastReport(script, n + 1, f)
           = IF script[n + 1].usage[f] # {} THEN script[n + 1].usage[f] ELSE LastReport(script, n, f)
<1> DEFINE A == {i \in 1 .. n : script[i].usage[f] # {}}
           B == {i \in 1 .. n + 1 : script[i].usage[f] # {}}
<1>1. CASE script[n + 1].usage[f] # {}
  <2>1. n + 1 \in B /\ \A j \in B : j <= n + 1 /\ j \in Int BY <1>1
  <2>2. (CHOOSE i \in B : \A j \in B : j <= i) = n + 1 BY <2>1
  <2> HIDE DEF A
  <2> QED BY <1>1, <2>1, <2>2 DEF LastReport
<1>2. CASE script[n + 1].usage[f] = {}
  <2>1. A = B BY <1>2
  <2>2. /\ LastReport(script, n, f)
             = IF A = {} THEN {} ELSE script[CHOOSE i \in A : \A j \in A : j <= i].usage[f]
        /\ LastReport(script, n + 1, f)
             = IF B = {} THEN {} ELSE script[CHOOSE i \in B : \A j \in B : j <= i].usage[f]
    BY DEF LastReport
  <2> HIDE DEF A, B
  <2> QED BY <1>2, <2>1, <2>2
<1> QED BY <1>1, <1>2

LEMMA ContentNext ==
  ASSUME NEW script, NEW n \in Nat
  PROVE  /\ ContentIn(script, n + 1) = ContentIn(script, n) \cup
              (IF script[n + 1].kind \in ContentKinds THEN {<<script[n + 1].kind, n + 1>>} ELSE {})
         /\ \A x \in ContentIn(script, n) : x[2] < n + 1
         /\ ContentIn(script, 0) = {}
BY DEF ContentIn

LEMMA ChunksOf ==
  ASSUME NEW kind, NEW n
  PROVE  /\ kind \in ContentKinds => Chunks(kind, n) = << <<kind, n>> >>
         /\ kind = "completed" => Chunks(kind, n) = << <<"stop">>, <<"[DONE]">> >>
         /\ kind \notin ContentKinds /\ kind # "completed" => Chunks(kind, n) = <<>>
BY DEF ContentKinds, Chunks

\* One event is taken as it should.
LEMMA TakeEventKeeps ==
  ASSUME NEW r, EventsOK(r), r.pc # "ended", r.read + 1 \in 1 .. Len(r.script)
  PROVE  /\ EventsOK(TakeEvent(r, r.read + 1)) /\ TakeEvent(r, r.read + 1).read = r.read + 1
         /\ \A f \in Kept : TakeEvent(r, r.read + 1)[f] = r[f]
<1> DEFINE n == r.read + 1
           event == r.script[n]
           roles == IF r.role THEN <<>> ELSE << <<"role">> >>
           t == TakeEvent(r, n)
<1>0. r.read \in Nat /\ Len(r.script) \in Nat /\ n \in DOMAIN r.script /\ n \in Nat BY DEF EventsOK, ScriptOK, IsList
<1>1. /\ DOMAIN t = DOMAIN NoReply /\ t.usage = Merged(r.usage, event.usage) /\ t.read = n
      /\ t.role = (r.role \/ r.converted) /\ t.done = (r.done \/ (r.converted /\ event.kind = "completed"))
      /\ t.sent = IF r.converted THEN (r.sent \o roles) \o Chunks(event.kind, n) ELSE r.sent
      /\ \A f \in Kept : t[f] = r[f]
  BY DEF EventsOK, NoReply, TakeEvent, Kept
<1>2. t.pc = r.pc /\ t.script = r.script /\ t.converted = r.converted BY <1>1 DEF Kept
<1>3. IsUsage(event.usage) /\ (event.kind = "completed" => n = Len(r.script)) BY <1>0 DEF EventsOK, ScriptOK
<1> HIDE DEF t
<1>4. IsUsage(t.usage) /\ \A f \in DOMAIN NoUsage : t.usage[f] = LastReport(r.script, n, f)
  <2>1. IsUsage(r.usage) /\ DOMAIN r.usage = DOMAIN NoUsage BY DEF EventsOK, IsUsage
  <2>2. t.usage = [f \in DOMAIN NoUsage |-> IF event.usage[f] # {} THEN event.usage[f] ELSE r.usage[f]]
    BY SMTT(30), <1>1, <2>1 DEF Merged
  <2>3. IsUsage(t.usage) BY <1>3, <2>1, <2>2 DEF IsUsage
  <2>4. ASSUME NEW f \in DOMAIN NoUsage PROVE t.usage[f] = LastReport(r.script, n, f)
    <3>1. r.usage[f] = LastReport(r.script, r.read, f) BY DEF EventsOK
    <3>2. t.usage[f] = IF event.usage[f] # {} THEN event.usage[f] ELSE r.usage[f] BY <2>2
    <3> QED BY SMTT(30), <1>0, <3>1, <3>2, LastReportNext
  <2> QED BY <2>3, <2>4
<1>5. ASSUME r.converted
      PROVE  /\ t.role <=> t.read > 0
             /\ Told(t.sent, ContentIn(r.script, n), TRUE, t.done)
             /\ t.done <=> CompletedBy(r.script, n)
  <2>1. ~CompletedBy(r.script, r.read) /\ ~r.done BY <1>0, <1>5 DEF EventsOK, ScriptOK, IsList, CompletedBy
  <2>2. t.done <=> event.kind = "completed" BY <1>1, <1>5, <2>1
  <2>3. t.done <=> CompletedBy(r.script, n) BY <1>0, <2>1, <2>2 DEF CompletedBy
  <2>4. Told(r.sent, ContentIn(r.script, r.read), r.read > 0, FALSE) /\ (r.role <=> r.read > 0) /\ r.role \in BOOLEAN
    BY <1>5, <2>1 DEF EventsOK
  <2> DEFINE s == r.sent \o roles
  <2>5. Told(s, ContentIn(r.script, r.read), TRUE, FALSE)
    <3>1. CASE r.role
      <4>1. r.sent \in Seq(ChunkSet) BY <2>4 DEF Told
      <4>2. s = r.sent BY <3>1, <4>1, ConcatEmptySeq
      <4>3. (r.read > 0) = TRUE BY <2>4, <3>1
      <4> QED BY <2>4, <4>2, <4>3
    <3>2. CASE ~r.role
      <4>1. r.read = 0 /\ r.sent = <<>> BY <1>0, <2>4, <3>2 DEF Told
      <4>2. s = <<>> \o <<Role>> BY <3>2, <4>1 DEF Role
      <4>3. ContentIn(r.script, r.read) = {} BY <4>1, ContentNext
      <4> QED BY <4>2, <4>3, RoleTold
    <3> QED BY <3>1, <3>2
  <2>6. t.sent = s \o Chunks(event.kind, n) BY <1>1, <1>5
  <2> HIDE DEF s
  <2>7. Told(t.sent, ContentIn(r.script, n), TRUE, t.done)
    <3>1. /\ ContentIn(r.script, n) = ContentIn(r.script, r.read)
               \cup (IF event.kind \in ContentKinds THEN {<<event.kind, n>>} ELSE {})
          /\ \A x \in ContentIn(r.script, r.read) : x[2] < n
      BY <1>0, ContentNext
    <3>2. CASE event.kind \in ContentKinds
      <4>1. event.kind # "completed" BY <3>2 DEF ContentKinds
      <4>2. t.sent = s \o << <<event.kind, n>> >> BY <2>6, <3>2, ChunksOf
      <4>3. Told(s \o << <<event.kind, n>> >>, ContentIn(r.script, r.read) \cup {<<event.kind, n>>}, TRUE, FALSE)
        BY <1>0, <2>5, <3>1, <3>2, ContentTold
      <4>4. t.done = FALSE BY <1>1, <2>1, <2>2, <4>1
      <4> QED BY <3>1, <3>2, <4>2, <4>3, <4>4
    <3>3. CASE event.kind = "completed"
      <4>1. event.kind \notin ContentKinds BY <3>3 DEF ContentKinds
      <4>2. t.sent = s \o << <<"stop">>, <<"[DONE]">> >> BY <2>6, <3>3, ChunksOf
      <4>3. Told(s \o << <<"stop">>, <<"[DONE]">> >>, ContentIn(r.script, r.read), TRUE, TRUE) BY <2>5, EndTold
      <4>4. t.done = TRUE BY <1>1, <1>5, <3>3
      <4>5. ContentIn(r.script, n) = ContentIn(r.script, r.read) BY <3>1, <4>1
      <4> QED BY <4>2, <4>3, <4>4, <4>5
    <3>4. CASE event.kind \notin ContentKinds /\ event.kind # "completed"
      <4>1. s \in Seq(ChunkSet) BY <2>5 DEF Told
      <4>2. t.sent = s BY <2>6, <3>4, <4>1, ChunksOf, ConcatEmptySeq
      <4>3. t.done = FALSE BY <1>1, <2>1, <2>2, <3>4
      <4>4. ContentIn(r.script, n) = ContentIn(r.script, r.read) BY <3>1, <3>4
      <4> QED BY <2>5, <4>2, <4>3, <4>4
    <3> QED BY <3>2, <3>3, <3>4
  <2>8. t.role <=> t.read > 0
    <3>1. t.role BY <1>1, <1>5, Zenon
    <3>2. t.read > 0 BY <1>0, <1>1
    <3> QED BY <3>1, <3>2
  <2> QED BY <2>3, <2>7, <2>8
<1>6. t.role \in BOOLEAN /\ t.done \in BOOLEAN BY <1>1 DEF EventsOK
<1>7. t.read > 0 /\ (t.read > 0) = TRUE /\ t.read \in 0 .. Len(r.script) BY <1>0, <1>1
<1>8. ScriptOK(r.script) /\ r.converted \in BOOLEAN BY DEF EventsOK
<1>9. EventsOK(t)
  <2> HIDE DEF n
  <2> QED BY <1>1, <1>2, <1>4, <1>5, <1>6, <1>7, <1>8 DEF EventsOK
<1> QED BY <1>1, <1>9 DEF t

-----------------------------------------------------------------------------
(*                     A stream that is cut anywhere                       *)

LetterAt(n) == IF n % 3 = 1 THEN (n + 2) \div 3 ELSE 0
Letters(s, from) == s \in Seq(Nat) /\ \A i \in 1 .. Len(s) : s[i] = LetterAt(from + i)
LEMMA LetterFacts ==
  ASSUME NEW n \in Nat
  PROVE  /\ LetterAt(n) \in Nat
         /\ LetterAt(n) = 0 <=> n % 3 # 1
         /\ \A k \in Nat : n = 3 * k + 1 => LetterAt(n) = k + 1
BY DEF LetterAt

\* What has arrived of a stream is in the events it was read as, and the buffer.
Placed(r) ==
  \E a \in 0 .. 3 * Len(r.script) :
    /\ Letters(r.left, a) /\ Len(r.left) = 3 * Len(r.script) - a
    /\ Letters(r.buffer, 3 * r.read) /\ Len(r.buffer) = a - 3 * r.read
    /\ a - 3 * r.read \in 0 .. 2

LEMMA PartOfLetters ==
  ASSUME NEW s, NEW from \in Nat, Letters(s, from), NEW m \in Nat, NEW n \in Nat, n <= Len(s), m <= n
  PROVE  Letters(SubSeq(s, m + 1, n), from + m) /\ Len(SubSeq(s, m + 1, n)) = n - m
<1>1. s \in Seq(Nat) /\ Len(s) \in Nat BY LenProperties DEF Letters
<1>2. \A i \in m + 1 .. n : s[i] \in Nat BY <1>1, ElementOfSeq
<1>3. /\ SubSeq(s, m + 1, n) \in Seq(Nat)
      /\ Len(SubSeq(s, m + 1, n)) = IF m + 1 <= n THEN n - (m + 1) + 1 ELSE 0
      /\ \A i \in 1 .. n - (m + 1) + 1 : SubSeq(s, m + 1, n)[i] = s[m + 1 + i - 1]
  BY SMTT(30), <1>2, SubSeqProperties
<1>4. Len(SubSeq(s, m + 1, n)) = n - m BY <1>3
<1>5. ASSUME NEW i \in 1 .. n - m PROVE SubSeq(s, m + 1, n)[i] = LetterAt(from + m + i)
  <2>1. SubSeq(s, m + 1, n)[i] = s[m + 1 + i - 1] BY SMTT(30), <1>3
  <2>2. m + 1 + i - 1 = m + i /\ m + i \in 1 .. Len(s) /\ from + (m + i) = from + m + i BY <1>1
  <2> QED BY <2>1, <2>2 DEF Letters
<1> QED BY <1>3, <1>4, <1>5 DEF Letters

LEMMA LettersJoin ==
  ASSUME NEW s, NEW t, NEW from \in Nat, Letters(s, from), Letters(t, from + Len(s))
  PROVE  Letters(s \o t, from) /\ Len(s \o t) = Len(s) + Len(t)
<1>1. s \in Seq(Nat) /\ t \in Seq(Nat) /\ Len(s) \in Nat /\ Len(t) \in Nat BY LenProperties DEF Letters
<1>2. /\ s \o t \in Seq(Nat) /\ Len(s \o t) = Len(s) + Len(t)
      /\ \A i \in 1 .. Len(s) + Len(t) : (s \o t)[i] = IF i <= Len(s) THEN s[i] ELSE t[i - Len(s)]
  BY <1>1, ConcatProperties
<1>3. ASSUME NEW i \in 1 .. Len(s) + Len(t) PROVE (s \o t)[i] = LetterAt(from + i)
  <2>1. CASE i <= Len(s) BY <1>1, <1>2, <2>1 DEF Letters
  <2>2. CASE ~(i <= Len(s)) BY <1>1, <2>2, <1>2 DEF Letters
  <2> QED BY <2>1, <2>2
<1> QED BY <1>2, <1>3 DEF Letters

\* The text of a push is the whole events that have arrived.
PushFits(k, buffer, bytes, m, q) ==
  /\ k \in Nat /\ m \in Nat /\ q \in Nat /\ Letters(buffer, 3 * k) /\ Letters(bytes, 3 * k + Len(buffer))
  /\ m = Len(buffer) + Len(bytes) /\ 3 * q <= m /\ m <= 3 * q + 2
LEMMA PushCuts ==
  ASSUME NEW k, NEW buffer, NEW bytes, NEW m, NEW q, PushFits(k, buffer, bytes, m, q)
  PROVE  /\ Letters(Push(buffer, bytes).text, 3 * k) /\ Len(Push(buffer, bytes).text) = 3 * q
         /\ Letters(Push(buffer, bytes).rest, 3 * (k + q)) /\ Len(Push(buffer, bytes).rest) = m - 3 * q
<1> DEFINE all == buffer \o bytes
           ends == {i \in 1 .. Len(all) - 1 : all[i] = 0 /\ all[i + 1] = 0}
           last == IF ends = {} THEN 0 ELSE (CHOOSE i \in ends : \A j \in ends : j <= i) + 1
<1>0. /\ k \in Nat /\ m \in Nat /\ q \in Nat /\ Letters(buffer, 3 * k) /\ Letters(bytes, 3 * k + Len(buffer))
      /\ m = Len(buffer) + Len(bytes) /\ 3 * q <= m /\ m <= 3 * q + 2
  BY DEF PushFits
<1> USE <1>0
<1>1. Letters(all, 3 * k) /\ Len(all) = m BY LettersJoin
<1>2. Push(buffer, bytes) = [text |-> SubSeq(all, 1, last), rest |-> SubSeq(all, last + 1, Len(all))] BY DEF Push
<1> HIDE DEF all
<1>3. ASSUME NEW i \in Nat
      PROVE  i \in ends <=> 1 <= i /\ i <= m - 1 /\ i % 3 = 2
  <2>1. \A j \in 1 .. m : all[j] = LetterAt(3 * k + j) BY <1>1 DEF Letters
  <2>2. ASSUME NEW j \in 1 .. m PROVE all[j] = 0 <=> (3 * k + j) % 3 # 1
    <3>1. 3 * k + j \in Nat OBVIOUS
    <3> QED BY <2>1, <3>1, LetterFacts
  <2>3. \A j \in Nat : (3 * k + j) % 3 = j % 3 OBVIOUS
  <2>4. i \in ends <=> 1 <= i /\ i <= m - 1 /\ all[i] = 0 /\ all[i + 1] = 0 BY <1>1
  <2>5. ASSUME 1 <= i, i <= m - 1 PROVE (all[i] = 0 <=> i % 3 # 1) /\ (all[i + 1] = 0 <=> (i + 1) % 3 # 1)
    BY <2>5, <2>2, <2>3
  <2>6. i % 3 # 1 /\ (i + 1) % 3 # 1 <=> i % 3 = 2 OBVIOUS
  <2> QED BY <2>4, <2>5, <2>6
<1>4. last = 3 * q
  <2>1. ends \subseteq Nat OBVIOUS
  <2>2. CASE q = 0
    <3>1. \A i \in ends : FALSE BY <1>3, <2>1, <2>2
    <3> QED BY <2>2, <3>1
  <2>3. CASE q > 0
    <3> HIDE DEF ends
    <3>0. 3 * q - 1 \in Nat /\ 1 <= 3 * q - 1 /\ 3 * q - 1 <= m - 1 /\ (3 * q - 1) % 3 = 2 BY <2>3
    <3>1. 3 * q - 1 \in Nat /\ 3 * q - 1 \in ends BY <1>3, <3>0
    <3>2. ASSUME NEW j \in ends PROVE j <= 3 * q - 1
      <4>1. j \in Nat /\ j <= m - 1 /\ j % 3 = 2 BY <1>3, <2>1
      <4>2. PICK d \in Nat : j = 3 * d + 2 BY ONLY <4>1
      <4> QED BY <4>1, <4>2
    <3>3. \A i \in ends : (\A j \in ends : j <= i) => i = 3 * q - 1 BY <2>1, <3>1, <3>2
    <3>4. (CHOOSE i \in ends : \A j \in ends : j <= i) = 3 * q - 1 BY <3>1, <3>2, <3>3
    <3>5. last = (3 * q - 1) + 1 BY <3>1, <3>4
    <3> QED BY <3>5
  <2> QED BY <2>2, <2>3
<1> HIDE DEF last
<1>5. Push(buffer, bytes).text = SubSeq(all, 1, 3 * q) /\ Push(buffer, bytes).rest = SubSeq(all, 3 * q + 1, m)
  BY <1>1, <1>2, <1>4
<1>6. Letters(SubSeq(all, 0 + 1, 3 * q), 3 * k + 0) /\ Len(SubSeq(all, 0 + 1, 3 * q)) = 3 * q - 0
  <2>1. PICK f \in Nat, t \in Nat : f = 3 * k /\ t = 3 * q OBVIOUS
  <2>2. Letters(all, f) /\ t <= Len(all) /\ 0 <= t BY <1>1, <2>1
  <2>3. Letters(SubSeq(all, 0 + 1, t), f + 0) /\ Len(SubSeq(all, 0 + 1, t)) = t - 0 BY <2>2, PartOfLetters
  <2> QED BY <2>1, <2>3
<1>7. Letters(SubSeq(all, 3 * q + 1, m), 3 * k + 3 * q) /\ Len(SubSeq(all, 3 * q + 1, m)) = m - 3 * q
  <2>1. PICK f \in Nat, t \in Nat : f = 3 * k /\ t = 3 * q OBVIOUS
  <2>2. Letters(all, f) /\ m <= Len(all) /\ t <= m BY <1>1, <2>1
  <2>3. Letters(SubSeq(all, t + 1, m), f + t) /\ Len(SubSeq(all, t + 1, m)) = m - t BY <2>2, PartOfLetters
  <2> QED BY <2>1, <2>3
<1>8. 0 + 1 = 1 /\ 3 * k + 0 = 3 * k /\ 3 * q - 0 = 3 * q /\ 3 * k + 3 * q = 3 * (k + q) OBVIOUS
<1> QED BY <1>5, <1>6, <1>7, <1>8

\* The events of a text taken one after the other: the function is there.
TakenTo(r, text, n, after) ==
  after = [i \in 0 .. n |-> IF i = 0 THEN r
                            ELSE IF text[i] = 0 THEN after[i - 1] ELSE TakeEvent(after[i - 1], text[i])]
LEMMA TakenExists ==
  ASSUME NEW r, NEW text, NEW n \in Nat
  PROVE  \E after : TakenTo(r, text, n, after)
<1> DEFINE S == {m \in Nat : ~\E after : TakenTo(r, text, m, after)}
<1>1. CASE S = {} BY <1>1
<1>2. CASE S # {}
  <2>1. PICK m \in S : \A k \in S : m <= k BY <1>2, LeastOf
  <2>2. CASE m = 0
    <3> DEFINE f == [i \in 0 .. 0 |-> r]
    <3>1. f = [i \in 0 .. 0 |-> IF i = 0 THEN r ELSE IF text[i] = 0 THEN f[i - 1] ELSE TakeEvent(f[i - 1], text[i])]
      OBVIOUS
    <3>2. TakenTo(r, text, 0, f) BY <3>1 DEF TakenTo
    <3> QED BY <2>1, <2>2, <3>2
  <2>3. CASE m # 0
    <3>1. m - 1 \in Nat /\ m - 1 \notin S BY <2>1, <2>3
    <3>2. PICK f : TakenTo(r, text, m - 1, f) BY <3>1
    <3> DEFINE x == IF text[m] = 0 THEN f[m - 1] ELSE TakeEvent(f[m - 1], text[m])
               g == [i \in 0 .. m |-> IF i = m THEN x ELSE f[i]]
    <3>3. ASSUME NEW i \in 0 .. m
          PROVE  g[i] = IF i = 0 THEN r ELSE IF text[i] = 0 THEN g[i - 1] ELSE TakeEvent(g[i - 1], text[i])
      <4>1. m \in Nat BY <2>1
      <4>2. CASE i = m BY <2>3, <4>1, <4>2
      <4>3. CASE i # m BY <4>1, <4>3, <3>2 DEF TakenTo
      <4> QED BY <4>2, <4>3
    <3>4. g = [i \in 0 .. m |-> g[i]] OBVIOUS
    <3> HIDE DEF g
    <3>5. g = [i \in 0 .. m |-> IF i = 0 THEN r
                                ELSE IF text[i] = 0 THEN g[i - 1] ELSE TakeEvent(g[i - 1], text[i])]
      BY <3>3, <3>4
    <3>6. TakenTo(r, text, m, g) BY <3>5 DEF TakenTo
    <3> QED BY <2>1, <3>6
  <2> QED BY <2>2, <2>3
<1> QED BY <1>1, <1>2

\* Of a text of whole events each is taken once, in order.
LEMMA TakenKeeps ==
  ASSUME NEW r, EventsOK(r), r.pc # "ended", NEW text, NEW q \in Nat, r.read + q <= Len(r.script),
         Letters(text, 3 * r.read), Len(text) = 3 * q
  PROVE  /\ EventsOK(Taken(r, text)) /\ Taken(r, text).read = r.read + q
         /\ \A f \in Kept : Taken(r, text)[f] = r[f]
<1> DEFINE n == Len(text)
           After(f) == f = [i \in 0 .. n |-> IF i = 0 THEN r
                                             ELSE IF text[i] = 0 THEN f[i - 1] ELSE TakeEvent(f[i - 1], text[i])]
           after == CHOOSE f : After(f)
<1>1. Taken(r, text) = after[n] BY DEF Taken
<1>2. n = 3 * q /\ n \in Nat /\ r.read \in Nat /\ Len(r.script) \in Nat BY DEF EventsOK, ScriptOK, IsList
<1>3. After(after)
  <2>1. \E f : After(f)
    <3>1. PICK f : TakenTo(r, text, n, f) BY <1>2, TakenExists
    <3>2. After(f) BY <3>1 DEF TakenTo
    <3> QED BY <3>2
  <2> HIDE DEF After
  <2> QED BY <2>1
<1> HIDE DEF after
<1>4. \A i \in 0 .. n : after[i] = IF i = 0 THEN r
                                   ELSE IF text[i] = 0 THEN after[i - 1] ELSE TakeEvent(after[i - 1], text[i])
  BY <1>3
<1> HIDE DEF After
<1> DEFINE Good(i) == /\ EventsOK(after[i]) /\ after[i].read = r.read + (i + 2) \div 3
                      /\ \A f \in Kept : after[i][f] = r[f]
           Bad == {i \in Nat : i <= n /\ ~Good(i)}
<1>5. Good(0) BY <1>2, <1>4
<1>6. ASSUME NEW i \in Nat, i + 1 <= n, Good(i) PROVE Good(i + 1)
  <2>0. i + 1 <= n BY <1>6
  <2>1. i + 1 \in 0 .. n /\ i + 1 # 0 /\ (i + 1) - 1 = i /\ i + 1 \in 1 .. n BY <1>2, <2>0
  <2>2. after[i + 1] = IF text[i + 1] = 0 THEN after[i] ELSE TakeEvent(after[i], text[i + 1]) BY <1>4, <2>1
  <2>3. text[i + 1] = LetterAt(3 * r.read + (i + 1)) BY <2>1 DEF Letters
  <2>4. 3 * r.read + (i + 1) \in Nat BY <1>2
  <2>5. CASE i % 3 = 0
    <3>1. PICK k \in Nat : k = i \div 3 /\ i = 3 * k BY <2>5
    <3>2. (i + 2) \div 3 = k /\ (i + 1 + 2) \div 3 = k + 1 BY <3>1
    <3>3. after[i].read = r.read + k BY <1>6, <3>2
    <3>4. text[i + 1] = r.read + k + 1
      <4>1. r.read + k \in Nat /\ 3 * r.read + (i + 1) = 3 * (r.read + k) + 1 BY <1>2, <3>1
      <4>2. LetterAt(3 * r.read + (i + 1)) = (r.read + k) + 1 BY <2>4, <4>1, LetterFacts
      <4> QED BY <2>3, <4>2
    <3>5. text[i + 1] # 0 /\ text[i + 1] = after[i].read + 1 BY <1>2, <3>3, <3>4
    <3>6. after[i + 1] = TakeEvent(after[i], after[i].read + 1) BY <2>2, <3>5
    <3>7. after[i].script = r.script /\ after[i].pc = r.pc BY <1>6 DEF Kept
    <3>8. k + 1 <= q BY <1>2, <1>6, <3>1
    <3>9. after[i].read + 1 \in 1 .. Len(after[i].script) BY SMTT(30), <1>2, <3>1, <3>3, <3>7, <3>8
    <3>10. /\ EventsOK(TakeEvent(after[i], after[i].read + 1))
           /\ TakeEvent(after[i], after[i].read + 1).read = after[i].read + 1
           /\ \A f \in Kept : TakeEvent(after[i], after[i].read + 1)[f] = after[i][f]
      BY <1>6, <3>7, <3>9, TakeEventKeeps
    <3>11. after[i + 1].read = r.read + (i + 1 + 2) \div 3
      <4>1. after[i + 1].read = (r.read + k) + 1 BY <3>3, <3>6, <3>10
      <4>2. (r.read + k) + 1 = r.read + (k + 1) BY SMTT(30), <1>2
      <4> QED BY <3>2, <4>1, <4>2
    <3> QED BY <1>6, <3>6, <3>10, <3>11
  <2>6. CASE i % 3 # 0
    <3>1. (3 * r.read + (i + 1)) % 3 # 1 BY <1>2, <2>6
    <3>2. text[i + 1] = 0 BY <2>3, <2>4, <3>1, LetterFacts
    <3>3. (i + 1 + 2) \div 3 = (i + 2) \div 3 BY <2>6
    <3> QED BY <1>6, <2>2, <3>2, <3>3
  <2> QED BY <2>5, <2>6
<1>7. CASE Bad = {}
  <2>1. Good(n) BY SMTT(30), <1>2, <1>7
  <2>2. (n + 2) \div 3 = q BY <1>2
  <2> QED BY <1>1, <2>1, <2>2
<1>8. CASE Bad # {}
  <2>1. PICK i \in Bad : \A j \in Bad : i <= j BY <1>8, LeastOf
  <2> HIDE DEF Good
  <2>2. i \in Nat /\ i <= n /\ ~Good(i) BY <2>1
  <2>3. i # 0 BY <1>5, <2>2
  <2>4. i - 1 \in Nat /\ i - 1 \notin Bad /\ i - 1 <= n /\ (i - 1) + 1 = i BY <1>2, <2>1, <2>2, <2>3
  <2>5. Good(i - 1) BY <2>4
  <2>6. Good((i - 1) + 1) BY <1>6, <2>2, <2>4, <2>5
  <2> QED BY <2>2, <2>4, <2>6
<1> QED BY <1>7, <1>8

-----------------------------------------------------------------------------
(*                        The calls and their answers                      *)

ReplyPlaces == {"none", "open", "broken", "dropped", "ended"}
RepliesOK ==
  /\ reply = [c \in Charges |-> reply[c]]
  /\ \A c \in Charges : /\ EventsOK(reply[c]) /\ Placed(reply[c]) /\ reply[c].pc \in ReplyPlaces
                        /\ reply[c].pc \in {"open", "broken"} => charge[c].pc = "resolved"
                        /\ reply[c].pc = "none" => ~reply[c].converted

\* A call whose account failed was logged for nothing, or has a rule or a redirection to thank.
FailuresKnown ==
  \A c \in Charges :
    charge[c].failed => \/ c \in turned \/ reply[c].code < 400
                        \/ charge[c].pc = "logged" /\ charge[c].billed = 0 /\ charge[c].stats = 0
ChargeInv == PriceInv /\ RepliesOK /\ FailuresKnown

LEMMA EmptyScript == ScriptOK(<<>>)
BY EmptyDomain DEF ScriptOK, IsList

\* A stream begins with nothing taken, and so does a call without one.
Fresh(r) ==
  /\ DOMAIN r = DOMAIN NoReply /\ ScriptOK(r.script) /\ r.converted \in BOOLEAN /\ r.pc # "ended"
  /\ r.read = 0 /\ r.usage = NoUsage /\ r.role = FALSE /\ r.done = FALSE /\ r.sent = <<>> /\ r.buffer = <<>>
LEMMA NothingTaken ==
  ASSUME NEW r, Fresh(r)
  PROVE  EventsOK(r)
<1>0. /\ DOMAIN r = DOMAIN NoReply /\ ScriptOK(r.script) /\ r.converted \in BOOLEAN /\ r.pc # "ended"
      /\ r.read = 0 /\ r.usage = NoUsage /\ r.role = FALSE /\ r.done = FALSE /\ r.sent = <<>>
  BY DEF Fresh
<1>1. Len(r.script) \in Nat /\ r.read \in 0 .. Len(r.script) BY <1>0 DEF ScriptOK, IsList
<1>2. IsUsage(r.usage) BY <1>0 DEF IsUsage, NoUsage, IsOption
<1>3. ASSUME NEW f \in DOMAIN NoUsage PROVE r.usage[f] = LastReport(r.script, r.read, f) BY <1>0 DEF NoUsage, LastReport
<1>4. ContentIn(r.script, 0) = {} BY ContentNext
<1>5. ~CompletedBy(r.script, 0) BY DEF CompletedBy
<1>6. (r.read > 0) = FALSE BY <1>0
<1>7. Told(r.sent, ContentIn(r.script, r.read), r.read > 0, r.done) BY <1>0, <1>4, <1>6, NothingTold
<1>8. (r.role <=> r.read > 0) /\ r.role \in BOOLEAN /\ r.done \in BOOLEAN
      /\ (r.done <=> CompletedBy(r.script, r.read))
  BY <1>0, <1>5, <1>6
<1> QED BY <1>0, <1>1, <1>2, <1>3, <1>7, <1>8 DEF EventsOK

LEMMA WirePlaced ==
  ASSUME NEW script, ScriptOK(script)
  PROVE  Letters(Wire(script), 0) /\ Len(Wire(script)) = 3 * Len(script)
<1> DEFINE k == 3 * Len(script)
<1>1. Len(script) \in Nat /\ k \in Nat BY DEF ScriptOK, IsList
<1>2. Wire(script) = [n \in 1 .. k |-> LetterAt(n)] BY DEF Wire, LetterAt
<1>3. \A n \in 1 .. k : LetterAt(n) \in Nat BY <1>1, LetterFacts
<1> HIDE DEF k
<1>4. Wire(script) \in [1 .. k -> Nat] BY <1>2, <1>3
<1>5. Wire(script) \in Seq(Nat) BY <1>1, <1>4, SeqDef
<1>6. Len(Wire(script)) \in Nat /\ DOMAIN Wire(script) = 1 .. Len(Wire(script)) BY <1>5, LenProperties
<1>7. 1 .. Len(Wire(script)) = 1 .. k BY SMTT(30), <1>4, <1>6
<1>8. Len(Wire(script)) = k
  <2>1. \A m, n \in Nat : 1 .. m = 1 .. n => m = n
    <3> SUFFICES ASSUME NEW m \in Nat, NEW n \in Nat, 1 .. m = 1 .. n PROVE m = n OBVIOUS
    <3>1. (m > 0 => m \in 1 .. n) /\ (n > 0 => n \in 1 .. m) OBVIOUS
    <3> QED BY <3>1
  <2> QED BY <1>1, <1>6, <1>7, <2>1
<1>9. \A i \in 1 .. Len(Wire(script)) : Wire(script)[i] = LetterAt(0 + i) BY <1>1, <1>2, <1>8
<1> QED BY <1>5, <1>8, <1>9 DEF Letters, k

LEMMA FreshPlaced ==
  ASSUME NEW r, Fresh(r), r.left = Wire(r.script)
  PROVE  Placed(r)
<1>1. Letters(r.left, 0) /\ Len(r.left) = 3 * Len(r.script) BY WirePlaced DEF Fresh
<1>2. Len(r.script) \in Nat BY DEF Fresh, ScriptOK, IsList
<1>3. <<>> \in Seq(Nat) /\ Len(<<>>) = 0 OBVIOUS
<1>4. Letters(r.buffer, 3 * r.read) /\ Len(r.buffer) = 0 BY <1>3 DEF Fresh, Letters
<1>5. r.read = 0 BY DEF Fresh
<1>6. 0 \in 0 .. 3 * Len(r.script) /\ 3 * Len(r.script) - 0 = 3 * Len(r.script) /\ 0 - 3 * r.read = 0 /\ 0 \in 0 .. 2
  BY <1>2, <1>5
<1> QED BY <1>1, <1>4, <1>6 DEF Placed

LEMMA NoReplyOK == EventsOK(NoReply) /\ Placed(NoReply) /\ NoReply.pc = "none" /\ NoReply.code = 0
<1>1. /\ NoReply.script = <<>> /\ NoReply.converted = FALSE /\ NoReply.pc = "none" /\ NoReply.read = 0
      /\ NoReply.usage = NoUsage /\ NoReply.role = FALSE /\ NoReply.done = FALSE /\ NoReply.sent = <<>>
      /\ NoReply.buffer = <<>> /\ NoReply.left = <<>> /\ NoReply.code = 0
  BY DEF NoReply
<1>2. Fresh(NoReply) BY <1>1, EmptyScript DEF Fresh
<1>3. Wire(<<>>) = <<>> BY WirePlaced, EmptyScript, EmptySeq DEF Letters
<1>4. NoReply.left = Wire(NoReply.script) BY <1>1, <1>3
<1> QED BY <1>1, <1>2, <1>4, NothingTaken, FreshPlaced

\* A step of a call changes its own reply.
Replied(c, places) ==
  \E y : reply' = [reply EXCEPT ![c] = y] /\ EventsOK(y) /\ Placed(y) /\ y.pc \in places

LEMMA StreamOpensReplies ==
  ASSUME RepliesOK, NEW c \in Charges, NEW payer, NEW script \in Scripts, NEW converted \in BOOLEAN,
         StreamOpens(c, payer, script, converted)
  PROVE  Replied(c, {"open"}) /\ reply'[c].code = 0
<1> DEFINE w == Wire(script)
           y == [NoReply EXCEPT !.pc = "open", !.account = payer, !.script = script, !.left = w,
                                !.converted = converted]
<1>1. reply' = [reply EXCEPT ![c] = y] BY DEF StreamOpens
<1> HIDE DEF w
<1>2. /\ DOMAIN y = DOMAIN NoReply /\ y.pc = "open" /\ y.script = script /\ y.left = w /\ y.converted = converted
      /\ y.read = 0 /\ y.usage = NoUsage /\ y.role = FALSE /\ y.done = FALSE /\ y.sent = <<>> /\ y.buffer = <<>>
      /\ y.code = 0
  BY DEF NoReply
<1> HIDE DEF y
<1>3. ScriptOK(script) BY AnswersAssumption DEF ScriptOK
<1>4. Fresh(y) BY <1>2, <1>3 DEF Fresh
<1>5. EventsOK(y) /\ Placed(y) BY <1>2, <1>4, NothingTaken, FreshPlaced DEF w
<1>6. reply'[c] = y BY <1>1 DEF RepliesOK
<1> QED BY <1>1, <1>2, <1>5, <1>6 DEF Replied

\* The numbers of a piece: what was left and buffered, and how many whole events the piece ends.
PieceFits(l, k, a, left, kept, size) ==
  a <= 3 * l /\ left = 3 * l - a /\ 3 * k + kept = a /\ kept <= 2 /\ 1 <= size /\ size <= left
PieceEnds(l, k, a, left, kept, size, q) ==
  /\ 3 * q <= kept + size /\ kept + size <= 3 * q + 2 /\ left - size = 3 * l - (a + size)
  /\ kept + size - 3 * q = (a + size) - 3 * (k + q) /\ (a + size) - 3 * (k + q) \in 0 .. 2
  /\ a + size \in 0 .. 3 * l /\ k + q <= l
LEMMA PieceNumbers ==
  ASSUME NEW l \in Nat, NEW k \in Nat, NEW a \in Nat, NEW left \in Nat, NEW kept \in Nat, NEW size \in Nat,
         PieceFits(l, k, a, left, kept, size)
  PROVE  \E q \in Nat : PieceEnds(l, k, a, left, kept, size, q)
<1>1. a <= 3 * l /\ left = 3 * l - a /\ 3 * k + kept = a /\ kept <= 2 /\ 1 <= size /\ size <= left BY DEF PieceFits
<1>2. PICK m \in Nat : m = kept + size OBVIOUS
<1>3. PICK q \in Nat : 3 * q <= m /\ m <= 3 * q + 2
  <2>1. m \div 3 \in Nat /\ 3 * (m \div 3) <= m /\ m <= 3 * (m \div 3) + 2 OBVIOUS
  <2> QED BY <2>1
<1>4. m - 3 * q \in 0 .. 2 /\ m - 3 * q = (a + size) - 3 * (k + q) BY <1>1, <1>2, <1>3
<1>5. left - size = 3 * l - (a + size) /\ a + size \in 0 .. 3 * l BY <1>1
<1>6. k + q <= l BY <1>1, <1>2, <1>3, <1>4, <1>5
<1>7. PieceEnds(l, k, a, left, kept, size, q) BY <1>2, <1>3, <1>4, <1>5, <1>6 DEF PieceEnds
<1> QED BY <1>7

\* The letters of a piece: the text of its whole events, what is kept of it and what is left.
PieceSpells(left, kept, a, k, size, m, q) ==
  /\ Letters(left, a) /\ Letters(kept, 3 * k) /\ Len(kept) \in Nat /\ Len(left) \in Nat
  /\ 3 * k + Len(kept) = a /\ size <= Len(left) /\ m = Len(kept) + size /\ 3 * q <= m /\ m <= 3 * q + 2
PieceSpelt(bytes, left, kept, a, k, size, m, q) ==
  /\ Letters(SubSeq(left, size + 1, Len(left)), a + size)
  /\ Len(SubSeq(left, size + 1, Len(left))) = Len(left) - size
  /\ Letters(Push(kept, bytes).text, 3 * k) /\ Len(Push(kept, bytes).text) = 3 * q
  /\ Letters(Push(kept, bytes).rest, 3 * (k + q)) /\ Len(Push(kept, bytes).rest) = m - 3 * q
LEMMA PieceLetters ==
  ASSUME NEW left, NEW kept, NEW a \in Nat, NEW k \in Nat, NEW size \in Nat, NEW m \in Nat, NEW q \in Nat,
         PieceSpells(left, kept, a, k, size, m, q), NEW bytes, bytes = SubSeq(left, 1, size)
  PROVE  PieceSpelt(bytes, left, kept, a, k, size, m, q)
<1>0. /\ Letters(left, a) /\ Letters(kept, 3 * k) /\ Len(kept) \in Nat /\ Len(left) \in Nat
      /\ 3 * k + Len(kept) = a /\ size <= Len(left) /\ m = Len(kept) + size /\ 3 * q <= m /\ m <= 3 * q + 2
  BY DEF PieceSpells
<1>1. Letters(bytes, a) /\ Len(bytes) = size BY <1>0, PartOfLetters
<1>2. /\ Letters(SubSeq(left, size + 1, Len(left)), a + size)
      /\ Len(SubSeq(left, size + 1, Len(left))) = Len(left) - size
  BY SMTT(30), <1>0, PartOfLetters
<1>3. m = Len(kept) + Len(bytes) /\ Letters(bytes, 3 * k + Len(kept)) BY <1>0, <1>1
<1>4. PushFits(k, kept, bytes, m, q) BY <1>0, <1>3 DEF PushFits
<1>5. /\ Letters(Push(kept, bytes).text, 3 * k) /\ Len(Push(kept, bytes).text) = 3 * q
      /\ Letters(Push(kept, bytes).rest, 3 * (k + q)) /\ Len(Push(kept, bytes).rest) = m - 3 * q
  BY <1>4, PushCuts
<1> QED BY <1>2, <1>5 DEF PieceSpelt

\* A stream without what was read of it: the buffer and the rest are new.
Refilled(r, y, buffer, left) ==
  /\ DOMAIN y = DOMAIN NoReply /\ y.buffer = buffer /\ y.left = left
  /\ y.pc = r.pc /\ y.script = r.script /\ y.read = r.read /\ y.usage = r.usage /\ y.converted = r.converted
  /\ y.role = r.role /\ y.done = r.done /\ y.sent = r.sent /\ y.code = r.code

\* A piece of a stream: its whole events are taken, the rest is kept.
PieceOf(r, left, kept, size, bytes, rest, text, over) ==
  /\ EventsOK(r) /\ Placed(r) /\ r.pc = "open" /\ left = r.left /\ kept = r.buffer /\ size \in 1 .. Len(left)
  /\ bytes = SubSeq(left, 1, size) /\ rest = SubSeq(left, size + 1, Len(left))
  /\ text = Push(kept, bytes).text /\ over = Push(kept, bytes).rest
LEMMA ChunkTaken ==
  ASSUME NEW r, NEW left, NEW kept, NEW size, NEW bytes, NEW rest, NEW text, NEW over,
         PieceOf(r, left, kept, size, bytes, rest, text, over),
         NEW y0, Refilled(r, y0, over, rest), NEW y, y = Taken(y0, text)
  PROVE  EventsOK(y) /\ Placed(y) /\ y.pc = "open" /\ y.code = r.code
<1>0. /\ EventsOK(r) /\ Placed(r) /\ r.pc = "open" /\ left = r.left /\ kept = r.buffer /\ size \in 1 .. Len(left)
      /\ bytes = SubSeq(left, 1, size) /\ rest = SubSeq(left, size + 1, Len(left))
      /\ text = Push(kept, bytes).text /\ over = Push(kept, bytes).rest
  BY DEF PieceOf
<1> USE <1>0
<1>1. PICK k \in Nat, l \in Nat : k = r.read /\ l = Len(r.script) BY DEF EventsOK, ScriptOK, IsList
<1>2. PICK a \in 0 .. 3 * l :
        /\ Letters(left, a) /\ Len(left) = 3 * l - a
        /\ Letters(kept, 3 * k) /\ Len(kept) = a - 3 * k /\ a - 3 * k \in 0 .. 2
  BY <1>1 DEF Placed
<1>3. PICK nl \in Nat, nk \in Nat : nl = Len(left) /\ nk = Len(kept)
  <2>1. 3 * l - a \in Nat /\ a - 3 * k \in Nat BY ONLY <1>2, l \in Nat, k \in Nat, a \in 0 .. 3 * l
  <2>2. Len(left) \in Nat /\ Len(kept) \in Nat BY ONLY <1>2, <2>1
  <2> QED BY ONLY <2>2
<1>4. /\ a \in Nat /\ size \in Nat /\ 3 * k + nk = a /\ a <= 3 * l /\ nl = 3 * l - a /\ nk <= 2
      /\ 1 <= size /\ size <= nl
  BY <1>2, <1>3
<1>5. PICK q \in Nat : PieceEnds(l, k, a, nl, nk, size, q) BY <1>4, PieceNumbers DEF PieceFits
<1>6. PICK m \in Nat : m = nk + size BY <1>4
<1>7. /\ 3 * q <= m /\ m <= 3 * q + 2 /\ nl - size = 3 * l - (a + size) /\ m - 3 * q = (a + size) - 3 * (k + q)
      /\ (a + size) - 3 * (k + q) \in 0 .. 2 /\ a + size \in 0 .. 3 * l /\ k + q <= l
  BY <1>5, <1>6 DEF PieceEnds
<1>8. /\ Letters(rest, a + size) /\ Len(rest) = nl - size
      /\ Letters(text, 3 * k) /\ Len(text) = 3 * q
      /\ Letters(over, 3 * (k + q)) /\ Len(over) = m - 3 * q
  <2>1. PieceSpells(left, kept, a, k, size, m, q) BY <1>2, <1>3, <1>4, <1>6, <1>7 DEF PieceSpells
  <2>2. PieceSpelt(bytes, left, kept, a, k, size, m, q) BY <1>4, <2>1, PieceLetters
  <2> QED BY <1>3, <2>2 DEF PieceSpelt
<1>9. EventsOK(y0) BY DEF EventsOK, Refilled
<1>10. EventsOK(y) /\ y.read = k + q /\ \A f \in Kept : y[f] = y0[f]
  <2>1. y0.pc # "ended" /\ y0.read = k /\ Len(y0.script) = l BY <1>1 DEF Refilled
  <2>2. y0.read + q <= Len(y0.script) /\ Letters(text, 3 * y0.read) BY <1>7, <1>8, <2>1
  <2>3. EventsOK(Taken(y0, text)) /\ Taken(y0, text).read = y0.read + q /\ \A f \in Kept : Taken(y0, text)[f] = y0[f]
    BY ONLY q \in Nat, <1>8, <1>9, <2>1, <2>2, TakenKeeps
  <2> QED BY <2>1, <2>3
<1>11. /\ y.pc = "open" /\ Len(y.script) = l /\ y.left = rest /\ y.buffer = over /\ y.code = r.code
  BY <1>1, <1>10 DEF Kept, Refilled
<1>12. Placed(y)
  <2>1. /\ Letters(y.left, a + size) /\ Len(y.left) = 3 * Len(y.script) - (a + size)
        /\ Letters(y.buffer, 3 * y.read) /\ Len(y.buffer) = (a + size) - 3 * y.read
        /\ (a + size) - 3 * y.read \in 0 .. 2 /\ a + size \in 0 .. 3 * Len(y.script)
    BY <1>7, <1>8, <1>10, <1>11
  <2> QED BY SMTT(30), <2>1 DEF Placed
<1> QED BY <1>10, <1>11, <1>12

LEMMA ChunkArrivesReplies ==
  ASSUME RepliesOK, NEW c \in Charges, NEW size, ChunkArrives(c, size)
  PROVE  Replied(c, {"open"}) /\ reply'[c].code = reply[c].code /\ reply[c].pc = "open"
<1>1. PICK r : r = reply[c] OBVIOUS
<1>2. PICK left : left = r.left OBVIOUS
<1>3. PICK kept : kept = r.buffer OBVIOUS
<1>4. EventsOK(r) /\ Placed(r) /\ r.pc = "open" /\ size \in 1 .. Len(left)
  BY <1>1, <1>2 DEF ChunkArrives, RepliesOK
<1>5. PICK bytes : bytes = SubSeq(left, 1, size) OBVIOUS
<1>6. PICK rest : rest = SubSeq(left, size + 1, Len(left)) OBVIOUS
<1>7. PICK text : text = Push(kept, bytes).text OBVIOUS
<1>8. PICK over : over = Push(kept, bytes).rest OBVIOUS
<1>9. PICK y0 : y0 = [r EXCEPT !.buffer = over, !.left = rest] OBVIOUS
<1>10. PICK y : y = Taken(y0, text) OBVIOUS
<1>11. reply' = [reply EXCEPT ![c] = y]
  <2>1. reply' = [reply EXCEPT ![c] =
           Taken([reply[c] EXCEPT !.buffer = Push(reply[c].buffer, SubSeq(reply[c].left, 1, size)).rest,
                                  !.left = SubSeq(reply[c].left, size + 1, Len(reply[c].left))],
                 Push(reply[c].buffer, SubSeq(reply[c].left, 1, size)).text)]
    BY ZenonT(30) DEF ChunkArrives
  <2>2. y = Taken([reply[c] EXCEPT !.buffer = Push(reply[c].buffer, SubSeq(reply[c].left, 1, size)).rest,
                                   !.left = SubSeq(reply[c].left, size + 1, Len(reply[c].left))],
                  Push(reply[c].buffer, SubSeq(reply[c].left, 1, size)).text)
    BY ONLY ZenonT(30), <1>1, <1>2, <1>3, <1>5, <1>6, <1>7, <1>8, <1>9, <1>10
  <2> QED BY ONLY ZenonT(30), <2>1, <2>2
<1>12. Refilled(r, y0, over, rest) BY <1>4, <1>9 DEF EventsOK, NoReply, Refilled
<1>13. EventsOK(y) /\ Placed(y) /\ y.pc = "open" /\ y.code = r.code
  <2>1. PieceOf(r, left, kept, size, bytes, rest, text, over)
    BY ONLY <1>2, <1>3, <1>4, <1>5, <1>6, <1>7, <1>8 DEF PieceOf
  <2> QED BY ONLY <1>10, <1>12, <2>1, ChunkTaken
<1>14. reply'[c] = y BY <1>11 DEF RepliesOK
<1> QED BY <1>1, <1>4, <1>11, <1>13, <1>14 DEF Replied

\* A stream whose loop is over.
Ended(r, y, sent) ==
  /\ DOMAIN y = DOMAIN NoReply /\ y.pc = "ended" /\ y.done = r.converted /\ y.sent = sent
  /\ y.script = r.script /\ y.left = r.left /\ y.buffer = r.buffer /\ y.read = r.read /\ y.usage = r.usage
  /\ y.converted = r.converted /\ y.role = r.role /\ y.code = r.code
LEMMA EndKeeps ==
  ASSUME NEW r, EventsOK(r), Placed(r), r.pc # "ended", NEW sent,
         sent = (IF r.converted /\ ~r.done THEN r.sent \o << <<"stop">>, <<"[DONE]">> >> ELSE r.sent),
         NEW y, Ended(r, y, sent)
  PROVE  EventsOK(y) /\ Placed(y) /\ y.pc = "ended" /\ y.code = r.code
<1>1. /\ DOMAIN y = DOMAIN NoReply /\ y.pc = "ended" /\ y.done = r.converted /\ y.sent = sent
      /\ y.script = r.script /\ y.left = r.left /\ y.buffer = r.buffer /\ y.read = r.read /\ y.usage = r.usage
      /\ y.converted = r.converted /\ y.role = r.role /\ y.code = r.code
  BY DEF Ended
<1>2. Placed(y) BY <1>1 DEF Placed
<1>3. ASSUME r.converted PROVE Told(sent, ContentIn(r.script, r.read), r.read > 0, TRUE)
  <2>1. Told(r.sent, ContentIn(r.script, r.read), r.read > 0, r.done) /\ r.done \in BOOLEAN BY <1>3 DEF EventsOK
  <2>2. CASE r.done BY <2>1, <2>2
  <2>3. CASE ~r.done BY <1>3, <2>1, <2>3, EndTold
  <2> QED BY <2>2, <2>3
<1>4. y.converted => Told(y.sent, ContentIn(y.script, y.read), y.read > 0, y.done) BY <1>1, <1>3 DEF EventsOK
<1>5. y.done \in BOOLEAN /\ (y.converted => y.done /\ (y.role <=> y.read > 0)) BY <1>1 DEF EventsOK
<1>6. /\ ScriptOK(y.script) /\ y.read \in 0 .. Len(y.script) /\ IsUsage(y.usage)
      /\ y.converted \in BOOLEAN /\ y.role \in BOOLEAN
  BY <1>1 DEF EventsOK
<1>7. \A f \in DOMAIN NoUsage : y.usage[f] = LastReport(y.script, y.read, f) BY <1>1 DEF EventsOK
<1>8. EventsOK(y) BY <1>1, <1>4, <1>5, <1>6, <1>7 DEF EventsOK
<1> QED BY <1>1, <1>2, <1>8

LEMMA AfterLoopReplies ==
  ASSUME PriceInv, RepliesOK, NEW c \in Charges, AfterLoop(c), reply[c].pc \in {"open", "broken"}
  PROVE  Replied(c, {"ended"}) /\ LogsAs(c, FALSE, TRUE) /\ reply'[c].code = reply[c].code
<1>1. PICK r : r = reply[c] OBVIOUS
<1>2. EventsOK(r) /\ Placed(r) /\ r.pc # "ended" /\ charge[c].pc = "resolved" /\ IsUsage(r.usage)
  BY <1>1 DEF RepliesOK, EventsOK
<1>3. PICK sent : sent = IF r.converted /\ ~r.done THEN r.sent \o << <<"stop">>, <<"[DONE]">> >> ELSE r.sent OBVIOUS
<1>4. PICK y : y = [r EXCEPT !.pc = "ended", !.done = r.converted, !.sent = sent] OBVIOUS
<1>5. reply' = [reply EXCEPT ![c] = y]
  <2>1. reply' = [reply EXCEPT ![c] =
           [reply[c] EXCEPT !.pc = "ended", !.done = reply[c].converted,
                            !.sent = IF reply[c].converted /\ ~reply[c].done
                                     THEN reply[c].sent \o << <<"stop">>, <<"[DONE]">> >> ELSE reply[c].sent]]
    BY ZenonT(30) DEF AfterLoop
  <2>2. y = [reply[c] EXCEPT !.pc = "ended", !.done = reply[c].converted,
                             !.sent = IF reply[c].converted /\ ~reply[c].done
                                      THEN reply[c].sent \o << <<"stop">>, <<"[DONE]">> >> ELSE reply[c].sent]
    BY ONLY <1>1, <1>3, <1>4
  <2> QED BY ONLY ZenonT(30), <2>1, <2>2
<1>6. EventsOK(y) /\ Placed(y) /\ y.pc = "ended" /\ y.code = r.code
  <2>1. DOMAIN r = DOMAIN NoReply BY <1>2 DEF EventsOK
  <2>2. Ended(r, y, sent) BY ONLY <2>1, <1>4 DEF NoReply, Ended
  <2> QED BY <1>2, <1>3, <2>2, EndKeeps
<1>7. reply'[c] = y BY <1>5 DEF RepliesOK
<1>8. Logs(c, r.account, FALSE, TRUE, r.usage, r.observed) BY <1>1 DEF AfterLoop
<1>9. LogsAs(c, FALSE, TRUE) BY <1>2, <1>8, LogsCharges
<1> QED BY <1>1, <1>5, <1>6, <1>7, <1>9 DEF Replied

\* A reply that only moves to another place is as good as it was, when it does not end.
LEMMA PlaceMoves ==
  ASSUME RepliesOK, NEW c \in Charges, NEW place \in {"broken", "dropped"}, reply[c].pc \in {"open", "broken"},
         reply' = [reply EXCEPT ![c].pc = place]
  PROVE  Replied(c, {place}) /\ reply'[c].code = reply[c].code
<1>1. PICK r : r = reply[c] OBVIOUS
<1>2. EventsOK(r) /\ Placed(r) /\ r.pc # "ended" BY <1>1 DEF RepliesOK
<1>3. PICK y : y = [r EXCEPT !.pc = place] OBVIOUS
<1>4. reply' = [reply EXCEPT ![c] = y] BY <1>1, <1>3 DEF RepliesOK
<1>5. /\ DOMAIN y = DOMAIN NoReply /\ y.pc = place /\ y.done = r.done /\ y.sent = r.sent
      /\ y.script = r.script /\ y.left = r.left /\ y.buffer = r.buffer /\ y.read = r.read /\ y.usage = r.usage
      /\ y.converted = r.converted /\ y.role = r.role /\ y.code = r.code
  BY <1>2, <1>3 DEF EventsOK, NoReply
<1>6. EventsOK(y) /\ Placed(y) BY <1>2, <1>5 DEF EventsOK, Placed
<1>7. reply'[c] = y BY <1>4 DEF RepliesOK
<1> QED BY <1>1, <1>4, <1>5, <1>6, <1>7 DEF Replied

\* A whole body ends the call's reply; its stream, if it were one, has no chunks to convert.
LEMMA BodyReplies ==
  ASSUME RepliesOK, NEW c \in Charges, NEW status, reply[c].pc = "none",
         reply' = [reply EXCEPT ![c].pc = "ended", ![c].code = status]
  PROVE  Replied(c, {"ended"}) /\ reply'[c].code = status
<1>1. PICK r : r = reply[c] OBVIOUS
<1>2. EventsOK(r) /\ Placed(r) /\ ~r.converted BY <1>1 DEF RepliesOK
<1>3. PICK y : y = [r EXCEPT !.pc = "ended", !.code = status] OBVIOUS
<1>4. reply' = [reply EXCEPT ![c] = y] BY <1>1, <1>3 DEF RepliesOK
<1>5. /\ DOMAIN y = DOMAIN NoReply /\ y.pc = "ended" /\ y.done = r.done /\ y.sent = r.sent
      /\ y.script = r.script /\ y.left = r.left /\ y.buffer = r.buffer /\ y.read = r.read /\ y.usage = r.usage
      /\ y.converted = r.converted /\ y.role = r.role /\ y.code = status
  BY <1>2, <1>3 DEF EventsOK, NoReply
<1>6. EventsOK(y) /\ Placed(y) BY <1>2, <1>5 DEF EventsOK, Placed
<1>7. reply'[c] = y BY <1>4 DEF RepliesOK
<1> QED BY <1>4, <1>5, <1>6, <1>7 DEF Replied

-----------------------------------------------------------------------------
(*                         The invariant of charges                        *)

\* A step that changes one call's reply and no other call's charge.
LEMMA OneReplyMoves ==
  ASSUME RepliesOK, NEW c \in Charges, NEW places \in SUBSET (ReplyPlaces \ {"none"}), Replied(c, places),
         \A d \in Charges \ {c} : charge'[d] = charge[d],
         places \cap {"open", "broken"} # {} => charge'[c].pc = "resolved"
  PROVE  RepliesOK'
<1>1. PICK y : reply' = [reply EXCEPT ![c] = y] /\ EventsOK(y) /\ Placed(y) /\ y.pc \in places BY DEF Replied
<1>2. reply' = [d \in Charges |-> IF d = c THEN y ELSE reply[d]] BY <1>1 DEF RepliesOK
<1>3. ASSUME NEW d \in Charges
      PROVE  /\ EventsOK(reply'[d]) /\ Placed(reply'[d]) /\ reply'[d].pc \in ReplyPlaces
             /\ reply'[d].pc \in {"open", "broken"} => charge'[d].pc = "resolved"
             /\ reply'[d].pc = "none" => ~reply'[d].converted
  <2>1. CASE d = c BY <1>1, <1>2, <2>1
  <2>2. CASE d # c BY <1>2, <2>2 DEF RepliesOK
  <2> QED BY <2>1, <2>2
<1>4. reply' = [d \in Charges |-> reply'[d]] BY <1>2
<1> QED BY <1>3, <1>4 DEF RepliesOK

\* A step that leaves the replies, and changes the charge of a call that is past its reply.
LEMMA ChargedKeeps ==
  ASSUME ChargeInv, NEW c \in Charges, Charged(c), UnchangedPrices, UNCHANGED <<reply, ruleRow, turned>>
  PROVE  ChargeInv'
<1>1. PICK x : /\ charge' = [charge EXCEPT ![c] = x] /\ ChargeOK(channelRow, x)
               /\ charge[c].pc # "resolved" /\ (x.failed => charge[c].failed /\ charge[c].pc # "logged")
  BY DEF Charged
<1>2. PriceInv' BY <1>1, OneChargeMoves DEF ChargeInv
<1>3. charge' = [d \in Charges |-> IF d = c THEN x ELSE charge[d]] BY <1>1 DEF ChargeInv, PriceInv, ChargesShape
<1>4. RepliesOK' BY <1>1, <1>3 DEF ChargeInv, RepliesOK
<1>5. FailuresKnown'
  <2>1. ASSUME NEW d \in Charges, charge'[d].failed
        PROVE  \/ d \in turned \/ reply[d].code < 400
               \/ charge'[d].pc = "logged" /\ charge'[d].billed = 0 /\ charge'[d].stats = 0
    BY <1>1, <1>3, <2>1 DEF ChargeInv, FailuresKnown
  <2> QED BY <2>1 DEF FailuresKnown
<1> QED BY <1>2, <1>4, <1>5 DEF ChargeInv

\* A step of a stream whose call is not logged yet.
LEMMA StreamKeeps ==
  ASSUME ChargeInv, NEW c \in Charges, NEW places \in SUBSET (ReplyPlaces \ {"none"}), Replied(c, places),
         charge[c].pc = "resolved", UNCHANGED charge, turned \subseteq turned', UnchangedPrices
  PROVE  ChargeInv'
<1>1. RepliesOK' BY OneReplyMoves DEF ChargeInv
<1>2. PriceInv' BY SamePrices DEF ChargeInv, PriceInv, ChargesShape
<1>3. FailuresKnown'
  <2>1. ~charge[c].failed BY DEF ChargeInv, PriceInv, ChargeOK
  <2>2. \A d \in Charges \ {c} : reply'[d] = reply[d] BY DEF Replied, ChargeInv, RepliesOK
  <2> QED BY <2>1, <2>2 DEF ChargeInv, FailuresKnown
<1> QED BY <1>1, <1>2, <1>3 DEF ChargeInv

\* A step that logs a call: what it failed with is known when it is.
LEMMA LoggedKeeps ==
  ASSUME ChargeInv, NEW c \in Charges, NEW places \in SUBSET {"ended"}, Replied(c, places),
         NEW failed \in BOOLEAN, NEW ok \in BOOLEAN, LogsAs(c, failed, ok), UnchangedPrices, turned \subseteq turned',
         failed /\ ok => c \in turned' \/ reply'[c].code < 400
  PROVE  ChargeInv'
<1>1. PICK x : /\ charge' = [charge EXCEPT ![c] = x] /\ ChargeOK(channelRow, x)
               /\ x.failed = failed /\ (~ok => x.pc = "logged" /\ x.billed = 0 /\ x.stats = 0)
  BY DEF LogsAs
<1>2. PriceInv' BY <1>1, OneChargeMoves DEF ChargeInv
<1>3. charge' = [d \in Charges |-> IF d = c THEN x ELSE charge[d]] BY <1>1 DEF ChargeInv, PriceInv, ChargesShape
<1>4. RepliesOK' BY <1>3, OneReplyMoves DEF ReplyPlaces, ChargeInv
<1>5. \A d \in Charges \ {c} : reply'[d] = reply[d] BY DEF Replied, ChargeInv, RepliesOK
<1>6. FailuresKnown'
  <2>1. ASSUME NEW d \in Charges, charge'[d].failed
        PROVE  \/ d \in turned' \/ reply'[d].code < 400
               \/ charge'[d].pc = "logged" /\ charge'[d].billed = 0 /\ charge'[d].stats = 0
    <3>1. CASE d = c BY <1>1, <1>3, <2>1, <3>1
    <3>2. CASE d # c BY <1>3, <1>5, <2>1, <3>2 DEF ChargeInv, FailuresKnown
    <3> QED BY <3>1, <3>2
  <2> QED BY <2>1 DEF FailuresKnown
<1> QED BY <1>2, <1>4, <1>6 DEF ChargeInv

\* A whole answer that cannot be translated ends without a row; any other is logged.
LEMMA BodyArrivesKeeps ==
  ASSUME ChargeInv, NEW c \in Charges, NEW payer, NEW body \in Bodies, NEW converted,
         BodyArrives(c, payer, body, converted)
  PROVE  ChargeInv'
<1>1. PICK failed, ok, usage, observed :
        /\ failed \in BOOLEAN /\ ok \in BOOLEAN /\ usage \in {NoUsage, body.usage}
        /\ UNCHANGED charge \/ Logs(c, payer, failed, ok, usage, observed)
        /\ failed /\ ok => c \in turned' \/ body.code < 400
  <2> DEFINE failed == body.code \notin 200 .. 299
             rule == IF failed THEN RuleFor(body) ELSE {}
             status == IF rule = {} THEN body.code ELSE OrElse(ruleRow[CHOOSE r \in rule : TRUE].code, body.code)
             ok == status < 400
             rewritten == \E r \in rule : ~ruleRow[r].body
             refused == converted /\ status \in 200 .. 299 /\ ~rewritten /\ ~body.json
             usage == IF rewritten \/ ~body.json THEN NoUsage ELSE body.usage
             observed == IF rewritten \/ ~body.json THEN {} ELSE body.observed
  <2>1. /\ IF refused THEN UNCHANGED charge ELSE Logs(c, payer, failed, ok, usage, observed)
        /\ turned' = IF failed /\ rule # {} /\ ok THEN turned \cup {c} ELSE turned
    BY DEF BodyArrives
  <2>2. rule = {} => status = body.code OBVIOUS
  <2>3. usage \in {NoUsage, body.usage} OBVIOUS
  <2>4. failed \in BOOLEAN OBVIOUS
  <2>5. failed /\ ok => c \in turned' \/ body.code < 400 BY ZenonT(60), <2>2, <2>1
  <2>6. ok \in BOOLEAN BY DEF ok
  <2> HIDE DEF failed, rule, status, ok, rewritten, refused, usage, observed
  <2>7. UNCHANGED charge \/ Logs(c, payer, failed, ok, usage, observed) BY SMTT(30), <2>1
  <2> QED BY SMTT(30), <2>3, <2>4, <2>5, <2>6, <2>7
<1>2. /\ charge[c].pc = "resolved" /\ reply[c].pc = "none" /\ UnchangedPrices /\ turned \subseteq turned'
      /\ reply' = [reply EXCEPT ![c].pc = "ended", ![c].code = body.code]
  BY DEF BodyArrives, UnchangedPricing
<1>3. Replied(c, {"ended"}) /\ reply'[c].code = body.code BY <1>2, BodyReplies DEF ChargeInv
<1>4. CASE UNCHANGED charge BY <1>2, <1>3, <1>4, StreamKeeps DEF ReplyPlaces
<1>5. CASE Logs(c, payer, failed, ok, usage, observed)
  <2>1. IsUsage(usage)
    <3>1. IsUsage(NoUsage) BY DEF IsUsage, NoUsage, IsOption
    <3>2. IsUsage(body.usage) BY AnswersAssumption
    <3> QED BY <1>1, <3>1, <3>2
  <2>2. LogsAs(c, failed, ok) BY <1>2, <1>5, <2>1, LogsCharges DEF ChargeInv
  <2>3. failed /\ ok => c \in turned' \/ reply'[c].code < 400 BY <1>1, <1>3
  <2> QED BY <1>1, <1>2, <1>3, <2>2, <2>3, LoggedKeeps
<1> QED BY <1>1, <1>4, <1>5

LEMMA ResponseStepKeeps ==
  ASSUME ChargeInv, NEW c \in Charges, ResponseStep(c)
  PROVE  ChargeInv'
<1>1. \A p \in {"open", "broken", "dropped", "ended"} : {p} \in SUBSET (ReplyPlaces \ {"none"}) BY DEF ReplyPlaces
<1>2. reply[c].pc \in {"open", "broken"} => charge[c].pc = "resolved" BY DEF ChargeInv, RepliesOK
<1>3. ASSUME NEW payer, NEW script \in Scripts, NEW converted \in BOOLEAN, StreamOpens(c, payer, script, converted)
      PROVE  ChargeInv'
  BY <1>3, StreamOpensReplies, <1>1, StreamKeeps DEF ChargeInv, StreamOpens
<1>4. ASSUME NEW size, ChunkArrives(c, size) PROVE ChargeInv'
  BY <1>4, ChunkArrivesReplies, <1>1, <1>2, StreamKeeps DEF ChargeInv, ChunkArrives, UnchangedPricing
<1>5. CASE StreamEnds(c) \/ BodyPolled(c)
  BY <1>5, AfterLoopReplies, LoggedKeeps DEF StreamEnds, BodyPolled, ChargeInv, AfterLoop, UnchangedPricing
<1>6. CASE StreamBreaks(c) BY <1>6, PlaceMoves, <1>1, <1>2, StreamKeeps DEF StreamBreaks, UnchangedPricing, ChargeInv
<1>7. CASE BodyDropped(c) BY <1>7, PlaceMoves, <1>1, <1>2, StreamKeeps DEF BodyDropped, UnchangedPricing, ChargeInv
<1> QED BY <1>3, <1>4, <1>5, <1>6, <1>7, BodyArrivesKeeps DEF ResponseStep

LEMMA ChargeInvStarts == ResponsesInit => ChargeInv
<1> SUFFICES ASSUME ResponsesInit PROVE ChargeInv OBVIOUS
<1>1. PriceInv BY PriceInvStarts DEF ResponsesInit
<1>2. \A c \in Charges : reply[c] = NoReply BY DEF ResponsesInit
<1>3. EventsOK(NoReply) /\ Placed(NoReply) /\ NoReply.pc = "none" BY NoReplyOK
<1>4. NoReply.converted = FALSE BY DEF NoReply
<1>5. RepliesOK BY <1>2, <1>3, <1>4 DEF RepliesOK, ReplyPlaces, ResponsesInit
<1>6. FailuresKnown BY DEF ResponsesInit, PricingInit, NoCharge, FailuresKnown
<1> QED BY <1>1, <1>5, <1>6 DEF ChargeInv

\* What a step leaves alone is as good as it was.
LEMMA ChargeInvStays ==
  ASSUME ChargeInv, PriceInv', UNCHANGED <<charge, reply, turned>>
  PROVE  ChargeInv'
BY DEF ChargeInv, RepliesOK, FailuresKnown

LEMMA ChargeInvKeeps == ChargeInv /\ [ResponsesNext]_responseVars => ChargeInv'
<1> SUFFICES ASSUME ChargeInv, [ResponsesNext]_responseVars PROVE ChargeInv' OBVIOUS
<1>0. UnchangedPrices /\ UNCHANGED charge => PriceInv' BY SamePrices DEF ChargeInv, PriceInv, ChargesShape
<1>1. CASE PricingEdits /\ UNCHANGED <<reply, ruleRow, turned>> BY <1>1, PricingEditsKeep, ChargeInvStays DEF ChargeInv
<1>2. ASSUME NEW c \in Charges, ChargeStep(c), UNCHANGED <<reply, ruleRow, turned>> PROVE ChargeInv'
  BY <1>2, ChargeStepCharges, ChargedKeeps DEF ChargeInv
<1>3. ASSUME NEW r \in RuleIds, DropRule(r) \/ \E input \in RuleInputs : SaveRule(r, input) PROVE ChargeInv'
  BY <1>3, <1>0, ChargeInvStays DEF DropRule, SaveRule
<1>4. CASE UNCHANGED responseVars BY <1>4, <1>0, ChargeInvStays DEF responseVars, pricingVars, UnchangedPrices
<1> QED BY <1>1, <1>2, <1>3, <1>4, ResponseStepKeeps DEF ResponsesNext

\* However a stream is cut: each event once, in order, and the last usage that was reported.
LEMMA CutsAreSafe ==
  ASSUME RepliesOK
  PROVE  CutsDoNotMatter
<1> SUFFICES ASSUME NEW c \in Charges
             PROVE  LET r == reply[c] IN
                    /\ r.pc = "ended" /\ r.left = <<>> => r.read = Len(r.script)
                    /\ \A f \in DOMAIN r.usage : r.usage[f] = LastReport(r.script, r.read, f)
                    /\ r.converted =>
                         /\ {r.sent[i] : i \in ContentOf(r.sent)} = ContentIn(r.script, r.read)
                         /\ \A i, j \in ContentOf(r.sent) : i < j => r.sent[i][2] < r.sent[j][2]
                         /\ \A i \in DOMAIN r.sent : /\ r.sent[i] = <<"role">> <=> i = 1 /\ r.read > 0
                                                     /\ r.sent[i] = <<"[DONE]">> => i = Len(r.sent)
                         /\ r.pc = "ended" => r.sent[Len(r.sent)] = <<"[DONE]">>
  BY DEF CutsDoNotMatter
<1>1. PICK r : r = reply[c] OBVIOUS
<1>2. EventsOK(r) /\ Placed(r) BY <1>1 DEF RepliesOK
<1>3. r.left = <<>> => r.read = Len(r.script) BY <1>2 DEF EventsOK, ScriptOK, IsList, Placed
<1>4. \A f \in DOMAIN r.usage : r.usage[f] = LastReport(r.script, r.read, f) BY <1>2 DEF EventsOK, IsUsage
<1>5. ASSUME r.converted
      PROVE  /\ {r.sent[i] : i \in ContentOf(r.sent)} = ContentIn(r.script, r.read)
             /\ \A i, j \in ContentOf(r.sent) : i < j => r.sent[i][2] < r.sent[j][2]
             /\ \A i \in DOMAIN r.sent : /\ r.sent[i] = <<"role">> <=> i = 1 /\ r.read > 0
                                         /\ r.sent[i] = <<"[DONE]">> => i = Len(r.sent)
             /\ r.pc = "ended" => r.sent[Len(r.sent)] = <<"[DONE]">>
  BY <1>2, <1>5 DEF EventsOK, Told, Role, Done
<1> QED BY <1>1, <1>3, <1>4, <1>5

LEMMA ChargeInvSafe == ChargeInv => ChargesSafe
<1> SUFFICES ASSUME ChargeInv PROVE ChargesSafe OBVIOUS
<1>1. ResponsesTypeOK
  <2>1. \A c \in Charges : /\ charge[c].pc \in ChargePlaces /\ \A f \in ChargeAmounts : charge[c][f] \in Nat
                           /\ reply[c].pc \in ReplyPlaces
    BY DEF ChargeInv, PriceInv, ChargeOK, RepliesOK
  <2>2. \A g \in PriceGroups : userRate[g] \subseteq UserRates BY DEF ChargeInv, PriceInv, GroupsRated
  <2> QED BY <2>1, <2>2 DEF ResponsesTypeOK, ChargePlaces, ChargeAmounts, ReplyPlaces
<1>2. PricesUnambiguous /\ WithinItsPrices /\ OneIntervalFits /\ AccountCostKnown BY PricesAreSafe DEF ChargeInv
<1>3. CutsDoNotMatter BY CutsAreSafe DEF ChargeInv
<1>4. FailuresAreFree BY DEF FailuresAreFree, ChargeInv, FailuresKnown
<1> QED BY <1>1, <1>2, <1>3, <1>4 DEF ChargesSafe

\* What calls are charged and what clients of a stream get: the properties of the charges hold
\* for every list of prices and rules that can be saved, and every answer an account may give.
THEOREM ChargesCorrect == ResponsesSpec => []ChargesSafe
<1>1. ResponsesInit => ChargeInv BY ChargeInvStarts
<1>2. ChargeInv /\ [ResponsesNext]_responseVars => ChargeInv' BY ChargeInvKeeps
<1>3. ChargeInv => ChargesSafe BY ChargeInvSafe
<1> QED BY <1>1, <1>2, <1>3, PTL DEF ResponsesSpec
=============================================================================
