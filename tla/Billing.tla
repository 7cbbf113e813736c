------------------------------- MODULE Billing -------------------------------
(***************************************************************************)
(* What a user pays and what he gets for it: balance purchases and refunds *)
(* (orders.rs), redeem codes (redeem.rs), assigned, cancelled, expiring    *)
(* and automatically renewed subscriptions (subscriptions.rs), and the     *)
(* administrator's balance adjustments and user deletions (admin_users.rs).*)
(*                                                                         *)
(* A handler reads the rows it needs, and then runs one SQLite transaction *)
(* that does not read them again: the two are separate steps, with a       *)
(* snapshot of what was read carried between them.  A transaction that is  *)
(* rolled back, fails, or whose client has gone leaves nothing behind.     *)
(***************************************************************************)
EXTENDS Integers, FiniteSets, Totals

CONSTANTS
  Users, Plans, Codes,
  Scopes,       \* groups a subscription is for (subscriptions.group_id)
  Handlers,     \* requests that can be served at the same time
  Scheduler,    \* the renewal scheduler's task
  CodePlan,     \* the plan of a redeem code
  MaxUses,      \* redeem_codes.max_uses
  Prices,       \* the prices a plan can be given
  Amounts,      \* the amounts an administrator credits or debits
  Plan0,        \* the plans at the start
  Balance0,     \* the balances at the start
  SubIds, OrderIds, \* bound: rows of subscriptions and of orders
  MaxEdits,     \* bound: administrator's actions in a behaviour
  MaxPeriods    \* bound: periods of one subscription

Plan == [enabled : BOOLEAN, open : BOOLEAN, price : Prices, scope : Scopes]

ASSUME UsersAssumption    == IsFiniteSet(Users)
ASSUME PricesAssumption   == Prices \subseteq Nat
ASSUME Balance0Assumption == Balance0 \in [Users -> Nat]
ASSUME Plan0Assumption    == Plan0 \in [Plans -> Plan]
ASSUME CodesAssumption    == CodePlan \in [Codes -> Plans] /\ MaxUses \in [Codes -> Nat \ {0}]
ASSUME IdsAssumption      == /\ SubIds \subseteq Nat /\ OrderIds \subseteq Nat
                             /\ IsFiniteSet(OrderIds)
ASSUME AmountsAssumption  == Amounts \subseteq Nat
ASSUME SchedulerAssumption == Scheduler \notin Handlers
ASSUME BoundsAssumption   == MaxEdits \in Nat /\ MaxPeriods \in Nat

VARIABLES
  plan,         \* plans: enabled, its group is open, price, group
  balance,      \* users.balance_cents
  granted,      \* the sum of a user's user_balance_adjustments
  account,      \* users: enabled, deleted
  sub,          \* subscriptions, by id
  order,        \* orders, by id
  succeeded,    \* subscription_renewal_attempts that succeeded: <<sub, period>>
  code,         \* redeem_codes: enabled, expired, used_count
  redemptions,  \* redemptions: <<code, user>>
  job,          \* what a handler or the scheduler has read and not yet done
  todo,         \* subscriptions the scheduler found due and has not come to
  edits         \* administrator's actions made so far

money == <<balance, granted, order>>
codes == <<code, redemptions>>
vars  == <<plan, money, account, sub, succeeded, codes, job, todo, edits>>

Workers == Handlers \cup {Scheduler}

NoSub   == [status |-> "none"]
NoOrder == [status |-> "none"]
Idle    == [kind |-> "idle"]

\* next_renewal_at: NULL, the end of the current period, some time after a
\* refused attempt, or such a time that has come.
Sub   == [user : Users, plan : Plans, scope : Scopes,
          status : {"active", "expired", "cancelled"}, auto : BOOLEAN,
          next : {"null", "end", "later", "due"},
          period : Nat,        \* counts the values ends_at has had
          ended : BOOLEAN]     \* ends_at is past
\* A renewal order names the period it was charged after; a purchase, 0.
Order == [user : Users, sub : SubIds, amount : Nat,
          status : {"paid", "refunded"}, renewal : Nat]
Job   == {Idle}
    \cup [kind : {"purchase"}, user : Users, plan : Plans, price : Prices, scope : Scopes]
    \cup [kind : {"assign"}, user : Users, plan : Plans, scope : Scopes]
    \cup [kind : {"redeem"}, user : Users, code : Codes, plan : Plans, scope : Scopes]
    \cup [kind : {"auto"}, sub : SubIds, on : BOOLEAN]
    \cup [kind : {"renew"}, sub : SubIds, price : Prices, period : Nat, ok : BOOLEAN]

Rows(t)    == {i \in DOMAIN t : t[i].status # "none"}
\* AUTOINCREMENT: ids are given in order.
NewSubs    == {s \in SubIds : sub[s] = NoSub /\ \A t \in SubIds : t < s => sub[t] # NoSub}
NewOrders  == {o \in OrderIds : order[o] = NoOrder /\ \A p \in OrderIds : p < o => order[p] # NoOrder}

Init ==
  /\ plan = Plan0
  /\ balance = Balance0 /\ granted = Balance0
  /\ account = [u \in Users |-> [enabled |-> TRUE, deleted |-> FALSE]]
  /\ sub = [s \in SubIds |-> NoSub]
  /\ order = [o \in OrderIds |-> NoOrder]
  /\ succeeded = {}
  /\ code = [c \in Codes |-> [enabled |-> TRUE, expired |-> FALSE, used |-> 0]]
  /\ redemptions = {}
  /\ job = [w \in Workers |-> Idle]
  /\ todo = {}
  /\ edits = 0

-----------------------------------------------------------------------------
(* Rows as the statements write them *)

Cancelled(r) == [r EXCEPT !.status = "cancelled", !.auto = FALSE, !.next = "null"]

\* UPDATE subscriptions SET status = 'cancelled', .. WHERE .. AND status =
\* 'active', and the row inserted after it.
WithNewSub(s, u, p, g) ==
  [t \in SubIds |->
    IF t = s
    THEN [user |-> u, plan |-> p, scope |-> g, status |-> "active", auto |-> FALSE,
          next |-> "null", period |-> 1, ended |-> FALSE]
    ELSE IF sub[t].status = "active" /\ sub[t].user = u /\ sub[t].scope = g
         THEN Cancelled(sub[t]) ELSE sub[t]]

\* Variant: a debit that trusts the balance the user was shown.
CanPayUnchecked(u, n) == account[u].enabled

\* UPDATE users SET balance_cents = balance_cents - ? WHERE enabled = 1 AND
\* balance_cents >= ?
CanPay(u, n) == account[u].enabled /\ balance[u] >= n

Charge(o, u, s, n, k) ==
  /\ balance' = [balance EXCEPT ![u] = @ - n]
  /\ order' = [order EXCEPT ![o] = [user |-> u, sub |-> s, amount |-> n,
                                    status |-> "paid", renewal |-> k]]
  /\ UNCHANGED granted

Start(w, j) == job[w] = Idle /\ job' = [job EXCEPT ![w] = j]
Finish(w)   == job' = [job EXCEPT ![w] = Idle]

\* The session of a request belongs to an enabled user.
Session(u)  == account[u].enabled

\* A handler ends in an error of the database, or its client goes away.
Abandon(h) ==
  /\ job[h] # Idle
  /\ Finish(h)
  /\ UNCHANGED <<plan, money, account, sub, succeeded, codes, todo, edits>>

-----------------------------------------------------------------------------
(* orders.rs, redeem.rs and subscriptions.rs: how a subscription begins *)

PurchaseRead(h, u, p) ==
  /\ Session(u)
  /\ plan[p].enabled /\ plan[p].open /\ plan[p].price > 0
  /\ Start(h, [kind |-> "purchase", user |-> u, plan |-> p,
               price |-> plan[p].price, scope |-> plan[p].scope])
  /\ UNCHANGED <<plan, money, account, sub, succeeded, codes, todo, edits>>

\* Variant: the debit is the plan's price by now, the order's the one read.
PurchaseRepriced(h) ==
  LET j == job[h] IN
  /\ j.kind = "purchase" /\ CanPay(j.user, j.price)
  /\ Finish(h)
  /\ \E s \in NewSubs, o \in NewOrders :
       /\ order' = [order EXCEPT ![o] = [user |-> j.user, sub |-> s, amount |-> j.price,
                                        status |-> "paid", renewal |-> 0]]
       /\ balance' = [balance EXCEPT ![j.user] = @ - plan[j.plan].price]
       /\ sub' = WithNewSub(s, j.user, j.plan, j.scope)
  /\ UNCHANGED <<granted, plan, account, succeeded, codes, todo, edits>>

PurchaseCommit(h) ==
  LET j == job[h] IN
  /\ j.kind = "purchase"
  /\ Finish(h)
  /\ \/ /\ ~CanPay(j.user, j.price)
        /\ UNCHANGED <<money, sub>>
     \/ /\ CanPay(j.user, j.price)
        /\ \E s \in NewSubs, o \in NewOrders :
             /\ Charge(o, j.user, s, j.price, 0)
             /\ sub' = WithNewSub(s, j.user, j.plan, j.scope)
  /\ UNCHANGED <<plan, account, succeeded, codes, todo, edits>>

AssignRead(h, u, p) ==
  /\ plan[p].enabled /\ plan[p].open /\ account[u].enabled
  /\ edits < MaxEdits /\ edits' = edits + 1
  /\ Start(h, [kind |-> "assign", user |-> u, plan |-> p, scope |-> plan[p].scope])
  /\ UNCHANGED <<plan, money, account, sub, succeeded, codes, todo>>

AssignCommit(h) ==
  LET j == job[h] IN
  /\ j.kind = "assign"
  /\ Finish(h)
  /\ \E s \in NewSubs : sub' = WithNewSub(s, j.user, j.plan, j.scope)
  /\ UNCHANGED <<plan, money, account, succeeded, codes, todo, edits>>

RedeemRead(h, u, c) ==
  LET p == CodePlan[c] IN
  /\ Session(u)
  /\ code[c].enabled /\ ~code[c].expired /\ code[c].used < MaxUses[c]
  /\ plan[p].enabled /\ plan[p].open
  /\ Start(h, [kind |-> "redeem", user |-> u, code |-> c, plan |-> p, scope |-> plan[p].scope])
  /\ UNCHANGED <<plan, money, account, sub, succeeded, codes, todo, edits>>

Redeems(j) ==
  /\ code' = [code EXCEPT ![j.code].used = @ + 1]
  /\ redemptions' = redemptions \cup {<<j.code, j.user>>}
  /\ \E s \in NewSubs : sub' = WithNewSub(s, j.user, j.plan, j.scope)

\* Variant: the uses left are those the handler has read.
ClaimableAsRead(j) == <<j.code, j.user>> \notin redemptions /\ code[j.code].enabled

\* SELECT COUNT(*) FROM redemptions ..; UPDATE redeem_codes SET used_count =
\* used_count + 1 WHERE enabled = 1 AND used_count < max_uses
Claimable(j) ==
  /\ <<j.code, j.user>> \notin redemptions
  /\ code[j.code].enabled /\ code[j.code].used < MaxUses[j.code]

RedeemCommit(h) ==
  LET j == job[h] IN
  /\ j.kind = "redeem"
  /\ Finish(h)
  /\ \/ Claimable(j) /\ Redeems(j)
     \/ ~Claimable(j) /\ UNCHANGED <<codes, sub>>
  /\ UNCHANGED <<plan, money, account, succeeded, todo, edits>>

-----------------------------------------------------------------------------
(* subscriptions.rs: automatic renewal *)

\* update_auto_renew: the row is read, and then written whatever it is by then.
AutoRead(h, s, on) ==
  /\ s \in Rows(sub) /\ Session(sub[s].user)
  /\ on => /\ sub[s].status # "cancelled"
           /\ plan[sub[s].plan].price > 0 /\ plan[sub[s].plan].enabled
  /\ Start(h, [kind |-> "auto", sub |-> s, on |-> on])
  /\ UNCHANGED <<plan, money, account, sub, succeeded, codes, todo, edits>>

AutoCommit(h) ==
  LET j == job[h] IN
  /\ j.kind = "auto"
  /\ Finish(h)
  /\ sub' = [sub EXCEPT ![j.sub].auto = j.on, ![j.sub].next = IF j.on THEN "end" ELSE "null"]
  /\ UNCHANGED <<plan, money, account, succeeded, codes, todo, edits>>

\* process_due_renewals: auto_renew=1 AND status IN ('active','expired') AND
\* next_renewal_at<=CURRENT_TIMESTAMP.  LIMIT 100 is out of the model's reach.
Due(s) ==
  /\ sub[s].status \in {"active", "expired"}
  /\ sub[s].auto
  /\ \/ sub[s].next = "due"
     \/ sub[s].next = "end" /\ sub[s].ended

ProcessDueRenewals ==
  /\ job[Scheduler] = Idle /\ todo = {}
  /\ todo' = {s \in SubIds : Due(s)} /\ todo' # {}
  /\ UNCHANGED <<plan, money, account, sub, succeeded, codes, job, edits>>

\* renew_subscription up to pool.begin(): the status is read and ignored.
RenewRead(w, s) ==
  LET r == sub[s] IN
  /\ s \in Rows(sub)
  /\ r.auto /\ r.ended
  /\ Start(w, [kind |-> "renew", sub |-> s, price |-> plan[r.plan].price, period |-> r.period,
               ok |-> plan[r.plan].enabled /\ account[r.user].enabled /\ plan[r.plan].price > 0])
  /\ UNCHANGED <<plan, money, account, sub, succeeded, codes, edits>>

\* retry_renewal, by the owner.
RetryRenewal(h, s) == s \in Rows(sub) /\ Session(sub[s].user) /\ RenewRead(h, s) /\ UNCHANGED todo

ScheduledRenewal(s) ==
  /\ s \in todo /\ todo' = todo \ {s}
  /\ RenewRead(Scheduler, s)

\* return Ok(false) of a row that is no longer to be renewed.
ScheduledSkip(s) ==
  /\ job[Scheduler] = Idle /\ s \in todo /\ todo' = todo \ {s}
  /\ ~(sub[s].auto /\ sub[s].ended)
  /\ UNCHANGED <<plan, money, account, sub, succeeded, codes, job, edits>>

\* The transaction stops where something has gone wrong.
Succeeded(j) == <<j.sub, j.period>> \in succeeded
Rival(s) == \E t \in SubIds \ {s} : /\ sub[t].status = "active"
                                    /\ sub[t].user = sub[s].user /\ sub[t].scope = sub[s].scope

\* Variant: no unique index on the active subscriptions.
ConflictOfPeriod(j) ==
  \/ \E o \in Rows(order) : order[o].sub = j.sub /\ order[o].renewal = j.period
  \/ sub[j.sub].period # j.period

\* idx_orders_renewal_key; WHERE id=? AND ends_at=?; and the unique indexes
\* that allow one active subscription of a user in a scope.
Conflict(j) ==
  \/ \E o \in Rows(order) : order[o].sub = j.sub /\ order[o].renewal = j.period
  \/ sub[j.sub].period # j.period
  \/ Rival(j.sub)

\* Variants: the attempt of a period already renewed is refused as any other;
\* a refused renewal stays due.
RenewRefusedTwice(j) ==
  /\ ~j.ok \/ ~CanPay(sub[j.sub].user, j.price)
  /\ sub' = [sub EXCEPT ![j.sub].status = "expired", ![j.sub].next = "later"]
  /\ UNCHANGED <<money, succeeded>>
RenewRefusedStillDue(j) ==
  /\ ~Succeeded(j)
  /\ ~j.ok \/ ~CanPay(sub[j.sub].user, j.price)
  /\ sub' = [sub EXCEPT ![j.sub].status = "expired"]
  /\ UNCHANGED <<money, succeeded>>

RenewRefused(j) ==
  /\ ~Succeeded(j)
  /\ ~j.ok \/ ~CanPay(sub[j.sub].user, j.price)
  /\ sub' = [sub EXCEPT ![j.sub].status = "expired", ![j.sub].next = "later"]
  /\ UNCHANGED <<money, succeeded>>

RenewRolledBack(j) ==
  /\ \/ Succeeded(j)
     \/ j.ok /\ CanPay(sub[j.sub].user, j.price) /\ Conflict(j)
  /\ UNCHANGED <<money, sub, succeeded>>

\* Variant: a renewal that does not ask whether its period was renewed.
RenewPaidAgain(j) ==
  /\ j.ok /\ CanPay(sub[j.sub].user, j.price) /\ j.period < MaxPeriods
  /\ \E o \in NewOrders : Charge(o, sub[j.sub].user, j.sub, j.price, j.period)
  /\ sub' = [sub EXCEPT ![j.sub].status = "active", ![j.sub].next = "end",
                        ![j.sub].period = j.period + 1, ![j.sub].ended = FALSE]
  /\ succeeded' = succeeded \cup {<<j.sub, j.period>>}

RenewPaid(j) ==
  /\ ~Succeeded(j) /\ j.ok /\ CanPay(sub[j.sub].user, j.price) /\ ~Conflict(j)
  /\ j.period < MaxPeriods
  /\ \E o \in NewOrders : Charge(o, sub[j.sub].user, j.sub, j.price, j.period)
  /\ sub' = [sub EXCEPT ![j.sub].status = "active", ![j.sub].next = "end",
                        ![j.sub].period = j.period + 1, ![j.sub].ended = FALSE]
  /\ succeeded' = succeeded \cup {<<j.sub, j.period>>}

\* Variant: the transaction reads ends_at again and renews what it finds.
RenewCommitFresh(w) ==
  LET j == [job[w] EXCEPT !.period = sub[job[w].sub].period] IN
  /\ job[w].kind = "renew"
  /\ Finish(w)
  /\ RenewRefused(j) \/ RenewRolledBack(j) \/ RenewPaid(j)
  /\ UNCHANGED <<plan, account, codes, todo, edits>>

RenewCommit(w) ==
  /\ job[w].kind = "renew"
  /\ Finish(w)
  /\ RenewRefused(job[w]) \/ RenewRolledBack(job[w]) \/ RenewPaid(job[w])
  /\ UNCHANGED <<plan, account, codes, todo, edits>>

-----------------------------------------------------------------------------
(* Time *)

\* ends_at passes; next_renewal_at of a refused renewal passes.
PeriodEnds(s) ==
  /\ s \in Rows(sub) /\ ~sub[s].ended
  /\ sub[s].period < MaxPeriods
  /\ sub' = [sub EXCEPT ![s].ended = TRUE]
  /\ UNCHANGED <<plan, money, account, succeeded, codes, job, todo, edits>>

RetryTimeComes(s) ==
  /\ s \in Rows(sub) /\ sub[s].next = "later"
  /\ sub' = [sub EXCEPT ![s].next = "due"]
  /\ UNCHANGED <<plan, money, account, succeeded, codes, job, todo, edits>>

CodeExpires(c) ==
  /\ ~code[c].expired
  /\ code' = [code EXCEPT ![c].expired = TRUE]
  /\ UNCHANGED <<plan, money, account, sub, succeeded, redemptions, job, todo, edits>>

\* subscriptions_for_user: a list marks every subscription that has ended.
ListSubscriptions ==
  /\ \E s \in SubIds : sub[s].status = "active" /\ sub[s].ended
  /\ sub' = [s \in SubIds |-> IF sub[s].status = "active" /\ sub[s].ended
                              THEN [sub[s] EXCEPT !.status = "expired"] ELSE sub[s]]
  /\ UNCHANGED <<plan, money, account, succeeded, codes, job, todo, edits>>

-----------------------------------------------------------------------------
(* The administrator *)

Edit == edits < MaxEdits /\ edits' = edits + 1

RefundOrder(o) ==
  LET r == order[o] IN
  /\ Edit
  /\ r.status = "paid"
  /\ order' = [order EXCEPT ![o].status = "refunded"]
  /\ balance' = [balance EXCEPT ![r.user] = @ + r.amount]
  /\ sub' = IF sub[r.sub].status = "active"
            THEN [sub EXCEPT ![r.sub] = Cancelled(@)] ELSE sub
  /\ UNCHANGED <<plan, granted, account, succeeded, codes, job, todo>>

\* update_subscription
UpdateSubscription(s, status) ==
  /\ Edit
  /\ s \in Rows(sub)
  /\ sub' = [sub EXCEPT ![s] = [Cancelled(@) EXCEPT !.status = status]]
  /\ UNCHANGED <<plan, money, account, succeeded, codes, job, todo>>

AdjustBalance(u, delta) ==
  /\ Edit
  /\ ~account[u].deleted
  /\ balance[u] + delta >= 0
  /\ balance' = [balance EXCEPT ![u] = @ + delta]
  /\ granted' = [granted EXCEPT ![u] = @ + delta]
  /\ UNCHANGED <<plan, order, account, sub, succeeded, codes, job, todo>>

\* update_user and the batch actions, of users that are not deleted; and
\* unban_user (risk_control.rs), of any.
SwitchUser(u) ==
  /\ Edit
  /\ account[u].deleted => ~account[u].enabled
  /\ account' = [account EXCEPT ![u].enabled = ~@]
  /\ UNCHANGED <<plan, money, sub, succeeded, codes, job, todo>>

\* soft_delete_user
DeleteUser(u) ==
  /\ Edit
  /\ ~account[u].deleted
  /\ account' = [account EXCEPT ![u] = [enabled |-> FALSE, deleted |-> TRUE]]
  /\ sub' = [s \in SubIds |-> IF sub[s].status = "active" /\ sub[s].user = u
                              THEN Cancelled(sub[s]) ELSE sub[s]]
  /\ UNCHANGED <<plan, money, succeeded, codes, job, todo>>

\* update_plan: a plan can only be put into an open group.
UpdatePlan(p, enabled, price, scope) ==
  /\ Edit
  /\ plan' = [plan EXCEPT ![p] = [enabled |-> enabled, open |-> TRUE, price |-> price, scope |-> scope]]
  /\ UNCHANGED <<money, account, sub, succeeded, codes, job, todo>>

\* groups.rs, update_group: the plan's group closes.
CloseGroup(p) ==
  /\ Edit
  /\ plan' = [plan EXCEPT ![p].open = FALSE]
  /\ UNCHANGED <<money, account, sub, succeeded, codes, job, todo>>

UpdateCode(c) ==
  /\ Edit
  /\ code' = [code EXCEPT ![c].enabled = ~@]
  /\ UNCHANGED <<plan, money, account, sub, succeeded, redemptions, job, todo>>

Requested ==
  \/ \E h \in Handlers, u \in Users, p \in Plans : PurchaseRead(h, u, p) \/ AssignRead(h, u, p)
  \/ \E h \in Handlers, u \in Users, c \in Codes : RedeemRead(h, u, c)
  \/ \E h \in Handlers, s \in SubIds : RetryRenewal(h, s)
  \/ \E h \in Handlers, s \in SubIds, on \in BOOLEAN : AutoRead(h, s, on)
  \/ \E h \in Handlers : Abandon(h)

Committed ==
  \/ \E h \in Handlers : PurchaseCommit(h) \/ AssignCommit(h) \/ RedeemCommit(h) \/ AutoCommit(h)
  \/ \E w \in Workers : RenewCommit(w)

Scheduled ==
  \/ ProcessDueRenewals
  \/ \E s \in SubIds : ScheduledRenewal(s) \/ ScheduledSkip(s)

TimePasses ==
  \/ \E s \in SubIds : PeriodEnds(s) \/ RetryTimeComes(s)
  \/ \E c \in Codes : CodeExpires(c)
  \/ ListSubscriptions

Administered ==
  \/ \E o \in OrderIds : RefundOrder(o)
  \/ \E s \in SubIds, status \in {"cancelled", "expired"} : UpdateSubscription(s, status)
  \/ \E u \in Users, n \in Amounts : AdjustBalance(u, n) \/ AdjustBalance(u, -n)
  \/ \E u \in Users : SwitchUser(u) \/ DeleteUser(u)
  \/ \E p \in Plans, enabled \in BOOLEAN, price \in Prices, scope \in Scopes :
       UpdatePlan(p, enabled, price, scope)
  \/ \E p \in Plans : CloseGroup(p)
  \/ \E c \in Codes : UpdateCode(c)

Next == Requested \/ Committed \/ Scheduled \/ TimePasses \/ Administered

Spec == Init /\ [][Next]_vars

\* The scheduler's task runs for ever: it ticks, and goes through what it found.
FairSpec ==
  /\ Spec
  /\ WF_vars(ProcessDueRenewals)
  /\ WF_vars(\E s \in SubIds : ScheduledRenewal(s) \/ ScheduledSkip(s))
  /\ WF_vars(RenewCommit(Scheduler))

-----------------------------------------------------------------------------
(* Properties *)

\* The state is well typed; no balance is overdrawn, whatever the handlers had
\* read before they charged it.
TypeOK ==
  /\ plan \in [Plans -> Plan]
  /\ balance \in [Users -> Nat] /\ granted \in [Users -> Nat]
  /\ account \in [Users -> [enabled : BOOLEAN, deleted : BOOLEAN]]
  /\ sub \in [SubIds -> Sub \cup {NoSub}]
  /\ order \in [OrderIds -> Order \cup {NoOrder}]
  /\ succeeded \subseteq SubIds \X Nat
  /\ code \in [Codes -> [enabled : BOOLEAN, expired : BOOLEAN, used : Nat]]
  /\ redemptions \subseteq Codes \X Users
  /\ job \in [Workers -> Job]
  /\ todo \subseteq SubIds
  /\ edits \in Nat

\* No cent is lost or made: what a user has and what he paid for is what the
\* administrator gave him (users, orders and user_balance_adjustments agree),
\* across purchases, renewals, refunds and adjustments in any order.
Amount == [o \in OrderIds |-> order[o].amount]
Paid(u) == {o \in OrderIds : order[o].status = "paid" /\ order[o].user = u}
MoneyConserved == \A u \in Users : balance[u] + Total(Paid(u), Amount) = granted[u]

\* A user has at most one active subscription in a scope, however purchases,
\* redemptions, assignments and renewals of expired rows interleave.
OneActive ==
  \A s, t \in Rows(sub) :
    /\ sub[s].status = "active" /\ sub[t].status = "active"
    /\ sub[s].user = sub[t].user /\ sub[s].scope = sub[t].scope
    => s = t

\* The uses a code counts are the redemptions written for it, at most max_uses
\* and at most one for a user, when users race for its last use.
CodeUses ==
  \A c \in Codes :
    /\ code[c].used = Cardinality({u \in Users : <<c, u>> \in redemptions})
    /\ code[c].used <= MaxUses[c]

\* Every period a renewal began was paid for once: the periods behind a
\* subscription, its renewal orders and its succeeded attempts are the same.
PeriodsPaidOnce ==
  \A s \in Rows(sub) :
    LET orders == {o \in Rows(order) : order[o].sub = s /\ order[o].renewal > 0} IN
    /\ Cardinality(orders) = sub[s].period - 1
    /\ {order[o].renewal : o \in orders} = 1 .. sub[s].period - 1
    /\ {k \in 1 .. MaxPeriods : <<s, k>> \in succeeded} = 1 .. sub[s].period - 1

\* A renewal never replaces a period that is still being served, however old
\* the row it was decided on: two renewals of the same row buy one period.
RenewsEndedPeriods ==
  [][\A s \in Rows(sub) : sub'[s].period # sub[s].period => sub[s].ended]_vars

\* A period that was paid for is not cut short by a renewal that could not be
\* paid: a running subscription expires by the administrator's hand only.
PaidPeriodIsServed ==
  [][\A s \in Rows(sub) :
       sub[s].status = "active" /\ ~sub[s].ended /\ sub'[s].status = "expired"
       => UpdateSubscription(s, "expired")]_vars

\* A subscription that is due is decided: renewed, refused until a later time,
\* or no longer to be renewed; unless another one is active in its scope, which
\* makes every attempt fail.
DueRenewalDecided ==
  \A s \in SubIds : Due(s) ~> \/ ~Due(s)
                              \/ Rival(s)

\* MIGRATION_STATUS.md promises cancellation-safe renewals: a cancelled
\* subscription does not become active again.
CancelledStaysCancelled ==
  [][\A s \in Rows(sub) : sub[s].status = "cancelled" => sub'[s].status # "active"]_vars

=============================================================================
