----------------------------- MODULE HoldLedger -----------------------------
(***************************************************************************)
(* What a balance hold promises, whatever the machinery around it does: a  *)
(* request takes its hold once, out of money its owner has, and the hold   *)
(* is resolved at most once, either given back in full or captured for a   *)
(* cost no greater than the hold with the remainder given back.  There is  *)
(* no frozen column, no handler and no provider here; BatchImages, which   *)
(* has all three, implements this module.                                  *)
(***************************************************************************)
EXTENDS Integers

CONSTANTS Users,        \* accounts that own a balance
          Requests,     \* one per hold that may ever be taken
          Owner         \* [Requests -> Users]

VARIABLES available,    \* [Users -> Nat], what each user may still spend
          phase,        \* [Requests -> {"none", "held", "released", "captured"}]
          amount,       \* [Requests -> Nat], what the hold took
          cost          \* [Requests -> Nat], what the capture kept

ledgerVars == <<available, phase, amount, cost>>

LedgerInit ==
  /\ available \in [Users -> Nat]
  /\ phase = [r \in Requests |-> "none"]
  /\ amount = [r \in Requests |-> 0]
  /\ cost = [r \in Requests |-> 0]

Reserve(r, a) ==
  /\ phase[r] = "none"
  /\ available' = [available EXCEPT ![Owner[r]] = @ - a]
  /\ phase' = [phase EXCEPT ![r] = "held"]
  /\ amount' = [amount EXCEPT ![r] = a]
  /\ UNCHANGED cost

Release(r) ==
  /\ phase[r] = "held"
  /\ available' = [available EXCEPT ![Owner[r]] = @ + amount[r]]
  /\ phase' = [phase EXCEPT ![r] = "released"]
  /\ UNCHANGED <<amount, cost>>

Capture(r, c) ==
  /\ phase[r] = "held"
  /\ available' = [available EXCEPT ![Owner[r]] = @ + (amount[r] - c)]
  /\ phase' = [phase EXCEPT ![r] = "captured"]
  /\ cost' = [cost EXCEPT ![r] = c]
  /\ UNCHANGED amount

(* Any other writer of the balance: it never drives it below zero.         *)
Adjust(u) ==
  /\ available' \in [Users -> Nat]
  /\ \A v \in Users \ {u} : available'[v] = available[v]
  /\ UNCHANGED <<phase, amount, cost>>

LedgerNext ==
  \/ \E r \in Requests : Release(r)
  \/ \E r \in Requests : \E a \in 0 .. available[Owner[r]] : Reserve(r, a)
  \/ \E r \in Requests : \E c \in 0 .. amount[r] : Capture(r, c)
  \/ \E u \in Users : Adjust(u)

LedgerSpec == LedgerInit /\ [][LedgerNext]_ledgerVars
=============================================================================
