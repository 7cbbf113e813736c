------------------------------ MODULE BillingMC ------------------------------
(* Instances of Billing for TLC. *)
EXTENDS Billing, TLC

MCPlan0    == [p \in Plans |-> [enabled |-> TRUE, open |-> TRUE, scope |-> CHOOSE g \in Scopes : TRUE,
                                price |-> CHOOSE n \in Prices : \A m \in Prices : n >= m]]
MCBalance0 == [u \in Users |-> 3]
MCTwo      == [u \in Users |-> 2]
MCCodePlan == [c \in Codes |-> CHOOSE p \in Plans : TRUE]
MCTwoUses  == [c \in Codes |-> 2]

HandlerSymmetry == Permutations(Handlers)
UserSymmetry == Permutations(Handlers) \cup Permutations(Users)
=============================================================================
