------------------------------ MODULE GatewayMC ------------------------------
(* Instances of Gateway for TLC. *)
EXTENDS Gateway, TLC

\* Accounts 1 and 2 share a priority, account 3 has a larger one.
MCPriority == [a \in Accounts |-> IF a < 3 THEN 1 ELSE 2]

\* The first group holds every account (a key without a group); the others
\* hold the accounts but the first.
MCMember == [g \in Groups |-> IF g = 1 THEN Accounts ELSE Accounts \ {1}]
MCOneGroup == [r \in Requests |-> 1]
MCTwoGroups == [r \in Requests |-> IF r = CHOOSE q \in Requests : TRUE THEN 2 ELSE 1]

MCLimit0 == [a \in Accounts |-> IF a = 1 THEN 1 ELSE CHOOSE n \in Limits : \A m \in Limits : n >= m]

RequestSymmetry == Permutations(Requests)
=============================================================================
