---------------------------- MODULE BatchImagesMC ----------------------------
(* Small populations for TLC: one user and one submission.             *)
EXTENDS BatchImages

CONSTANTS u1, p1, r1, k1

OneUser == {u1}
OneProvider == {p1}
OneRequest == {r1}
OneKey == {k1}
OwnerU1 == [r \in Requests |-> u1]
NoKeys == [r \in Requests |-> NoKey]
TwoImages == [r \in Requests |-> 2]
RankOf == [p \in Providers |-> 1]
OneSlot == [p \in Providers |-> 1]
HalfPrice == [p \in Providers |-> 5000]
HoldSixty == [p \in Providers |-> 6000]
HoldThirty == [p \in Providers |-> 3000]
OpeningSix == [u \in Users |-> 6]
PriceThree == {3}
BothThrees == {-3, 3}
NoDeltas == {}
==============================================================================
