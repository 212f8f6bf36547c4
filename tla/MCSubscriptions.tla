-------------------------- MODULE MCSubscriptions --------------------------
(* Instances of Subscriptions for TLC.                                     *)
EXTENDS Subscriptions, TLC

CONSTANTS u1, u2, basic, pro, s1, s2

TierOrder == [t \in Tiers |-> IF t = pro THEN 2 ELSE 1]
Symmetry == Permutations(Users) \cup Permutations(Sessions)
============================================================================
