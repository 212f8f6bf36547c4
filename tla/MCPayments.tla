----------------------------- MODULE MCPayments -----------------------------
(* Instances of Payments for TLC: which user buys which tier with which of *)
(* the payments, and which payments carry a promo code.                    *)
EXTENDS Payments, TLC

CONSTANTS p1, p2, p3, u1, basic, pro, s1, s2, s3

(* One user orders the same tier twice (a double click, or a renewal).     *)
SameTier == [p \in Payments |-> basic]
(* The third order is for another tier (an upgrade, or a downgrade).        *)
Upgrade == [p \in Payments |-> IF p = p3 THEN pro ELSE basic]
OneUser == [p \in Payments |-> u1]
TierOrder == [t \in Tiers |-> IF t = pro THEN 2 ELSE 1]
(* Sessions and payments of one order are interchangeable.                 *)
Symmetry == Permutations(Payments) \cup Permutations(Sessions)
=============================================================================
