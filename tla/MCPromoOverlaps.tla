-------------------------- MODULE MCPromoOverlaps --------------------------
(* Instances of PromoOverlaps for TLC.                                     *)
EXTENDS PromoOverlaps, TLC

CONSTANTS u1, u2, basic, pro, h1, h2

PartOfPrice == [t \in Tiers |-> "above"]
WholePrice == [t \in Tiers |-> IF t = basic THEN "below" ELSE "above"]
ExactPrice == [t \in Tiers |-> "zero"]
Symmetry == Permutations(Users) \cup Permutations(Handlers)
=============================================================================
