------------------------ MODULE MCOrderNotifications ------------------------
(* Instances of OrderNotifications for TLC.                                *)
EXTENDS OrderNotifications, TLC

CONSTANTS s1, s2

Symmetry == Permutations(Sessions)
=============================================================================
