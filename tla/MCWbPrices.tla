----------------------------- MODULE MCWbPrices -----------------------------
(* Instances of WbPrices for TLC.                                          *)
EXTENDS WbPrices, TLC

CONSTANTS p1, p2, cron, web

MrcOne == [p \in Products |-> 100000]
=============================================================================
