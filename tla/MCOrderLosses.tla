--------------------------- MODULE MCOrderLosses ---------------------------
(* The instances of MCOrderNotifications with the history of OrderLosses.  *)
EXTENDS MCOrderNotifications, OrderLosses
=============================================================================
