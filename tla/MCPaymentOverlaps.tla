------------------------- MODULE MCPaymentOverlaps -------------------------
(* The instances of MCPayments with the history of PaymentOverlaps.        *)
EXTENDS MCPayments, PaymentOverlaps
=============================================================================
