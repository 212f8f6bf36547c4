--------------------------- MODULE PaymentLedger ---------------------------
(***************************************************************************)
(* What payment processing promises, with the database sessions left out:  *)
(* the books follow the provider's verdict on a payment, and a payment     *)
(* that succeeded buys exactly one subscription period.  A step may settle *)
(* several payments at once, because one reconciliation transaction does.  *)
(***************************************************************************)
EXTENDS Naturals

CONSTANT Payments

VARIABLES
    provider,    \* YooKassa's status of each payment
    status,      \* payments.status, "NONE" while there is no row
    periods      \* subscription periods the payment has bought

ledgerVars == <<provider, status, periods>>

Init ==
    /\ provider = [p \in Payments |-> "none"]
    /\ status = [p \in Payments |-> "NONE"]
    /\ periods = [p \in Payments |-> 0]

(* The provider opens a payment and later gives its one final verdict.     *)
ProviderMove(p) ==
    \/ provider[p] = "none" /\ provider'[p] = "pending"
    \/ provider[p] = "pending" /\ provider'[p] \in {"succeeded", "canceled"}

Book(p) ==
    /\ status[p] = "NONE" /\ provider[p] # "none" /\ status'[p] = "PENDING"
    /\ periods'[p] = periods[p]

(* SUCCEEDED and the period come together, in one transaction.             *)
Honour(p) ==
    /\ status[p] \in {"PENDING", "FAILED"} /\ provider[p] = "succeeded"
    /\ status'[p] = "SUCCEEDED" /\ periods'[p] = periods[p] + 1

(* The money came but the tier cannot be activated; a retry may honour it. *)
Refuse(p) ==
    /\ status[p] \in {"PENDING", "FAILED"} /\ provider[p] = "succeeded"
    /\ status'[p] = "FAILED" /\ periods'[p] = periods[p]

Drop(p) ==
    /\ status[p] = "PENDING" /\ provider[p] = "canceled"
    /\ status'[p] = "CANCELLED" /\ periods'[p] = periods[p]

Keeps(p) == status'[p] = status[p] /\ periods'[p] = periods[p]

Next ==
    \/ /\ \A p \in Payments : provider'[p] = provider[p] \/ ProviderMove(p)
       /\ UNCHANGED <<status, periods>>
    \/ /\ \A p \in Payments :
              Keeps(p) \/ Book(p) \/ Honour(p) \/ Refuse(p) \/ Drop(p)
       /\ UNCHANGED provider

Spec == Init /\ [][Next]_ledgerVars

============================================================================
