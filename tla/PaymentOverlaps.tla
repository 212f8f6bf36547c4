-------------------------- MODULE PaymentOverlaps --------------------------
(***************************************************************************)
(* Payments with a history: which payments two sessions have had in hand   *)
(* at the same time.  The code does not keep sessions apart, and section   *)
(* 11 of the README lists what overlaps break; here is said which overlap  *)
(* each of these takes, and that nothing else breaks them.                 *)
(***************************************************************************)
EXTENDS Payments

VARIABLE overlaps   \* history: pairs of payments in hand at the same time

historyVars == <<vars, overlaps>>

(* From the moment a session has selected a payment until it has committed *)
(* what it wrote of it, or given it up.                                    *)
InHand(s, p) ==
    \/ task[s].p = p \/ p \in task[s].todo
    \/ writes[s].status[p] # None

Meeting ==
    {pq \in Payments \X Payments :
        \E r, s \in Sessions : r # s /\ InHand(r, pq[1]) /\ InHand(s, pq[2])}

HInit == Init /\ overlaps = {}
HNext == Next /\ overlaps' = overlaps \cup Meeting'
HSpec == HInit /\ [][HNext]_historyVars

Overlapped(p, q) == <<p, q>> \in overlaps
(* No two sessions have had the payment in hand at the same time.          *)
Undisputed(p) == ~Overlapped(p, p)
(* Nor has a second session had any payment of the same buyer.             *)
Alone(p) == \A q \in Payments : UserOf[q] = UserOf[p] => ~Overlapped(p, q)

-----------------------------------------------------------------------------
(* Idempotence by provider payment id.  However often the same payment is  *)
(* confirmed, rolled back and confirmed again, and whatever sessions do to *)
(* other payments meanwhile, it buys two periods only if two sessions had  *)
(* this very payment in hand at once; and a period is lost only if it met  *)
(* another session of its buyer.                                           *)
PaidOnce ==
    \A p \in Payments :
        /\ Undisputed(p) => Granted(p) <= IF status[p] = "SUCCEEDED" THEN 1 ELSE 0
        /\ Alone(p) /\ status[p] = "SUCCEEDED" => Granted(p) >= 1

(* Two open payments of one order, which a buyer might pay both, only come *)
(* from checkouts that were under way at the same time.                    *)
OneOpenPerOrder ==
    \A p, q \in Payments \ Promo :
        /\ p # q /\ SameOrder(p, q)
        /\ status[p] = "PENDING" /\ status[q] = "PENDING"
        => Overlapped(p, q)

(* A payment that has met no other session of its buyer moves the way      *)
(* PaymentLedger promises, and its period comes with its SUCCEEDED.        *)
LedgerStep(p) ==
    Ledger!Keeps(p) \/ Ledger!Book(p) \/ Ledger!Honour(p)
        \/ Ledger!Refuse(p) \/ Ledger!Drop(p)
FollowsLedger == [][\A p \in Payments : Alone(p)' => LedgerStep(p)]_historyVars

(* The usage of a promo code follows its payment, unless two sessions had  *)
(* the payment in hand; and the counter is right unless two payments with  *)
(* a code were in hand at once.                                            *)
PromoFollows ==
    /\ \A p \in Promo : Undisputed(p) =>
          (usage[p].state = "APPLIED" <=> status[p] = "SUCCEEDED")
    /\ (\A p, q \in Promo : ~Overlapped(p, q)) =>
          usedCount = Cardinality({p \in Promo : usage[p].state = "APPLIED"})
=============================================================================
