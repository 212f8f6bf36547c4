--------------------------- MODULE PromoOverlaps ---------------------------
(***************************************************************************)
(* PromoCodes with a history of what its promises depend on.  The bot does *)
(* not keep the updates of a chat apart and does not hold a reservation    *)
(* for longer than 60 minutes; section 11 of the README lists what that    *)
(* breaks.  Here is said what exactly has to come together to break it.    *)
(***************************************************************************)
EXTENDS PromoCodes

VARIABLES
    shared,   \* history: reservations two handlers have worked with at once
    racing    \* history: users with two codes found valid, neither reserved

historyVars == <<vars, shared, racing>>

Shared ==
    {i \in UsageIds : \E h, k \in Handlers :
        h # k /\ job[h].usage = i /\ job[k].usage = i}
Racing ==
    {u \in Users : \E h, k \in Handlers :
        /\ h # k /\ job[h].pc = "reserve" /\ job[k].pc = "reserve"
        /\ job[h].user = u /\ job[k].user = u}

HInit == Init /\ shared = {} /\ racing = {}
HNext ==
    /\ Next
    /\ shared' = shared \cup Shared' /\ racing' = racing \cup Racing'
HSpec == HInit /\ [][HNext]_historyVars

-----------------------------------------------------------------------------
(* A reservation never pays for two orders, activated or still to be paid: *)
(* not by old buttons, restarted checkouts, detours, deaths between        *)
(* PostgreSQL and Redis, or updates that overlap - unless two handlers had *)
(* this very reservation in hand at once.                                  *)
SpentByOne == \A i \in UsageIds \ shared : Cardinality(OrdersWith(i)) <= 1

(* A user holds one reservation at a time, although it is validated in one *)
(* transaction and inserted in another, unless two of his codes were       *)
(* between the two at once.                                                *)
OneAtATime == \A u \in Users \ racing : Cardinality(ActiveReservations(u)) <= 1

(* Without that a user exceeds max_uses_per_user only by reservations that *)
(* were older than 60 minutes when they were spent.                        *)
InTime(u) == {i \in RowsOf(u, "APPLIED") : usages[i].fresh}
LimitButLate == \A u \in Users \ racing : Cardinality(InTime(u)) <= MaxPerUser
=============================================================================
