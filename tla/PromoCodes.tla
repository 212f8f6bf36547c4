----------------------------- MODULE PromoCodes -----------------------------
(***************************************************************************)
(* One promo code on its way from the chat to a subscription: the user     *)
(* chooses a tier, sends the code, gets a reservation, taps a button that  *)
(* activates at once or creates a payment.  The reservation is a row in    *)
(* PostgreSQL, the checkout is data of the chat in Redis, and the bot      *)
(* handles updates of one chat concurrently.  A confirmation of a payment  *)
(* is one step here; Payments shows what happens inside it.                *)
(***************************************************************************)
EXTENDS Integers, FiniteSets

CONSTANTS
    Users, Tiers, Handlers,
    Allowed,       \* promo.tariffs
    Remainder,     \* price minus discount for each tier
    MaxTotal,      \* promo.max_uses_total
    MaxPerUser,    \* promo.max_uses_per_user
    None,          \* NULL, no row
    MaxUsages,     \* bound: rows of promo_code_usages
    MaxOrders      \* bound: activations and payments with the code

ASSUME PromoAssumption ==
    /\ Allowed \subseteq Tiers
    /\ Remainder \in [Tiers -> {"above", "zero", "below"}]
    /\ MaxTotal \in Nat /\ MaxPerUser \in Nat
ASSUME BoundsAssumption == MaxUsages \in Nat /\ MaxOrders \in Nat

VARIABLES
    active,     \* promo_codes.is_active
    usedCount,  \* promo_codes.used_count
    usages,     \* promo_code_usages, by id
    chat,       \* FSM state and data of each user's chat
    job,        \* the update each handler is working on
    orders      \* what was bought with the code: payments and free activations

vars == <<active, usedCount, usages, chat, job, orders>>

UsageIds == 1..MaxUsages
OrderIds == 1..MaxOrders

(* str(final_amount): max() returns its first argument when both are zero, *)
(* and that one has two decimals.                                          *)
FinalAmount(t) ==
    [above |-> "rest", zero |-> "0.00", below |-> "0"][Remainder[t]]

PromoCodeUsage == [user : Users, tier : Tiers, status : {"RESERVED", "APPLIED"}, fresh : BOOLEAN]
Chat == [state : {"none", "waiting_for_promo_code", "waiting_for_email"},
         tier : Tiers \cup {None}, usage : UsageIds \cup {None},
         final : {"rest", "0.00", "0", None}]
Order == [usage : UsageIds, user : Users, tier : Tiers, free : BOOLEAN,
          status : {"PENDING", "SUCCEEDED", "CANCELLED"}]
ASSUME NoneAssumption ==
    /\ None \notin Nat /\ None \notin Tiers /\ None \notin Users
    /\ None \notin PromoCodeUsage /\ None \notin Order
    /\ None \notin {"rest", "0.00", "0"}
Cleared == [state |-> "none", tier |-> None, usage |-> None, final |-> None]
Idle == [pc |-> "idle", user |-> None, tier |-> None, usage |-> None, final |-> None]
Job == [pc : {"idle", "reserve", "remember", "clear", "receipt", "route", "activate", "pay"},
        user : Users \cup {None}, tier : Tiers \cup {None},
        usage : UsageIds \cup {None}, final : {"rest", "0.00", "0", None}]

RowsOf(u, status) ==
    {i \in UsageIds : usages[i] # None /\ usages[i].user = u /\ usages[i].status = status}
CountUserAppliedUses(u) == Cardinality(RowsOf(u, "APPLIED"))
ActiveReservations(u) == {i \in RowsOf(u, "RESERVED") : usages[i].fresh}

\* Mutants: reservations do not count; the limit is passed by one.
ForgetsReservations(u, t) ==
    /\ active /\ usedCount < MaxTotal
    /\ CountUserAppliedUses(u) < MaxPerUser
    /\ t \in Allowed
OneMore(u, t) ==
    /\ active /\ usedCount < MaxTotal
    /\ CountUserAppliedUses(u) <= MaxPerUser
    /\ ActiveReservations(u) = {}
    /\ t \in Allowed
Validate(u, t) ==
    /\ active /\ usedCount < MaxTotal
    /\ CountUserAppliedUses(u) < MaxPerUser
    /\ ActiveReservations(u) = {}
    /\ t \in Allowed

Smallest(S) == {i \in S : \A j \in S : i <= j}
FreeUsage == Smallest({i \in UsageIds : usages[i] = None})
FreeOrder == Smallest({o \in OrderIds : orders[o] = None})

-----------------------------------------------------------------------------
(***************************************************************************)
(* The chat.                                                               *)
(***************************************************************************)
(* A tier is chosen; update_data keeps whatever else the chat remembers.   *)
HandlePaymentInitiation(u, t) ==
    /\ chat' = [chat EXCEPT ![u].state = "waiting_for_promo_code", ![u].tier = t]
    /\ UNCHANGED <<active, usedCount, usages, job, orders>>

(* A valid code is sent.  An invalid one is answered and changes nothing;  *)
(* so are /skip and /cancel, which this handler takes for codes.           *)
HandlePromoCodeInput(h, u) ==
    /\ job[h] = Idle /\ chat[u].state = "waiting_for_promo_code"
    /\ Validate(u, chat[u].tier)
    /\ job' = [job EXCEPT ![h] = [Idle EXCEPT !.pc = "reserve", !.user = u,
                                              !.tier = chat[u].tier]]
    /\ UNCHANGED <<active, usedCount, usages, chat, orders>>

ReserveUsage(h) ==
    LET j == job[h]
    IN  /\ j.pc = "reserve"
        /\ \E i \in FreeUsage :
              /\ usages' = [usages EXCEPT ![i] =
                    [user |-> j.user, tier |-> j.tier, status |-> "RESERVED", fresh |-> TRUE]]
              /\ job' = [job EXCEPT ![h].pc = "remember", ![h].usage = i]
        /\ UNCHANGED <<active, usedCount, chat, orders>>

\* Mutant: the newest reservation of the code, not the one just made.
RememberNewest(h) ==
    LET j == job[h]
    IN  /\ j.pc = "remember"
        /\ \E i \in UsageIds :
              /\ usages[i] # None /\ \A k \in UsageIds : usages[k] # None => k <= i
              /\ chat' = [chat EXCEPT ![j.user].usage = i,
                                      ![j.user].final = FinalAmount(j.tier)]
        /\ job' = [job EXCEPT ![h] = Idle]
        /\ UNCHANGED <<active, usedCount, usages, orders>>
RememberUsage(h) ==
    LET j == job[h]
    IN  /\ j.pc = "remember"
        /\ chat' = [chat EXCEPT ![j.user].usage = j.usage,
                                ![j.user].final = FinalAmount(j.tier)]
        /\ job' = [job EXCEPT ![h] = Idle]
        /\ UNCHANGED <<active, usedCount, usages, orders>>

(* The button carries the tier it was made for, maybe long ago: buttons of *)
(* old messages stay live.  The rest is in the chat.                       *)
HandlePaymentConfirmation(h, u, t) ==
    /\ job[h] = Idle
    /\ job' = [job EXCEPT ![h] =
                 [pc |-> "clear", user |-> u, tier |-> t,
                  usage |-> chat[u].usage, final |-> chat[u].final]]
    /\ UNCHANGED <<active, usedCount, usages, chat, orders>>

(* An e-mail arrives: read the chat, store the address, clear the chat,    *)
(* pay.                                                                    *)
HandlePaymentEmailInput(h, u) ==
    /\ job[h] = Idle /\ chat[u].state = "waiting_for_email"
    /\ job' = [job EXCEPT ![h] =
                 [pc |-> "receipt", user |-> u, tier |-> chat[u].tier,
                  usage |-> chat[u].usage, final |-> None]]
    /\ UNCHANGED <<active, usedCount, usages, chat, orders>>

(* Nothing to pay: activate.  Else pay, or first ask for the e-mail.       *)
NothingToPay(j) == j.usage # None /\ j.final = "0"
Continue(j) ==
    CASE j.pc = "receipt" -> "pay"
      [] j.pc = "clear" /\ NothingToPay(j) -> "activate"
      [] OTHER -> "route"

\* Mutant: the chat is not cleared.
KeepState(h) ==
    /\ job[h].pc \in {"clear", "receipt"}
    /\ job' = [job EXCEPT ![h].pc = Continue(job[h])]
    /\ UNCHANGED <<active, usedCount, usages, chat, orders>>
ClearState(h) ==
    /\ job[h].pc \in {"clear", "receipt"}
    /\ chat' = [chat EXCEPT ![job[h].user] = Cleared]
    /\ job' = [job EXCEPT ![h].pc = Continue(job[h])]
    /\ UNCHANGED <<active, usedCount, usages, orders>>

AskForEmail(h) ==
    LET j == job[h]
    IN  /\ j.pc = "route"
        /\ chat' = [chat EXCEPT ![j.user] = [state |-> "waiting_for_email", tier |-> j.tier,
                                            usage |-> j.usage, final |-> None]]
        /\ job' = [job EXCEPT ![h] = Idle]
        /\ UNCHANGED <<active, usedCount, usages, orders>>

(***************************************************************************)
(* Activation and payment.                                                 *)
(***************************************************************************)
ConfirmUsage(i) ==
    /\ usages' = [usages EXCEPT ![i].status = "APPLIED"]
    /\ usedCount' = usedCount + 1

Activate(h) ==
    LET j == job[h]
    IN  /\ j.pc = "activate"
        /\ \E o \in FreeOrder :
              orders' = [orders EXCEPT ![o] =
                 [usage |-> j.usage, user |-> j.user, tier |-> j.tier,
                  free |-> TRUE, status |-> "SUCCEEDED"]]
        /\ ConfirmUsage(j.usage)
        /\ job' = [job EXCEPT ![h] = Idle]
        /\ UNCHANGED <<active, chat>>

(* With a code there is always a new payment, of one kopeck at least; one  *)
(* without a code is none of this module's business.                       *)
CreatePayment(h) ==
    LET j == job[h]
    IN  /\ j.pc \in {"route", "pay"}
        /\ \/ j.usage = None /\ UNCHANGED orders
           \/ /\ j.usage # None
              /\ \E o \in FreeOrder :
                    orders' = [orders EXCEPT ![o] =
                       [usage |-> j.usage, user |-> j.user, tier |-> j.tier,
                        free |-> FALSE, status |-> "PENDING"]]
        /\ job' = [job EXCEPT ![h] = Idle]
        /\ UNCHANGED <<active, usedCount, usages, chat>>

\* Mutant: a repeated webhook counts again.
PaymentSucceedsAgain(o) ==
    /\ orders[o] # None /\ orders[o].status \in {"PENDING", "SUCCEEDED"}
    /\ orders' = [orders EXCEPT ![o].status = "SUCCEEDED"]
    /\ ConfirmUsage(orders[o].usage)
    /\ UNCHANGED <<active, chat, job>>
PaymentSucceeds(o) ==
    /\ orders[o] # None /\ orders[o].status = "PENDING"
    /\ orders' = [orders EXCEPT ![o].status = "SUCCEEDED"]
    /\ ConfirmUsage(orders[o].usage)
    /\ UNCHANGED <<active, chat, job>>

(* cancel_usage_by_payment looks for a RESERVED row with the payment's id, *)
(* which only confirm_usage stores: it finds none.                         *)
PaymentCanceled(o) ==
    /\ orders[o] # None /\ orders[o].status = "PENDING"
    /\ orders' = [orders EXCEPT ![o].status = "CANCELLED"]
    /\ UNCHANGED <<active, usedCount, usages, chat, job>>

(* 60 minutes pass.  cleanup_expired_reservations has no caller, and nobody *)
(* looks at the age of a row that is spent.                                *)
ReservationExpires(i) ==
    /\ usages[i] # None /\ usages[i].status = "RESERVED" /\ usages[i].fresh
    /\ usages' = [usages EXCEPT ![i].fresh = FALSE]
    /\ UNCHANGED <<active, usedCount, chat, job, orders>>

Toggle ==
    /\ active' = ~active
    /\ UNCHANGED <<usedCount, usages, chat, job, orders>>

(* A handler fails: its transaction is rolled back, Redis is not.          *)
Fail(h) ==
    /\ job[h].pc # "idle"
    /\ job' = [job EXCEPT ![h] = Idle]
    /\ UNCHANGED <<active, usedCount, usages, chat, orders>>

-----------------------------------------------------------------------------
Init ==
    /\ active = TRUE /\ usedCount = 0
    /\ usages = [i \in UsageIds |-> None]
    /\ chat = [u \in Users |-> Cleared]
    /\ job = [h \in Handlers |-> Idle]
    /\ orders = [o \in OrderIds |-> None]

Chatting(h) ==
    \/ \E u \in Users :
          \/ HandlePromoCodeInput(h, u) \/ HandlePaymentEmailInput(h, u)
          \/ \E t \in Tiers : HandlePaymentConfirmation(h, u, t)
    \/ ReserveUsage(h) \/ RememberUsage(h) \/ ClearState(h)
    \/ AskForEmail(h) \/ Activate(h) \/ CreatePayment(h) \/ Fail(h)

Next ==
    \/ \E u \in Users, t \in Tiers : HandlePaymentInitiation(u, t)
    \/ \E h \in Handlers : Chatting(h)
    \/ \E o \in OrderIds : PaymentSucceeds(o) \/ PaymentCanceled(o)
    \/ \E i \in UsageIds : ReservationExpires(i)
    \/ Toggle

Spec == Init /\ [][Next]_vars

-----------------------------------------------------------------------------
TypeOK ==
    /\ active \in BOOLEAN /\ usedCount \in 0..MaxOrders
    /\ usages \in [UsageIds -> PromoCodeUsage \cup {None}]
    /\ chat \in [Users -> Chat]
    /\ job \in [Handlers -> Job]
    /\ orders \in [OrderIds -> Order \cup {None}]

OrdersWith(i) == {o \in OrderIds : orders[o] # None /\ orders[o].usage = i}

(* A reservation is spent once: it never pays for two orders, be they      *)
(* activated or still to be paid.                                          *)
SpentOnce == \A i \in UsageIds : Cardinality(OrdersWith(i)) <= 1

(* A user holds one reservation at a time.                                 *)
OneReservation == \A u \in Users : Cardinality(ActiveReservations(u)) <= 1

(* A reservation is spent by the user who got it, whatever chats, handlers *)
(* and payments do meanwhile; nobody else's chat or handler knows it.      *)
Holds(u, i) == i = None \/ (usages[i] # None /\ usages[i].user = u)
OwnReservation ==
    /\ \A o \in OrderIds : orders[o] # None => Holds(orders[o].user, orders[o].usage)
    /\ \A u \in Users : Holds(u, chat[u].usage)
    /\ \A h \in Handlers : Holds(job[h].user, job[h].usage)

(* A user spends the code at most max_uses_per_user times.                 *)
PerUserLimit == \A u \in Users : CountUserAppliedUses(u) <= MaxPerUser

(* All users together spend it at most max_uses_total times.               *)
TotalLimit == usedCount <= MaxTotal

(* The code pays for the tiers it is made for.                             *)
TariffRestriction ==
    \A o \in OrderIds : orders[o] # None => orders[o].tier \in Allowed

(* A code that covers the whole price of a tier activates it without a     *)
(* payment.                                                                *)
CoveredIsFree ==
    \A o \in OrderIds :
        orders[o] # None /\ usages[orders[o].usage].tier = orders[o].tier
            => (orders[o].free <=> Remainder[orders[o].tier] \in {"zero", "below"})

(* Nobody is activated without a payment on a reservation that leaves      *)
(* something to pay, whatever chats forget, mix up or handle at once.      *)
FreeIsCovered ==
    \A o \in OrderIds :
        orders[o] # None /\ orders[o].free
            => Remainder[usages[orders[o].usage].tier] = "below"
=============================================================================
