-------------------------- MODULE PromoCodesProofs --------------------------
(***************************************************************************)
(* A reservation stays with the user who got it, the counter of the code   *)
(* counts its orders, and only what a reservation covers is free.  A       *)
(* reservation is spent once, a user has one at a time and stays within    *)
(* his limit, unless the history of PromoOverlaps tells otherwise: for any *)
(* number of users, chats, handlers and payments.                          *)
(***************************************************************************)
EXTENDS PromoOverlaps, TLAPS, FiniteSetTheorems

Shapes ==
    /\ usages \in [UsageIds -> PromoCodeUsage \cup {None}]
    /\ chat \in [Users -> Chat]
    /\ job \in [Handlers -> Job]
    /\ orders \in [OrderIds -> Order \cup {None}]

(* A chat that waits for input knows the tier; a handler at work knows its *)
(* user and tier, and its reservation where one is needed.                 *)
Known ==
    /\ \A u \in Users : chat[u].state # "none" => chat[u].tier \in Tiers
    /\ \A h \in Handlers :
          /\ job[h].pc # "idle" => job[h].user \in Users /\ job[h].tier \in Tiers
          /\ job[h].pc \in {"remember", "activate"} => job[h].usage # None

Inv == Shapes /\ Known /\ OwnReservation

(* Reservations are never removed and never change hands.                  *)
Kept ==
    \A i \in UsageIds :
        usages[i] # None => usages'[i] # None /\ usages'[i].user = usages[i].user

LEMMA HoldsKept ==
    ASSUME Kept, NEW u, NEW i \in UsageIds \cup {None}, Holds(u, i)
    PROVE  Holds(u, i)'
  BY DEF Kept, Holds

LEMMA IdleJob == Idle \in Job /\ Idle.pc = "idle" /\ Idle.usage = None
  BY DEF Idle, Job

(* A step that changes what one handler is working on, and keeps the rest. *)
LEMMA JobStep ==
    ASSUME Inv, NEW h \in Handlers, NEW j \in Job,
           job' = [job EXCEPT ![h] = j],
           Kept, usages' \in [UsageIds -> PromoCodeUsage \cup {None}],
           Holds(j.user, j.usage)',
           j.pc # "idle" => j.user \in Users /\ j.tier \in Tiers,
           j.pc \in {"remember", "activate"} => j.usage # None
    PROVE  /\ job' \in [Handlers -> Job]
           /\ \A k \in Handlers :
                 /\ job'[k].pc # "idle" => job'[k].user \in Users /\ job'[k].tier \in Tiers
                 /\ job'[k].pc \in {"remember", "activate"} => job'[k].usage # None
                 /\ Holds(job[k].user, job[k].usage)'
  <1>1. job' \in [Handlers -> Job]
    BY DEF Inv, Shapes
  <1>2. ASSUME NEW k \in Handlers
        PROVE  /\ job'[k].pc # "idle" => job'[k].user \in Users /\ job'[k].tier \in Tiers
               /\ job'[k].pc \in {"remember", "activate"} => job'[k].usage # None
               /\ Holds(job[k].user, job[k].usage)'
    <2>1. CASE k = h
      BY <2>1 DEF Inv, Shapes, Holds
    <2>2. CASE k # h
      <3>1. job'[k] = job[k] /\ job[k].usage \in UsageIds \cup {None}
        BY <2>2 DEF Inv, Shapes, Job
      <3>2. Holds(job[k].user, job[k].usage)
        BY DEF Inv, OwnReservation
      <3> QED
        BY <3>1, <3>2, HoldsKept DEF Inv, Known, Holds
    <2> QED
      BY <2>1, <2>2
  <1> QED
    BY <1>1, <1>2

(* The parts of Inv about chats and about orders survive, if those do.     *)
LEMMA ChatsKept ==
    ASSUME Inv, Kept, UNCHANGED chat
    PROVE  /\ chat' \in [Users -> Chat]
           /\ \A u \in Users : /\ chat'[u].state # "none" => chat'[u].tier \in Tiers
                               /\ Holds(u, chat[u].usage)'
  BY DEF Inv, Shapes, Known, OwnReservation, Chat, Holds, Kept

LEMMA OrdersKept ==
    ASSUME Inv, Kept, UNCHANGED orders
    PROVE  /\ orders' \in [OrderIds -> Order \cup {None}]
           /\ \A o \in OrderIds : orders'[o] # None => Holds(orders[o].user, orders[o].usage)'
  BY DEF Inv, Shapes, OwnReservation, Order, Holds, Kept

LEMMA JobsKept ==
    ASSUME Inv, Kept, UNCHANGED job
    PROVE  /\ job' \in [Handlers -> Job]
           /\ \A h \in Handlers :
                 /\ job'[h].pc # "idle" => job'[h].user \in Users /\ job'[h].tier \in Tiers
                 /\ job'[h].pc \in {"remember", "activate"} => job'[h].usage # None
                 /\ Holds(job[h].user, job[h].usage)'
  BY DEF Inv, Shapes, Known, OwnReservation, Job, Holds, Kept

(* What one user's chat remembers changes.                                 *)
LEMMA ChatStep ==
    ASSUME Inv, Kept, NEW u \in Users, NEW c \in Chat, chat' = [chat EXCEPT ![u] = c],
           c.state # "none" => c.tier \in Tiers, Holds(u, c.usage)'
    PROVE  /\ chat' \in [Users -> Chat]
           /\ \A v \in Users : /\ chat'[v].state # "none" => chat'[v].tier \in Tiers
                               /\ Holds(v, chat[v].usage)'
  <1>1. chat' \in [Users -> Chat]
    BY DEF Inv, Shapes
  <1>2. ASSUME NEW v \in Users
        PROVE  /\ chat'[v].state # "none" => chat'[v].tier \in Tiers
               /\ Holds(v, chat[v].usage)'
    <2>1. CASE v = u
      BY <2>1 DEF Inv, Shapes, Holds
    <2>2. CASE v # u
      <3>1. chat'[v] = chat[v] /\ chat[v].usage \in UsageIds \cup {None}
        BY <2>2 DEF Inv, Shapes, Chat
      <3>2. Holds(v, chat[v].usage)
        BY DEF Inv, OwnReservation
      <3> QED
        BY <3>1, <3>2, HoldsKept DEF Inv, Known, Holds
    <2> QED
      BY <2>1, <2>2
  <1> QED
    BY <1>1, <1>2

(* A new order, or a new status of one, for a reservation of its user.     *)
LEMMA OrderStep ==
    ASSUME Inv, Kept, NEW o \in OrderIds, NEW row \in Order,
           orders' = [orders EXCEPT ![o] = row], Holds(row.user, row.usage)'
    PROVE  /\ orders' \in [OrderIds -> Order \cup {None}]
           /\ \A p \in OrderIds : orders'[p] # None => Holds(orders[p].user, orders[p].usage)'
  <1>1. orders' \in [OrderIds -> Order \cup {None}]
    BY DEF Inv, Shapes
  <1>2. ASSUME NEW p \in OrderIds, orders'[p] # None
        PROVE  Holds(orders[p].user, orders[p].usage)'
    <2>1. CASE p = o
      BY <2>1 DEF Inv, Shapes, Holds
    <2>2. CASE p # o
      <3>1. orders'[p] = orders[p] /\ orders[p].usage \in UsageIds \cup {None}
        BY <1>2, <2>2 DEF Inv, Shapes, Order
      <3>2. Holds(orders[p].user, orders[p].usage)
        BY <1>2, <3>1 DEF Inv, OwnReservation
      <3> QED
        BY <3>1, <3>2, HoldsKept DEF Holds
    <2> QED
      BY <2>1, <2>2
  <1> QED
    BY <1>1, <1>2

(* Writing a reservation: a status, its age.                               *)
LEMMA ConfirmKeeps ==
    ASSUME Inv, NEW i \in UsageIds, usages[i] # None, ConfirmUsage(i)
    PROVE  Kept /\ usages' \in [UsageIds -> PromoCodeUsage \cup {None}]
  <1> DEFINE row == [usages[i] EXCEPT !.status = "APPLIED"]
  <1>1. usages[i] \in PromoCodeUsage
    BY DEF Inv, Shapes
  <1>2. row \in PromoCodeUsage /\ row.user = usages[i].user /\ row # None
    BY <1>1, NoneAssumption DEF PromoCodeUsage
  <1>3. usages' = [usages EXCEPT ![i] = row]
    BY DEF ConfirmUsage
  <1> HIDE DEF row
  <1> QED
    BY <1>2, <1>3 DEF Kept, Inv, Shapes

LEMMA SameUsages == Inv /\ UNCHANGED usages => Kept /\ Shapes
  BY DEF Inv, Kept

(* The chat of a user and the handlers that read it.                       *)
LEMMA ChattingKeepsInv ==
    ASSUME Inv, NEW h \in Handlers, NEW u \in Users,
           \/ HandlePromoCodeInput(h, u) \/ HandlePaymentEmailInput(h, u)
           \/ \E t \in Tiers : HandlePaymentConfirmation(h, u, t)
    PROVE  Inv'
  <1>1. Kept /\ usages' \in [UsageIds -> PromoCodeUsage \cup {None}]
    BY SameUsages DEF HandlePromoCodeInput, HandlePaymentEmailInput,
                      HandlePaymentConfirmation, Shapes
  <1>2. UNCHANGED <<chat, orders, usages>>
    BY DEF HandlePromoCodeInput, HandlePaymentEmailInput, HandlePaymentConfirmation
  <1>3. chat[u] \in Chat /\ Holds(u, chat[u].usage)
    BY DEF Inv, Shapes, OwnReservation
  <1>4. PICK j \in Job : /\ job' = [job EXCEPT ![h] = j]
                         /\ j.user \in Users /\ j.tier \in Tiers
                         /\ j.pc \in {"reserve", "clear", "receipt"}
                         /\ Holds(j.user, j.usage)
    <2>1. CASE HandlePromoCodeInput(h, u)
      <3> DEFINE j == [Idle EXCEPT !.pc = "reserve", !.user = u, !.tier = chat[u].tier]
      <3>1. chat[u].tier \in Tiers
        BY <2>1 DEF HandlePromoCodeInput, Inv, Known
      <3>2. j \in Job /\ j.user = u /\ j.tier = chat[u].tier /\ j.pc = "reserve" /\ j.usage = None
        BY <3>1, IdleJob DEF Idle, Job
      <3> QED
        BY <2>1, <3>1, <3>2 DEF HandlePromoCodeInput, Holds
    <2>2. CASE HandlePaymentEmailInput(h, u)
      <3> DEFINE j == [pc |-> "receipt", user |-> u, tier |-> chat[u].tier,
                       usage |-> chat[u].usage, final |-> None]
      <3>1. chat[u].tier \in Tiers
        BY <2>2 DEF HandlePaymentEmailInput, Inv, Known
      <3>2. j \in Job
        BY <1>3, <3>1 DEF Chat, Job
      <3> QED
        BY <1>3, <2>2, <3>1, <3>2 DEF HandlePaymentEmailInput
    <2>3. CASE \E t \in Tiers : HandlePaymentConfirmation(h, u, t)
      <3> PICK t \in Tiers : HandlePaymentConfirmation(h, u, t)
        BY <2>3
      <3> DEFINE j == [pc |-> "clear", user |-> u, tier |-> t,
                       usage |-> chat[u].usage, final |-> chat[u].final]
      <3>1. j \in Job
        BY <1>3 DEF Chat, Job
      <3> QED
        BY <1>3, <2>3, <3>1 DEF HandlePaymentConfirmation
    <2> QED
      BY <2>1, <2>2, <2>3
  <1>5. Holds(j.user, j.usage)'
    BY <1>1, <1>4, HoldsKept DEF Job
  <1>6. j.pc \notin {"remember", "activate"}
    BY <1>4
  <1> QED
    BY <1>1, <1>2, <1>4, <1>5, <1>6, JobStep, ChatsKept, OrdersKept
       DEF Inv, Shapes, Known, OwnReservation

LEMMA ReserveKeepsInv ==
    ASSUME Inv, NEW h \in Handlers, ReserveUsage(h)
    PROVE  Inv'
  <1>1. PICK j \in Job : j = job[h] /\ j.user \in Users /\ j.tier \in Tiers
    BY DEF Inv, Shapes, Known, ReserveUsage
  <1>2. PICK i \in UsageIds :
           /\ usages[i] = None
           /\ usages' = [usages EXCEPT ![i] =
                [user |-> j.user, tier |-> j.tier, status |-> "RESERVED", fresh |-> TRUE]]
           /\ job' = [job EXCEPT ![h].pc = "remember", ![h].usage = i]
    BY <1>1 DEF ReserveUsage, FreeUsage, Smallest
  <1> DEFINE row == [user |-> j.user, tier |-> j.tier, status |-> "RESERVED", fresh |-> TRUE]
             next == [j EXCEPT !.pc = "remember", !.usage = i]
  <1>3. row \in PromoCodeUsage /\ row.user = j.user
    BY <1>1 DEF PromoCodeUsage
  <1>4. next \in Job /\ next.user = j.user /\ next.usage = i /\ next.tier = j.tier
    BY <1>1 DEF Job
  <1>5. usages' = [usages EXCEPT ![i] = row] /\ job' = [job EXCEPT ![h] = next]
    BY <1>1, <1>2 DEF Inv, Shapes
  <1> HIDE DEF row, next
  <1>6. row # None
    BY <1>3, NoneAssumption
  <1>7. Kept /\ usages' \in [UsageIds -> PromoCodeUsage \cup {None}] /\ usages'[i] = row
    BY <1>2, <1>3, <1>5 DEF Kept, Inv, Shapes
  <1>8. Holds(next.user, next.usage)' /\ next.usage # None
    BY <1>3, <1>4, <1>6, <1>7, NoneAssumption DEF Holds, UsageIds
  <1>9. UNCHANGED <<chat, orders>>
    BY DEF ReserveUsage
  <1> QED
    BY <1>1, <1>4, <1>5, <1>7, <1>8, <1>9, JobStep, ChatsKept, OrdersKept
       DEF Inv, Shapes, Known, OwnReservation

(* A handler goes back to rest, or on with what it knows.                  *)
LEMMA JobEnds ==
    ASSUME Inv, NEW h \in Handlers, Kept, job' = [job EXCEPT ![h] = Idle],
           usages' \in [UsageIds -> PromoCodeUsage \cup {None}]
    PROVE  /\ job' \in [Handlers -> Job]
           /\ \A k \in Handlers :
                 /\ job'[k].pc # "idle" => job'[k].user \in Users /\ job'[k].tier \in Tiers
                 /\ job'[k].pc \in {"remember", "activate"} => job'[k].usage # None
                 /\ Holds(job[k].user, job[k].usage)'
  <1>1. PICK j \in Job : j = Idle /\ j.usage = None /\ j.pc = "idle"
    BY IdleJob
  <1>2. Holds(j.user, j.usage)'
    BY <1>1 DEF Holds
  <1> QED
    BY <1>1, <1>2, JobStep

LEMMA JobMoves ==
    ASSUME Inv, NEW h \in Handlers, NEW pc \in {"route", "activate", "pay"},
           job[h].pc # "idle", pc = "activate" => job[h].usage # None,
           job' = [job EXCEPT ![h].pc = pc], UNCHANGED usages
    PROVE  /\ job' \in [Handlers -> Job]
           /\ \A k \in Handlers :
                 /\ job'[k].pc # "idle" => job'[k].user \in Users /\ job'[k].tier \in Tiers
                 /\ job'[k].pc \in {"remember", "activate"} => job'[k].usage # None
                 /\ Holds(job[k].user, job[k].usage)'
  <1>1. PICK old \in Job : old = job[h]
    BY DEF Inv, Shapes
  <1> DEFINE j == [old EXCEPT !.pc = pc]
  <1>2. j \in Job /\ j.user = old.user /\ j.tier = old.tier /\ j.usage = old.usage /\ j.pc = pc
    BY <1>1 DEF Job
  <1>3. job' = [job EXCEPT ![h] = j]
    BY <1>1 DEF Inv, Shapes
  <1> HIDE DEF j
  <1>4. Holds(j.user, j.usage)'
    BY <1>1, <1>2 DEF Inv, OwnReservation, Holds
  <1>5. Kept /\ usages' \in [UsageIds -> PromoCodeUsage \cup {None}]
    BY SameUsages DEF Shapes
  <1>6. j.user \in Users /\ j.tier \in Tiers
    BY <1>1, <1>2 DEF Inv, Known
  <1>7. j.pc \in {"remember", "activate"} => j.usage # None
    BY <1>1, <1>2
  <1> QED
    BY <1>2, <1>3, <1>4, <1>5, <1>6, <1>7, JobStep

LEMMA RememberKeepsInv ==
    ASSUME Inv, NEW h \in Handlers, RememberUsage(h)
    PROVE  Inv'
  <1>1. PICK j \in Job : /\ j = job[h] /\ j.user \in Users /\ j.tier \in Tiers
                         /\ Holds(j.user, j.usage)
    BY DEF Inv, Shapes, Known, OwnReservation, RememberUsage
  <1>2. Kept /\ usages' \in [UsageIds -> PromoCodeUsage \cup {None}] /\ UNCHANGED <<usages, orders>>
    BY SameUsages DEF RememberUsage, Shapes
  <1>3. PICK c \in Chat : c = chat[j.user] /\ (c.state # "none" => c.tier \in Tiers)
    BY <1>1 DEF Inv, Shapes, Known
  <1> DEFINE new == [c EXCEPT !.usage = j.usage, !.final = FinalAmount(j.tier)]
  <1>4. FinalAmount(j.tier) \in {"rest", "0.00", "0"}
    <2>1. Remainder[j.tier] \in {"above", "zero", "below"}
      BY <1>1, PromoAssumption
    <2> QED
      BY <2>1 DEF FinalAmount
  <1>5. new \in Chat /\ new.state = c.state /\ new.tier = c.tier /\ new.usage = j.usage
    BY <1>1, <1>3, <1>4 DEF Chat, Job
  <1>6. chat' = [chat EXCEPT ![j.user] = new]
    BY <1>1, <1>3 DEF RememberUsage, Inv, Shapes
  <1> HIDE DEF new
  <1>7. Holds(j.user, new.usage)'
    BY <1>1, <1>2, <1>5 DEF Holds
  <1>8. job' = [job EXCEPT ![h] = Idle]
    BY DEF RememberUsage
  <1> QED
    BY <1>1, <1>2, <1>3, <1>5, <1>6, <1>7, <1>8, ChatStep, JobEnds, OrdersKept
       DEF Inv, Shapes, Known, OwnReservation

LEMMA ClearKeepsInv ==
    ASSUME Inv, NEW h \in Handlers, ClearState(h)
    PROVE  Inv'
  <1>1. Kept /\ usages' \in [UsageIds -> PromoCodeUsage \cup {None}] /\ UNCHANGED <<usages, orders>>
    BY SameUsages DEF ClearState, Shapes
  <1>2. PICK u \in Users : u = job[h].user
    BY DEF Inv, Shapes, Known, ClearState
  <1>3. PICK c \in Chat : c = Cleared /\ c.state = "none" /\ c.usage = None
    <2>1. Cleared \in Chat /\ Cleared.state = "none" /\ Cleared.usage = None
      BY DEF Cleared, Chat
    <2> QED
      BY <2>1
  <1>4. Holds(u, c.usage)'
    BY <1>3 DEF Holds
  <1>5. PICK pc \in {"route", "activate", "pay"} :
           /\ job' = [job EXCEPT ![h].pc = pc] /\ job[h].pc # "idle"
           /\ pc = "activate" => job[h].usage # None
    BY DEF ClearState, Continue, NothingToPay
  <1>6. chat' = [chat EXCEPT ![u] = c]
    BY <1>2, <1>3 DEF ClearState
  <1> QED
    BY <1>1, <1>3, <1>4, <1>5, <1>6, ChatStep, JobMoves, OrdersKept
       DEF Inv, Shapes, Known, OwnReservation

LEMMA AskKeepsInv ==
    ASSUME Inv, NEW h \in Handlers, AskForEmail(h)
    PROVE  Inv'
  <1>1. Kept /\ usages' \in [UsageIds -> PromoCodeUsage \cup {None}]
        /\ UNCHANGED <<usages, orders>>
    BY SameUsages DEF AskForEmail, Shapes
  <1>2. PICK j \in Job : /\ j = job[h] /\ j.user \in Users /\ j.tier \in Tiers
                         /\ Holds(j.user, j.usage)
    BY DEF Inv, Shapes, Known, OwnReservation, AskForEmail
  <1> DEFINE c == [state |-> "waiting_for_email", tier |-> j.tier,
                   usage |-> j.usage, final |-> None]
  <1>3. c \in Chat /\ c.tier \in Tiers /\ c.usage = j.usage
    BY <1>2 DEF Chat, Job
  <1>4. chat' = [chat EXCEPT ![j.user] = c] /\ job' = [job EXCEPT ![h] = Idle]
    BY <1>2 DEF AskForEmail
  <1> HIDE DEF c
  <1>5. Holds(j.user, c.usage)'
    BY <1>1, <1>2, <1>3 DEF Holds
  <1> QED
    BY <1>1, <1>2, <1>3, <1>4, <1>5, ChatStep, JobEnds, OrdersKept
       DEF Inv, Shapes, Known, OwnReservation

LEMMA ActivateKeepsInv ==
    ASSUME Inv, NEW h \in Handlers, Activate(h)
    PROVE  Inv'
  <1>1. PICK j \in Job : /\ j = job[h] /\ j.user \in Users /\ j.tier \in Tiers
                         /\ j.usage \in UsageIds /\ usages[j.usage] # None
                         /\ usages[j.usage].user = j.user
    BY DEF Inv, Shapes, Known, OwnReservation, Activate, Holds, Job
  <1>2. Kept /\ usages' \in [UsageIds -> PromoCodeUsage \cup {None}]
    BY <1>1, ConfirmKeeps DEF Activate
  <1> DEFINE row == [usage |-> j.usage, user |-> j.user, tier |-> j.tier,
                     free |-> TRUE, status |-> "SUCCEEDED"]
  <1>3. PICK o \in OrderIds : orders' = [orders EXCEPT ![o] = row]
    BY <1>1 DEF Activate, FreeOrder, Smallest
  <1>4. row \in Order /\ row.user = j.user /\ row.usage = j.usage
    BY <1>1 DEF Order
  <1> HIDE DEF row
  <1>5. Holds(row.user, row.usage)'
    BY <1>1, <1>2, <1>4 DEF Holds, Kept
  <1>6. job' = [job EXCEPT ![h] = Idle] /\ UNCHANGED chat
    BY DEF Activate
  <1> QED
    BY <1>2, <1>3, <1>4, <1>5, <1>6, OrderStep, JobEnds, ChatsKept
       DEF Inv, Shapes, Known, OwnReservation

LEMMA CreatePaymentKeepsInv ==
    ASSUME Inv, NEW h \in Handlers, CreatePayment(h)
    PROVE  Inv'
  <1>1. Kept /\ usages' \in [UsageIds -> PromoCodeUsage \cup {None}]
        /\ job' = [job EXCEPT ![h] = Idle] /\ UNCHANGED <<usages, chat>>
    BY SameUsages DEF CreatePayment, Shapes
  <1>2. CASE UNCHANGED orders
    BY <1>1, <1>2, JobEnds, ChatsKept, OrdersKept DEF Inv, Shapes, Known, OwnReservation
  <1>3. CASE job[h].usage # None
    <2>1. PICK j \in Job : /\ j = job[h] /\ j.user \in Users /\ j.tier \in Tiers
                           /\ j.usage \in UsageIds /\ Holds(j.user, j.usage)
      BY <1>3 DEF Inv, Shapes, Known, OwnReservation, CreatePayment, Job
    <2> DEFINE row == [usage |-> j.usage, user |-> j.user, tier |-> j.tier,
                       free |-> FALSE, status |-> "PENDING"]
    <2>2. PICK o \in OrderIds : orders' = [orders EXCEPT ![o] = row]
      BY <1>3, <2>1 DEF CreatePayment, FreeOrder, Smallest
    <2>3. row \in Order /\ row.user = j.user /\ row.usage = j.usage
      BY <2>1 DEF Order
    <2> HIDE DEF row
    <2>4. Holds(row.user, row.usage)'
      BY <1>1, <2>1, <2>3 DEF Holds
    <2> QED
      BY <1>1, <2>2, <2>3, <2>4, OrderStep, JobEnds, ChatsKept
         DEF Inv, Shapes, Known, OwnReservation
  <1> QED
    BY <1>2, <1>3 DEF CreatePayment

(* A payment gets its final status.                                        *)
LEMMA PaymentKeepsInv ==
    ASSUME Inv, NEW o \in OrderIds, PaymentSucceeds(o) \/ PaymentCanceled(o)
    PROVE  Inv'
  <1>1. PICK old \in Order : /\ old = orders[o] /\ old.usage \in UsageIds
                             /\ Holds(old.user, old.usage)
    BY DEF Inv, Shapes, OwnReservation, PaymentSucceeds, PaymentCanceled, Order
  <1>2. usages[old.usage] # None /\ usages[old.usage].user = old.user
    BY <1>1, NoneAssumption DEF Holds, UsageIds
  <1>3. Kept /\ usages' \in [UsageIds -> PromoCodeUsage \cup {None}]
    <2>1. CASE PaymentSucceeds(o)
      BY <1>1, <1>2, <2>1, ConfirmKeeps DEF PaymentSucceeds
    <2>2. CASE PaymentCanceled(o)
      BY <2>2, SameUsages DEF PaymentCanceled, Shapes
    <2> QED
      BY <2>1, <2>2
  <1>4. PICK status \in {"SUCCEEDED", "CANCELLED"} :
           orders' = [orders EXCEPT ![o].status = status]
    BY DEF PaymentSucceeds, PaymentCanceled
  <1> DEFINE row == [old EXCEPT !.status = status]
  <1>5. row \in Order /\ row.user = old.user /\ row.usage = old.usage
    BY <1>1 DEF Order
  <1>6. orders' = [orders EXCEPT ![o] = row]
    BY <1>1, <1>4 DEF Inv, Shapes
  <1> HIDE DEF row
  <1>7. Holds(row.user, row.usage)'
    BY <1>1, <1>2, <1>3, <1>5 DEF Holds, Kept
  <1>8. UNCHANGED <<chat, job>>
    BY DEF PaymentSucceeds, PaymentCanceled
  <1> QED
    BY <1>3, <1>5, <1>6, <1>7, <1>8, OrderStep, JobsKept, ChatsKept
       DEF Inv, Shapes, Known, OwnReservation

(* Steps that leave chats, handlers and orders alone.                      *)
LEMMA ExpiresKeepsInv ==
    ASSUME Inv, NEW i \in UsageIds, ReservationExpires(i)
    PROVE  Inv'
  <1> DEFINE row == [usages[i] EXCEPT !.fresh = FALSE]
  <1>1. usages[i] \in PromoCodeUsage
    BY DEF Inv, Shapes, ReservationExpires
  <1>2. row \in PromoCodeUsage /\ row.user = usages[i].user
    BY <1>1 DEF PromoCodeUsage
  <1>3. usages' = [usages EXCEPT ![i] = row]
    BY DEF ReservationExpires
  <1> HIDE DEF row
  <1>4. row # None
    BY <1>2, NoneAssumption
  <1>5. Kept /\ usages' \in [UsageIds -> PromoCodeUsage \cup {None}]
    BY <1>2, <1>3, <1>4 DEF Kept, Inv, Shapes
  <1>6. UNCHANGED <<chat, job, orders>>
    BY DEF ReservationExpires
  <1> QED
    BY <1>5, <1>6, ChatsKept, JobsKept, OrdersKept DEF Inv, Shapes, Known, OwnReservation

LEMMA InitiationKeepsInv ==
    ASSUME Inv, NEW u \in Users, NEW t \in Tiers, HandlePaymentInitiation(u, t)
    PROVE  Inv'
  <1>1. Kept /\ usages' \in [UsageIds -> PromoCodeUsage \cup {None}]
        /\ UNCHANGED <<usages, job, orders>>
    BY SameUsages DEF HandlePaymentInitiation, Shapes
  <1>2. PICK old \in Chat : old = chat[u] /\ Holds(u, old.usage)
    BY DEF Inv, Shapes, OwnReservation
  <1> DEFINE c == [old EXCEPT !.state = "waiting_for_promo_code", !.tier = t]
  <1>3. c \in Chat /\ c.tier = t /\ c.usage = old.usage
    BY <1>2 DEF Chat
  <1>4. chat' = [chat EXCEPT ![u] = c]
    BY <1>2 DEF HandlePaymentInitiation, Inv, Shapes
  <1> HIDE DEF c
  <1>5. Holds(u, c.usage)'
    BY <1>1, <1>2, <1>3 DEF Holds
  <1> QED
    BY <1>1, <1>3, <1>4, <1>5, ChatStep, JobsKept, OrdersKept
       DEF Inv, Shapes, Known, OwnReservation

LEMMA FailKeepsInv ==
    ASSUME Inv, NEW h \in Handlers, Fail(h)
    PROVE  Inv'
  <1>1. Kept /\ usages' \in [UsageIds -> PromoCodeUsage \cup {None}]
        /\ job' = [job EXCEPT ![h] = Idle] /\ UNCHANGED <<chat, orders>>
    BY SameUsages DEF Fail, Shapes
  <1> QED
    BY <1>1, JobEnds, ChatsKept, OrdersKept DEF Inv, Shapes, Known, OwnReservation

LEMMA InvInit == Init => Inv
  <1> SUFFICES ASSUME Init PROVE Inv
    OBVIOUS
  <1>1. Shapes
    BY IdleJob DEF Init, Shapes, Cleared, Chat
  <1>2. Known /\ OwnReservation
    BY IdleJob DEF Init, Known, OwnReservation, Cleared, Holds
  <1> QED
    BY <1>1, <1>2 DEF Inv

LEMMA InvStep == Inv /\ [Next]_vars => Inv'
  <1> SUFFICES ASSUME Inv, [Next]_vars PROVE Inv'
    OBVIOUS
  <1>1. ASSUME NEW h \in Handlers, Chatting(h)
        PROVE  Inv'
    BY <1>1, ChattingKeepsInv, ReserveKeepsInv, RememberKeepsInv, ClearKeepsInv,
       AskKeepsInv, ActivateKeepsInv, CreatePaymentKeepsInv, FailKeepsInv
       DEF Chatting
  <1>2. CASE Toggle \/ UNCHANGED vars
    <2>1. UNCHANGED <<usages, chat, job, orders>>
      BY <1>2 DEF Toggle, vars
    <2>2. Kept /\ usages' \in [UsageIds -> PromoCodeUsage \cup {None}]
      BY <2>1, SameUsages DEF Shapes
    <2> QED
      BY <2>1, <2>2, ChatsKept, JobsKept, OrdersKept DEF Inv, Shapes, Known, OwnReservation
  <1> QED
    BY <1>1, <1>2, InitiationKeepsInv, PaymentKeepsInv, ExpiresKeepsInv DEF Next

(* Whatever updates overlap, fail between PostgreSQL and Redis, or come    *)
(* from an old button: no handler, chat or payment ever works with         *)
(* somebody else's reservation.                                            *)
THEOREM ReservationsAreOwn == Spec => []OwnReservation
  <1>1. Inv => OwnReservation
    BY DEF Inv
  <1> QED
    BY <1>1, InvInit, InvStep, PTL DEF Spec

-----------------------------------------------------------------------------
(***************************************************************************)
(* The counter of the code: it is the number of orders that went through.  *)
(***************************************************************************)
Sold(rows) == {o \in OrderIds : rows[o] # None /\ rows[o].status = "SUCCEEDED"}
Counted == active \in BOOLEAN /\ usedCount = Cardinality(Sold(orders))

LEMMA SoldIsBounded ==
    ASSUME NEW rows
    PROVE  IsFiniteSet(Sold(rows)) /\ Cardinality(Sold(rows)) \in 0..MaxOrders
  <1>1. MaxOrders \in Nat
    BY BoundsAssumption
  <1>2. IsFiniteSet(OrderIds) /\ Cardinality(OrderIds) = MaxOrders
    BY <1>1, FS_Interval DEF OrderIds
  <1>3. Sold(rows) \subseteq OrderIds
    BY DEF Sold
  <1>4. IsFiniteSet(Sold(rows)) /\ Cardinality(Sold(rows)) <= Cardinality(OrderIds)
    BY <1>2, <1>3, FS_Subset
  <1>5. Cardinality(Sold(rows)) \in Nat
    BY <1>4, FS_CardinalityType
  <1> QED
    BY <1>1, <1>2, <1>4, <1>5

(* An order goes through, or is written without going through.             *)
LEMMA SoldStep ==
    ASSUME NEW rows \in [OrderIds -> Order \cup {None}], NEW o \in OrderIds,
           o \notin Sold(rows), NEW row \in Order
    PROVE  LET after == [rows EXCEPT ![o] = row]
           IN  IF row.status = "SUCCEEDED"
               THEN Cardinality(Sold(after)) = Cardinality(Sold(rows)) + 1
               ELSE Sold(after) = Sold(rows)
  <1> DEFINE after == [rows EXCEPT ![o] = row]
  <1>1. after[o] = row /\ \A p \in OrderIds \ {o} : after[p] = rows[p]
    OBVIOUS
  <1>2. row # None
    BY NoneAssumption
  <1> HIDE DEF after
  <1>3. ASSUME row.status = "SUCCEEDED"
        PROVE  Cardinality(Sold(after)) = Cardinality(Sold(rows)) + 1
    <2>1. Sold(after) = Sold(rows) \cup {o}
      BY <1>1, <1>2, <1>3 DEF Sold
    <2>2. IsFiniteSet(Sold(rows))
      BY SoldIsBounded
    <2> QED
      BY <2>1, <2>2, FS_AddElement
  <1>4. ASSUME row.status # "SUCCEEDED"
        PROVE  Sold(after) = Sold(rows)
    BY <1>1, <1>2, <1>4 DEF Sold
  <1> QED
    BY <1>3, <1>4 DEF after

LEMMA CountedInit == Init => Counted
  <1> SUFFICES ASSUME Init PROVE Counted
    OBVIOUS
  <1>1. Sold(orders) = {}
    BY DEF Init, Sold
  <1> QED
    BY <1>1, FS_EmptySet DEF Init, Counted

LEMMA ActivateCounts ==
    ASSUME Inv, Counted, NEW h \in Handlers, Activate(h)
    PROVE  Counted'
  <1>1. PICK j \in Job : /\ j = job[h] /\ j.user \in Users /\ j.tier \in Tiers
                         /\ j.usage \in UsageIds
    BY DEF Inv, Shapes, Known, Activate, Job
  <1> DEFINE row == [usage |-> j.usage, user |-> j.user, tier |-> j.tier,
                     free |-> TRUE, status |-> "SUCCEEDED"]
  <1>2. PICK o \in OrderIds : orders[o] = None /\ orders' = [orders EXCEPT ![o] = row]
    BY <1>1 DEF Activate, FreeOrder, Smallest
  <1>3. row \in Order /\ row.status = "SUCCEEDED"
    BY <1>1 DEF Order
  <1>4. o \notin Sold(orders)
    BY <1>2 DEF Sold
  <1> HIDE DEF row
  <1>5. Cardinality(Sold(orders')) = Cardinality(Sold(orders)) + 1
    BY <1>2, <1>3, <1>4, SoldStep DEF Inv, Shapes
  <1> QED
    BY <1>5 DEF Activate, ConfirmUsage, Counted

LEMMA CreatePaymentCounts ==
    ASSUME Inv, Counted, NEW h \in Handlers, CreatePayment(h)
    PROVE  Counted'
  <1>1. UNCHANGED <<active, usedCount>>
    BY DEF CreatePayment
  <1>2. CASE UNCHANGED orders
    BY <1>1, <1>2 DEF Counted
  <1>3. CASE job[h].usage # None /\ ~UNCHANGED orders
    <2>1. PICK j \in Job : /\ j = job[h] /\ j.user \in Users /\ j.tier \in Tiers
                           /\ j.usage \in UsageIds
      BY <1>3 DEF Inv, Shapes, Known, CreatePayment, Job
    <2> DEFINE row == [usage |-> j.usage, user |-> j.user, tier |-> j.tier,
                       free |-> FALSE, status |-> "PENDING"]
    <2>2. PICK o \in OrderIds : orders[o] = None /\ orders' = [orders EXCEPT ![o] = row]
      BY <1>3, <2>1 DEF CreatePayment, FreeOrder, Smallest
    <2>3. row \in Order /\ row.status # "SUCCEEDED"
      BY <2>1 DEF Order
    <2>4. o \notin Sold(orders)
      BY <2>2 DEF Sold
    <2> HIDE DEF row
    <2>5. Sold(orders') = Sold(orders)
      BY <2>2, <2>3, <2>4, SoldStep DEF Inv, Shapes
    <2> QED
      BY <1>1, <2>5 DEF Counted
  <1> QED
    BY <1>2, <1>3 DEF CreatePayment

LEMMA PaymentCounts ==
    ASSUME Inv, Counted, NEW o \in OrderIds, PaymentSucceeds(o) \/ PaymentCanceled(o)
    PROVE  Counted'
  <1>1. PICK old \in Order : old = orders[o] /\ old.status = "PENDING"
    BY DEF Inv, Shapes, PaymentSucceeds, PaymentCanceled
  <1>2. o \notin Sold(orders)
    BY <1>1 DEF Sold
  <1>3. CASE PaymentSucceeds(o)
    <2> DEFINE row == [old EXCEPT !.status = "SUCCEEDED"]
    <2>1. row \in Order /\ row.status = "SUCCEEDED" /\ orders' = [orders EXCEPT ![o] = row]
      BY <1>1, <1>3 DEF Order, PaymentSucceeds, Inv, Shapes
    <2> HIDE DEF row
    <2>2. Cardinality(Sold(orders')) = Cardinality(Sold(orders)) + 1
      BY <1>2, <2>1, SoldStep DEF Inv, Shapes
    <2> QED
      BY <1>3, <2>2 DEF PaymentSucceeds, ConfirmUsage, Counted
  <1>4. CASE PaymentCanceled(o)
    <2> DEFINE row == [old EXCEPT !.status = "CANCELLED"]
    <2>1. row \in Order /\ row.status # "SUCCEEDED" /\ orders' = [orders EXCEPT ![o] = row]
      BY <1>1, <1>4 DEF Order, PaymentCanceled, Inv, Shapes
    <2> HIDE DEF row
    <2>2. Sold(orders') = Sold(orders)
      BY <1>2, <2>1, SoldStep DEF Inv, Shapes
    <2> QED
      BY <1>4, <2>2 DEF PaymentCanceled, Counted
  <1> QED
    BY <1>3, <1>4

LEMMA CountedStep == Inv /\ Counted /\ [Next]_vars => Counted'
  <1> SUFFICES ASSUME Inv, Counted, [Next]_vars PROVE Counted'
    OBVIOUS
  <1>1. ASSUME UNCHANGED <<usedCount, orders>>, active' \in BOOLEAN
        PROVE  Counted'
    BY <1>1 DEF Counted
  <1>2. ASSUME NEW h \in Handlers, Chatting(h)
        PROVE  Counted'
    <2>1. CASE Activate(h) \/ CreatePayment(h)
      BY <2>1, ActivateCounts, CreatePaymentCounts
    <2>2. CASE ~(Activate(h) \/ CreatePayment(h))
      <3>1. UNCHANGED <<active, usedCount, orders>>
        BY <1>2, <2>2 DEF Chatting, HandlePromoCodeInput, HandlePaymentEmailInput,
           HandlePaymentConfirmation, ReserveUsage, RememberUsage, ClearState,
           AskForEmail, Fail
      <3> QED
        BY <1>1, <3>1 DEF Counted
    <2> QED
      BY <2>1, <2>2
  <1>3. ASSUME NEW u \in Users, NEW t \in Tiers, HandlePaymentInitiation(u, t)
        PROVE  Counted'
    BY <1>1, <1>3 DEF HandlePaymentInitiation, Counted
  <1>4. ASSUME NEW i \in UsageIds, ReservationExpires(i)
        PROVE  Counted'
    BY <1>1, <1>4 DEF ReservationExpires, Counted
  <1>5. CASE Toggle \/ UNCHANGED vars
    BY <1>1, <1>5 DEF Toggle, vars, Counted
  <1> QED
    BY <1>2, <1>3, <1>4, <1>5, PaymentCounts DEF Next

(* Rows, chats, handlers and orders have their types, and the counter of   *)
(* the code stays within the orders there are.                             *)
THEOREM TypeCorrect == Spec => []TypeOK
  <1>1. Inv /\ Counted => TypeOK
    BY SoldIsBounded DEF Inv, Shapes, Counted, TypeOK
  <1> QED
    BY <1>1, InvInit, InvStep, CountedInit, CountedStep, PTL DEF Spec

-----------------------------------------------------------------------------
(***************************************************************************)
(* A reservation no two handlers have in hand is in one place only: in a   *)
(* chat, with the handler that took it from there, or in an order.         *)
(***************************************************************************)
Carries(j, i) == j.pc \in {"remember", "route", "activate", "pay"} /\ j.usage = i

OneHand(i) == \A h, k \in Handlers : job[h].usage = i /\ job[k].usage = i => h = k

InOnePlace(i) ==
    /\ \A o, p \in OrderIds :
          orders[o] # None /\ orders[o].usage = i /\ orders[p] # None /\ orders[p].usage = i
             => o = p
    /\ (\E o \in OrderIds : orders[o] # None /\ orders[o].usage = i) =>
          /\ \A u \in Users : chat[u].usage # i
          /\ \A h \in Handlers : job[h].usage # i
    /\ (\E h \in Handlers : Carries(job[h], i)) => \A u \in Users : chat[u].usage # i

LEMMA NoneIsNoId == None \notin UsageIds
  BY NoneAssumption DEF UsageIds

LEMMA SameOwner ==
    ASSUME Inv, NEW i \in UsageIds
    PROVE  \A h \in Handlers, u \in Users :
              job[h].usage = i /\ chat[u].usage = i => job[h].user = u
  BY NoneIsNoId DEF Inv, OwnReservation, Holds

(* A handler takes an update, knowing no more than the chat does.          *)
LEMMA StartsKeeps ==
    ASSUME Inv, NEW i \in UsageIds, InOnePlace(i), NEW h \in Handlers, NEW u \in Users,
           \/ HandlePromoCodeInput(h, u) \/ HandlePaymentEmailInput(h, u)
           \/ \E t \in Tiers : HandlePaymentConfirmation(h, u, t)
    PROVE  InOnePlace(i)'
  <1>1. UNCHANGED <<chat, orders>>
    BY DEF HandlePromoCodeInput, HandlePaymentEmailInput, HandlePaymentConfirmation
  <1>2. PICK j : /\ job' = [job EXCEPT ![h] = j]
                 /\ j.usage \in {None, chat[u].usage}
                 /\ j.pc \in {"reserve", "clear", "receipt"}
    <2>1. CASE HandlePromoCodeInput(h, u)
      <3> DEFINE j == [Idle EXCEPT !.pc = "reserve", !.user = u, !.tier = chat[u].tier]
      <3>1. j.usage = None /\ j.pc = "reserve"
        BY DEF Idle
      <3>2. job' = [job EXCEPT ![h] = j]
        BY <2>1 DEF HandlePromoCodeInput
      <3> HIDE DEF j
      <3> QED
        BY <3>1, <3>2
    <2>2. CASE HandlePaymentEmailInput(h, u)
      <3> DEFINE j == [pc |-> "receipt", user |-> u, tier |-> chat[u].tier,
                       usage |-> chat[u].usage, final |-> None]
      <3>1. j.usage = chat[u].usage /\ j.pc = "receipt"
        OBVIOUS
      <3>2. job' = [job EXCEPT ![h] = j]
        BY <2>2 DEF HandlePaymentEmailInput
      <3> HIDE DEF j
      <3> QED
        BY <3>1, <3>2
    <2>3. CASE \E t \in Tiers : HandlePaymentConfirmation(h, u, t)
      <3> PICK t \in Tiers : HandlePaymentConfirmation(h, u, t)
        BY <2>3
      <3> DEFINE j == [pc |-> "clear", user |-> u, tier |-> t,
                       usage |-> chat[u].usage, final |-> chat[u].final]
      <3>1. j.usage = chat[u].usage /\ j.pc = "clear"
        OBVIOUS
      <3>2. job' = [job EXCEPT ![h] = j]
        BY DEF HandlePaymentConfirmation
      <3> HIDE DEF j
      <3> QED
        BY <3>1, <3>2
    <2> QED
      BY <2>1, <2>2, <2>3
  <1>3. /\ job'[h].usage \in {None, chat[u].usage}
        /\ job'[h].pc \in {"reserve", "clear", "receipt"}
        /\ \A k \in Handlers \ {h} : job'[k] = job[k]
    BY <1>2 DEF Inv, Shapes
  <1>4. (\E k \in Handlers : Carries(job'[k], i)) => \E k \in Handlers : Carries(job[k], i)
    BY <1>3 DEF Carries
  <1> QED
    BY <1>1, <1>3, <1>4, NoneIsNoId DEF InOnePlace

(* A new reservation is known to nobody but the handler that made it.      *)
LEMMA ReserveKeeps ==
    ASSUME Inv, NEW i \in UsageIds, InOnePlace(i), NEW h \in Handlers, ReserveUsage(h)
    PROVE  InOnePlace(i)'
  <1>1. UNCHANGED <<chat, orders>>
    BY DEF ReserveUsage
  <1>2. PICK n \in UsageIds : usages[n] = None
                              /\ job' = [job EXCEPT ![h].pc = "remember", ![h].usage = n]
    BY DEF ReserveUsage, FreeUsage, Smallest
  <1>3. /\ job'[h].usage = n /\ \A k \in Handlers \ {h} : job'[k] = job[k]
    BY <1>2 DEF Inv, Shapes, Job
  <1>4. /\ \A u \in Users : chat[u].usage # n
        /\ \A o \in OrderIds : orders[o] # None => orders[o].usage # n
    BY <1>2, NoneIsNoId DEF Inv, OwnReservation, Holds
  <1>5. CASE i = n
    BY <1>1, <1>4, <1>5 DEF InOnePlace
  <1>6. CASE i # n
    <2>1. \A k \in Handlers : job'[k].usage = i => job'[k] = job[k]
      BY <1>3, <1>6
    <2>2. (\E k \in Handlers : Carries(job'[k], i)) => \E k \in Handlers : Carries(job[k], i)
      BY <2>1 DEF Carries
    <2> QED
      BY <1>1, <2>1, <2>2 DEF InOnePlace
  <1> QED
    BY <1>5, <1>6

(* A handler leaves what it carried in the chat of its user.               *)
LEMMA HandsOverKeeps ==
    ASSUME Inv, NEW i \in UsageIds, InOnePlace(i), OneHand(i), NEW h \in Handlers,
           RememberUsage(h) \/ AskForEmail(h)
    PROVE  InOnePlace(i)'
  <1>1. UNCHANGED orders /\ job[h].pc \in {"remember", "route"}
    BY DEF RememberUsage, AskForEmail
  <1>2. PICK u \in Users : u = job[h].user
    BY <1>1 DEF Inv, Known
  <1>3. /\ chat'[u].usage = job[h].usage /\ \A v \in Users \ {u} : chat'[v] = chat[v]
        /\ job' = [job EXCEPT ![h] = Idle]
    BY <1>2 DEF RememberUsage, AskForEmail, Inv, Shapes, Chat
  <1>4. job'[h].usage = None /\ \A k \in Handlers \ {h} : job'[k] = job[k]
    BY <1>3, IdleJob DEF Inv, Shapes
  <1>5. CASE job[h].usage = i
    <2>1. \A k \in Handlers : job'[k].usage # i
      BY <1>4, <1>5, NoneIsNoId DEF OneHand
    <2>2. \A o \in OrderIds : orders[o] # None => orders[o].usage # i
      BY <1>5 DEF InOnePlace
    <2> QED
      BY <1>1, <2>1, <2>2 DEF InOnePlace, Carries
  <1>6. CASE job[h].usage # i
    <2>1. \A k \in Handlers : job'[k].usage = i => job'[k] = job[k]
      BY <1>4, NoneIsNoId
    <2>2. (\E k \in Handlers : Carries(job'[k], i)) => \E k \in Handlers : Carries(job[k], i)
      BY <2>1 DEF Carries
    <2>3. \A v \in Users : chat'[v].usage = i => chat[v].usage = i
      BY <1>3, <1>6
    <2> QED
      BY <1>1, <2>1, <2>2, <2>3 DEF InOnePlace
  <1> QED
    BY <1>5, <1>6

(* The chat is cleared: from now on the handler alone knows.               *)
LEMMA ClearKeeps ==
    ASSUME Inv, NEW i \in UsageIds, InOnePlace(i), NEW h \in Handlers, ClearState(h)
    PROVE  InOnePlace(i)'
  <1>1. UNCHANGED orders /\ job[h].pc # "idle"
    BY DEF ClearState
  <1>2. PICK u \in Users : u = job[h].user
    BY <1>1 DEF Inv, Known
  <1>3. chat'[u].usage = None /\ \A v \in Users \ {u} : chat'[v] = chat[v]
    BY <1>2 DEF ClearState, Cleared, Inv, Shapes
  <1>4. /\ job'[h].usage = job[h].usage /\ \A k \in Handlers \ {h} : job'[k] = job[k]
    BY DEF ClearState, Inv, Shapes, Job
  <1>5. \A v \in Users : chat'[v].usage = i => v # u /\ chat[v].usage = i
    BY <1>3, NoneIsNoId
  <1>6. ASSUME NEW k \in Handlers, Carries(job'[k], i), NEW v \in Users, chat'[v].usage = i
        PROVE  FALSE
    <2>1. CASE k = h
      BY <1>2, <1>4, <1>5, <1>6, <2>1, SameOwner DEF Carries
    <2>2. CASE k # h
      BY <1>4, <1>5, <1>6, <2>2 DEF InOnePlace
    <2> QED
      BY <2>1, <2>2
  <1>7. \A k \in Handlers : job'[k].usage = job[k].usage
    BY <1>4
  <1> QED
    BY <1>1, <1>5, <1>6, <1>7 DEF InOnePlace

(* An order is written for what a handler carries, and the handler rests.  *)
LEMMA OrderKeeps ==
    ASSUME Inv, NEW i \in UsageIds, InOnePlace(i), OneHand(i), NEW h \in Handlers,
           Activate(h) \/ CreatePayment(h)
    PROVE  InOnePlace(i)'
  <1>1. /\ UNCHANGED chat /\ job' = [job EXCEPT ![h] = Idle]
        /\ job[h].pc \in {"activate", "route", "pay"}
    BY DEF Activate, CreatePayment
  <1>2. job'[h].usage = None /\ \A k \in Handlers \ {h} : job'[k] = job[k]
    BY <1>1, IdleJob DEF Inv, Shapes
  <1>3. \A k \in Handlers : job'[k].usage = i => k # h /\ job'[k] = job[k]
    BY <1>2, NoneIsNoId
  <1>4. (\E k \in Handlers : Carries(job'[k], i)) => \E k \in Handlers : Carries(job[k], i)
    BY <1>3 DEF Carries
  <1>5. CASE UNCHANGED orders
    BY <1>1, <1>3, <1>4, <1>5 DEF InOnePlace
  <1>6. CASE ~UNCHANGED orders
    <2>1. job[h].usage \in UsageIds
      BY <1>6 DEF Inv, Shapes, Known, Job, Activate, CreatePayment
    <2>2. PICK new \in OrderIds : /\ orders[new] = None /\ orders'[new].usage = job[h].usage
                                  /\ \A p \in OrderIds \ {new} : orders'[p] = orders[p]
      BY <1>6, <2>1 DEF Activate, CreatePayment, FreeOrder, Smallest, Inv, Shapes
    <2>3. CASE job[h].usage = i
      <3>1. Carries(job[h], i)
        BY <1>1, <2>3 DEF Carries
      <3>2. \A p \in OrderIds : orders[p] # None => orders[p].usage # i
        BY <2>3 DEF InOnePlace
      <3>3. \A u \in Users : chat'[u].usage # i
        BY <1>1, <3>1 DEF InOnePlace
      <3>4. \A k \in Handlers : job'[k].usage # i
        BY <1>3, <2>3 DEF OneHand
      <3> QED
        BY <2>2, <3>2, <3>3, <3>4 DEF InOnePlace, Carries
    <2>4. CASE job[h].usage # i
      <3>1. \A p \in OrderIds : orders'[p] # None /\ orders'[p].usage = i
               => orders[p] # None /\ orders[p].usage = i
        BY <2>2, <2>4
      <3> QED
        BY <1>1, <1>3, <1>4, <3>1 DEF InOnePlace
    <2> QED
      BY <2>3, <2>4
  <1> QED
    BY <1>5, <1>6

(* A payment gets its final status; the reservation it is for stays.       *)
LEMMA StatusKeeps ==
    ASSUME Inv, NEW i \in UsageIds, InOnePlace(i), NEW o \in OrderIds,
           PaymentSucceeds(o) \/ PaymentCanceled(o)
    PROVE  InOnePlace(i)'
  <1>1. UNCHANGED <<chat, job>> /\ orders[o] # None
    BY DEF PaymentSucceeds, PaymentCanceled
  <1>2. orders[o] \in Order
    BY <1>1 DEF Inv, Shapes
  <1>3. orders'[o].usage = orders[o].usage /\ \A p \in OrderIds \ {o} : orders'[p] = orders[p]
    BY <1>2 DEF PaymentSucceeds, PaymentCanceled, Inv, Shapes, Order
  <1>4. \A p \in OrderIds : orders'[p] # None =>
           orders[p] # None /\ orders'[p].usage = orders[p].usage
    BY <1>1, <1>3
  <1> QED
    BY <1>1, <1>4 DEF InOnePlace

LEMMA OnePlaceStep ==
    ASSUME Inv, NEW i \in UsageIds, InOnePlace(i), OneHand(i), [Next]_vars
    PROVE  InOnePlace(i)'
  <1>1. ASSUME NEW h \in Handlers, Fail(h)
        PROVE  InOnePlace(i)'
    <2>1. /\ UNCHANGED <<chat, orders>> /\ job'[h].usage = None
          /\ \A k \in Handlers \ {h} : job'[k] = job[k]
      BY <1>1, IdleJob DEF Fail, Inv, Shapes
    <2>2. \A k \in Handlers : job'[k].usage = i => job'[k] = job[k]
      BY <2>1, NoneIsNoId
    <2>3. (\E k \in Handlers : Carries(job'[k], i)) => \E k \in Handlers : Carries(job[k], i)
      BY <2>2 DEF Carries
    <2> QED
      BY <2>1, <2>2, <2>3 DEF InOnePlace
  <1>2. ASSUME NEW h \in Handlers, Chatting(h)
        PROVE  InOnePlace(i)'
    BY <1>1, <1>2, StartsKeeps, ReserveKeeps, HandsOverKeeps, ClearKeeps, OrderKeeps
       DEF Chatting
  <1>3. ASSUME NEW u \in Users, NEW t \in Tiers, HandlePaymentInitiation(u, t)
        PROVE  InOnePlace(i)'
    <2>1. UNCHANGED <<job, orders>> /\ \A v \in Users : chat'[v].usage = chat[v].usage
      BY <1>3 DEF HandlePaymentInitiation, Inv, Shapes, Chat
    <2> QED
      BY <2>1 DEF InOnePlace
  <1>4. ASSUME UNCHANGED <<chat, job, orders>>
        PROVE  InOnePlace(i)'
    BY <1>4 DEF InOnePlace
  <1>5. ASSUME NEW n \in UsageIds, ReservationExpires(n)
        PROVE  InOnePlace(i)'
    BY <1>4, <1>5 DEF ReservationExpires
  <1>6. CASE Toggle \/ UNCHANGED vars
    BY <1>4, <1>6 DEF Toggle, vars
  <1> QED
    BY <1>2, <1>3, <1>5, <1>6, StatusKeeps DEF Next

(* What the history remembers: no two handlers have in hand, or are about  *)
(* to reserve for, what it does not list.                                  *)
Remembered ==
    /\ \A i \in UsageIds \ shared : OneHand(i)
    /\ \A u \in Users \ racing : \A h, k \in Handlers :
          /\ job[h].pc = "reserve" /\ job[k].pc = "reserve"
          /\ job[h].user = u /\ job[k].user = u
          => h = k

LEMMA RememberedInit == HInit => Remembered
  BY NoneIsNoId DEF HInit, Init, Remembered, OneHand, Idle

LEMMA RememberedStep == Remembered /\ [HNext]_historyVars => Remembered'
  <1>1. ASSUME HNext PROVE Remembered'
    BY <1>1 DEF HNext, Remembered, OneHand, Shared, Racing
  <1>2. ASSUME Remembered, UNCHANGED historyVars PROVE Remembered'
    BY <1>2 DEF historyVars, vars, Remembered, OneHand
  <1> QED
    BY <1>1, <1>2

(* It never forgets.                                                       *)
LEMMA HistoryGrows ==
    ASSUME [HNext]_historyVars
    PROVE  [Next]_vars /\ shared \subseteq shared' /\ racing \subseteq racing'
  BY DEF HNext, historyVars, vars

OnePlace == \A i \in UsageIds \ shared : InOnePlace(i)

LEMMA OnePlaceInit == HInit => OnePlace
  BY NoneIsNoId DEF HInit, Init, OnePlace, InOnePlace, Carries, Idle, Cleared

LEMMA OnePlaceNext == Inv /\ Remembered /\ OnePlace /\ [HNext]_historyVars => OnePlace'
  <1> SUFFICES ASSUME Inv, Remembered, OnePlace, [HNext]_historyVars,
                      NEW i \in UsageIds, i \notin shared'
               PROVE  InOnePlace(i)'
    BY DEF OnePlace
  <1>1. [Next]_vars /\ i \in UsageIds \ shared
    BY HistoryGrows
  <1> QED
    BY <1>1, OnePlaceStep DEF OnePlace, Remembered

LEMMA HistoryInv == HSpec => [](Inv /\ Remembered)
  <1>1. HInit => Inv /\ Remembered
    BY InvInit, RememberedInit DEF HInit
  <1>2. Inv /\ Remembered /\ [HNext]_historyVars => (Inv /\ Remembered)'
    BY InvStep, RememberedStep, HistoryGrows
  <1> QED
    BY <1>1, <1>2, PTL DEF HSpec

(* A reservation that two handlers never had in hand at once is spent      *)
(* once, for any number of users, codes sent again, old buttons, updates   *)
(* that overlap, handlers that fail after clearing the chat, and late      *)
(* payments.                                                               *)
THEOREM ReservationsAreSpentOnce == HSpec => []SpentByOne
  <1>1. OnePlace => SpentByOne
    <2> SUFFICES ASSUME OnePlace, NEW i \in UsageIds \ shared
                 PROVE  Cardinality(OrdersWith(i)) <= 1
      BY DEF SpentByOne
    <2>1. CASE OrdersWith(i) = {}
      BY <2>1, FS_EmptySet
    <2>2. CASE OrdersWith(i) # {}
      <3>1. PICK o \in OrderIds : OrdersWith(i) = {o}
        BY <2>2 DEF OrdersWith, OnePlace, InOnePlace
      <3>2. Cardinality({o}) = 1
        BY FS_Singleton
      <3> QED
        BY <3>1, <3>2
    <2> QED
      BY <2>1, <2>2
  <1> QED
    BY <1>1, HistoryInv, OnePlaceInit, OnePlaceNext, PTL DEF HSpec

-----------------------------------------------------------------------------
(***************************************************************************)
(* The limits of one user, of whose codes no two were about to be reserved *)
(* at once.                                                                *)
(***************************************************************************)
(* What became of the rows, unless one was added.                          *)
Older ==
    \A i \in UsageIds :
        IF usages[i] = None THEN usages'[i] = None
        ELSE /\ usages'[i] # None
             /\ usages'[i].user = usages[i].user /\ usages'[i].tier = usages[i].tier
             /\ usages'[i].status = "RESERVED" => usages[i].status = "RESERVED"
             /\ usages'[i].fresh => usages[i].fresh

LEMMA RowWritten ==
    ASSUME Inv, NEW i \in UsageIds, usages[i] # None,
           NEW row \in PromoCodeUsage, usages' = [usages EXCEPT ![i] = row],
           row.user = usages[i].user, row.tier = usages[i].tier,
           row.status = "RESERVED" => usages[i].status = "RESERVED",
           row.fresh => usages[i].fresh
    PROVE  Older
  <1>1. row # None /\ usages'[i] = row /\ \A k \in UsageIds \ {i} : usages'[k] = usages[k]
    BY NoneAssumption DEF Inv, Shapes
  <1> QED
    BY <1>1 DEF Older

LEMMA ConfirmIsOlder ==
    ASSUME Inv, NEW i \in UsageIds, usages[i] # None, ConfirmUsage(i)
    PROVE  Older
  <1> DEFINE row == [usages[i] EXCEPT !.status = "APPLIED"]
  <1>1. usages[i] \in PromoCodeUsage
    BY DEF Inv, Shapes
  <1>2. /\ row \in PromoCodeUsage /\ row.user = usages[i].user /\ row.tier = usages[i].tier
        /\ row.status = "APPLIED" /\ row.fresh = usages[i].fresh
    BY <1>1 DEF PromoCodeUsage
  <1>3. usages' = [usages EXCEPT ![i] = row]
    BY DEF ConfirmUsage
  <1> HIDE DEF row
  <1> QED
    BY <1>2, <1>3, RowWritten

LEMMA RowsAge ==
    ASSUME Inv, [Next]_vars, ~\E h \in Handlers : ReserveUsage(h)
    PROVE  Older
  <1>1. ASSUME UNCHANGED usages PROVE Older
    BY <1>1 DEF Older
  <1>2. ASSUME NEW h \in Handlers, Activate(h) PROVE Older
    <2>1. job[h].usage \in UsageIds /\ usages[job[h].usage] # None
      BY <1>2 DEF Activate, Inv, Shapes, Known, OwnReservation, Holds, Job
    <2> QED
      BY <1>2, <2>1, ConfirmIsOlder DEF Activate
  <1>3. ASSUME NEW o \in OrderIds, PaymentSucceeds(o) PROVE Older
    <2>1. orders[o].usage \in UsageIds /\ usages[orders[o].usage] # None
      BY <1>3, NoneIsNoId DEF PaymentSucceeds, Inv, Shapes, OwnReservation, Holds, Order
    <2> QED
      BY <1>3, <2>1, ConfirmIsOlder DEF PaymentSucceeds
  <1>4. ASSUME NEW i \in UsageIds, ReservationExpires(i) PROVE Older
    <2> DEFINE row == [usages[i] EXCEPT !.fresh = FALSE]
    <2>1. usages[i] \in PromoCodeUsage /\ usages[i] # None
      BY <1>4 DEF Inv, Shapes, ReservationExpires
    <2>2. /\ row \in PromoCodeUsage /\ row.user = usages[i].user /\ row.tier = usages[i].tier
          /\ row.status = usages[i].status /\ ~row.fresh
      BY <2>1 DEF PromoCodeUsage
    <2>3. usages' = [usages EXCEPT ![i] = row]
      BY <1>4 DEF ReservationExpires
    <2> HIDE DEF row
    <2> QED
      BY <2>1, <2>2, <2>3, RowWritten
  <1>5. ASSUME NEW h \in Handlers, Chatting(h) PROVE Older
    <2>1. CASE Activate(h)
      BY <1>2, <2>1
    <2>2. CASE ~Activate(h)
      <3>1. UNCHANGED usages
        BY <1>5, <2>2 DEF Chatting, HandlePromoCodeInput, HandlePaymentEmailInput,
           HandlePaymentConfirmation, RememberUsage, ClearState, AskForEmail,
           CreatePayment, Fail
      <3> QED
        BY <1>1, <3>1
    <2> QED
      BY <2>1, <2>2
  <1>6. ASSUME NEW u \in Users, NEW t \in Tiers, HandlePaymentInitiation(u, t) PROVE Older
    BY <1>1, <1>6 DEF HandlePaymentInitiation
  <1>7. ASSUME NEW o \in OrderIds, PaymentCanceled(o) PROVE Older
    BY <1>1, <1>7 DEF PaymentCanceled
  <1>8. CASE Toggle \/ UNCHANGED vars
    BY <1>1, <1>8 DEF Toggle, vars
  <1> QED
    BY <1>3, <1>4, <1>5, <1>6, <1>7, <1>8 DEF Next

(* The handler of a valid code is the only one that comes to "reserve".    *)
Reserving(u) == \E h \in Handlers : job[h].pc = "reserve" /\ job[h].user = u

LEMMA WhoReserves ==
    ASSUME Inv, [Next]_vars, NEW u \in Users, Reserving(u)'
    PROVE  Reserving(u) \/ \E h \in Handlers : HandlePromoCodeInput(h, u)
  <1> PICK k \in Handlers : job'[k].pc = "reserve" /\ job'[k].user = u
    BY DEF Reserving
  <1>1. CASE job'[k] = job[k]
    BY <1>1 DEF Reserving
  <1>2. CASE job'[k] # job[k]
    <2>1. PICK h \in Handlers : Chatting(h)
      BY <1>2 DEF Next, vars, HandlePaymentInitiation, PaymentSucceeds, PaymentCanceled,
         ReservationExpires, Toggle
    <2>2. ~(RememberUsage(h) \/ AskForEmail(h) \/ Activate(h) \/ CreatePayment(h) \/ Fail(h))
      BY <1>2 DEF RememberUsage, AskForEmail, Activate, CreatePayment, Fail, Idle, Inv, Shapes
    <2>3. ~(ReserveUsage(h) \/ ClearState(h))
      BY <1>2 DEF ReserveUsage, ClearState, Continue, Inv, Shapes, Job
    <2>4. ~\E v \in Users : HandlePaymentEmailInput(h, v)
                            \/ \E t \in Tiers : HandlePaymentConfirmation(h, v, t)
      BY <1>2 DEF HandlePaymentEmailInput, HandlePaymentConfirmation, Inv, Shapes
    <2>5. PICK v \in Users : HandlePromoCodeInput(h, v)
      BY <2>1, <2>2, <2>3, <2>4 DEF Chatting
    <2>6. u = v
      BY <1>2, <2>5 DEF HandlePromoCodeInput, Idle, Inv, Shapes
    <2> QED
      BY <2>5, <2>6
  <1> QED
    BY <1>1, <1>2

(* The row that a handler adds.                                            *)
LEMMA RowAdded ==
    ASSUME Inv, NEW h \in Handlers, ReserveUsage(h)
    PROVE  \E i \in UsageIds, u \in Users :
              /\ Reserving(u) /\ usages[i] = None
              /\ usages'[i] # None /\ usages'[i].user = u /\ usages'[i].tier = job[h].tier
              /\ usages'[i].fresh /\ u = job[h].user
              /\ job'[h].usage = i /\ job'[h].pc = "remember"
              /\ \A k \in UsageIds \ {i} : usages'[k] = usages[k]
              /\ \A k \in Handlers \ {h} : job'[k] = job[k]
  <1>1. PICK u \in Users : u = job[h].user /\ job[h].tier \in Tiers
    BY DEF Inv, Known, ReserveUsage
  <1> DEFINE row == [user |-> u, tier |-> job[h].tier, status |-> "RESERVED", fresh |-> TRUE]
  <1>2. PICK i \in UsageIds : /\ usages[i] = None /\ usages' = [usages EXCEPT ![i] = row]
                              /\ job' = [job EXCEPT ![h].pc = "remember", ![h].usage = i]
    BY <1>1 DEF ReserveUsage, FreeUsage, Smallest
  <1>3. /\ row \in PromoCodeUsage /\ row.user = u /\ row.tier = job[h].tier /\ row.fresh
    BY <1>1 DEF PromoCodeUsage
  <1> HIDE DEF row
  <1>4. row # None
    BY <1>3, NoneAssumption
  <1>5. /\ usages'[i] = row /\ \A k \in UsageIds \ {i} : usages'[k] = usages[k]
    BY <1>2 DEF Inv, Shapes
  <1>6. /\ job'[h].pc = "remember" /\ job'[h].usage = i
        /\ \A k \in Handlers \ {h} : job'[k] = job[k]
    BY <1>2 DEF Inv, Shapes, Job
  <1>7. Reserving(u)
    BY <1>1 DEF Reserving, ReserveUsage
  <1> QED
    BY <1>1, <1>2, <1>3, <1>4, <1>5, <1>6, <1>7

(* A user who did not race is done reserving when his handler has reserved.*)
LEMMA LastToReserve ==
    ASSUME Inv, Remembered, NEW h \in Handlers, ReserveUsage(h),
           NEW u \in Users \ racing, u = job[h].user
    PROVE  ~Reserving(u)'
  <1>1. job'[h].pc = "remember" /\ \A k \in Handlers \ {h} : job'[k] = job[k]
    BY RowAdded
  <1>2. job[h].pc = "reserve"
    BY DEF ReserveUsage
  <1> QED
    BY <1>1, <1>2 DEF Reserving, Remembered

(* Who may reserve has no reservation, and nobody has two.                 *)
ReserveInv ==
    \A u \in Users \ racing :
        /\ Reserving(u) => ActiveReservations(u) = {}
        /\ \A i, k \in ActiveReservations(u) : i = k

LEMMA ReserveInvInit == HInit => ReserveInv
  BY DEF HInit, Init, ReserveInv, ActiveReservations, RowsOf

LEMMA ReserveInvStep ==
    Inv /\ Remembered /\ ReserveInv /\ [HNext]_historyVars => ReserveInv'
  <1> SUFFICES ASSUME Inv, Remembered, ReserveInv, [HNext]_historyVars,
                      NEW u \in Users, u \notin racing'
               PROVE  /\ Reserving(u)' => ActiveReservations(u)' = {}
                      /\ \A i, k \in ActiveReservations(u)' : i = k
    BY DEF ReserveInv
  <1>0. [Next]_vars /\ u \in Users \ racing
    BY HistoryGrows
  <1>1. CASE ~\E h \in Handlers : ReserveUsage(h)
    <2>1. ActiveReservations(u)' \subseteq ActiveReservations(u)
      BY <1>0, <1>1, RowsAge DEF Older, ActiveReservations, RowsOf
    <2>2. ASSUME Reserving(u)' PROVE ActiveReservations(u) = {}
      BY <1>0, <2>2, WhoReserves DEF ReserveInv, HandlePromoCodeInput, Validate
    <2> QED
      BY <1>0, <2>1, <2>2 DEF ReserveInv
  <1>2. CASE \E h \in Handlers : ReserveUsage(h)
    <2> PICK h \in Handlers : ReserveUsage(h)
      BY <1>2
    <2>1. PICK i \in UsageIds, v \in Users :
              /\ Reserving(v) /\ usages[i] = None /\ v = job[h].user
              /\ usages'[i].user = v
              /\ \A k \in UsageIds \ {i} : usages'[k] = usages[k]
      BY RowAdded
    <2>2. CASE u = v
      <3>1. ActiveReservations(u) = {} /\ ~Reserving(u)'
        BY <1>0, <2>1, <2>2, LastToReserve DEF ReserveInv
      <3>2. ActiveReservations(u)' \subseteq {i}
        BY <2>1, <3>1 DEF ActiveReservations, RowsOf
      <3> QED
        BY <3>1, <3>2
    <2>3. CASE u # v
      <3>1. ActiveReservations(u)' \subseteq ActiveReservations(u)
        BY <2>1, <2>3 DEF ActiveReservations, RowsOf
      <3>2. ASSUME Reserving(u)' PROVE ActiveReservations(u) = {}
        BY <1>0, <3>2, WhoReserves DEF ReserveInv, HandlePromoCodeInput, Validate
      <3> QED
        BY <1>0, <3>1, <3>2 DEF ReserveInv
    <2> QED
      BY <2>2, <2>3
  <1> QED
    BY <1>1, <1>2

(* A user has one reservation at a time, although the code is validated in *)
(* one transaction and the row inserted in another: only two codes between *)
(* the two make a second one, whatever else his chat does meanwhile.       *)
THEOREM OneReservationEach == HSpec => []OneAtATime
  <1>1. ReserveInv => OneAtATime
    <2> SUFFICES ASSUME ReserveInv, NEW u \in Users \ racing
                 PROVE  Cardinality(ActiveReservations(u)) <= 1
      BY DEF OneAtATime
    <2>1. CASE ActiveReservations(u) = {}
      BY <2>1, FS_EmptySet
    <2>2. CASE ActiveReservations(u) # {}
      <3>1. PICK i : ActiveReservations(u) = {i}
        BY <2>2 DEF ReserveInv
      <3> QED
        BY <3>1, FS_Singleton
    <2> QED
      BY <2>1, <2>2
  <1> QED
    BY <1>1, HistoryInv, ReserveInvInit, ReserveInvStep, PTL DEF HSpec

(* A user's young rows, reserved or spent, stay within the limit, and      *)
(* whoever may reserve has room for one more.                              *)
YoungRows(rows, u) == {i \in UsageIds : rows[i] # None /\ rows[i].user = u /\ rows[i].fresh}

LimitInv ==
    \A u \in Users \ racing :
        /\ Cardinality(YoungRows(usages, u)) <= MaxPerUser
        /\ Reserving(u) => Cardinality(YoungRows(usages, u)) < MaxPerUser

LEMMA IdsAreFinite ==
    ASSUME NEW S, S \subseteq UsageIds
    PROVE  IsFiniteSet(S) /\ Cardinality(S) \in Nat
  <1>1. IsFiniteSet(UsageIds)
    BY BoundsAssumption, FS_Interval DEF UsageIds
  <1>2. IsFiniteSet(S)
    BY <1>1, FS_Subset
  <1> QED
    BY <1>2, FS_CardinalityType

LEMMA SmallerSet ==
    ASSUME NEW S, NEW R, R \subseteq UsageIds, S \subseteq R
    PROVE  Cardinality(S) <= Cardinality(R) /\ Cardinality(S) \in Nat /\ Cardinality(R) \in Nat
  <1>1. IsFiniteSet(R) /\ Cardinality(R) \in Nat
    BY IdsAreFinite
  <1>2. Cardinality(S) <= Cardinality(R)
    BY <1>1, FS_Subset
  <1>3. Cardinality(S) \in Nat
    BY IdsAreFinite
  <1> QED
    BY <1>1, <1>2, <1>3

LEMMA LimitInit == HInit => LimitInv
  <1> SUFFICES ASSUME HInit PROVE LimitInv
    OBVIOUS
  <1>1. \A h \in Handlers : job[h].pc = "idle"
    BY DEF HInit, Init, Idle
  <1>2. \A u \in Users : ~Reserving(u)
    BY <1>1 DEF Reserving
  <1>3. \A u \in Users : YoungRows(usages, u) = {}
    BY DEF HInit, Init, YoungRows
  <1>4. \A u \in Users : Cardinality(YoungRows(usages, u)) = 0
    BY <1>3, FS_EmptySet
  <1> QED
    BY <1>2, <1>4, PromoAssumption DEF LimitInv

(* Who sends a valid code has spent all he reserved within the hour, and   *)
(* less than allowed.                                                      *)
LEMMA ValidHasRoom ==
    ASSUME Inv, NEW h \in Handlers, NEW u \in Users, HandlePromoCodeInput(h, u)
    PROVE  Cardinality(YoungRows(usages, u)) < MaxPerUser
  <1>1. ActiveReservations(u) = {} /\ Cardinality(RowsOf(u, "APPLIED")) < MaxPerUser
    BY DEF HandlePromoCodeInput, Validate, CountUserAppliedUses
  <1>2. \A i \in UsageIds : usages[i] # None => usages[i].status \in {"RESERVED", "APPLIED"}
    BY DEF Inv, Shapes, PromoCodeUsage
  <1>3. YoungRows(usages, u) \subseteq RowsOf(u, "APPLIED")
    BY <1>1, <1>2 DEF YoungRows, RowsOf, ActiveReservations
  <1>4. RowsOf(u, "APPLIED") \subseteq UsageIds
    BY DEF RowsOf
  <1>5. /\ Cardinality(YoungRows(usages, u)) <= Cardinality(RowsOf(u, "APPLIED"))
        /\ Cardinality(YoungRows(usages, u)) \in Nat
        /\ Cardinality(RowsOf(u, "APPLIED")) \in Nat
    BY <1>3, <1>4, SmallerSet
  <1> QED
    BY <1>1, <1>5, PromoAssumption

LEMMA LimitStep ==
    Inv /\ Remembered /\ LimitInv /\ [HNext]_historyVars => LimitInv'
  <1> SUFFICES ASSUME Inv, Remembered, LimitInv, [HNext]_historyVars,
                      NEW u \in Users, u \notin racing'
               PROVE  /\ Cardinality(YoungRows(usages', u)) <= MaxPerUser
                      /\ Reserving(u)' => Cardinality(YoungRows(usages', u)) < MaxPerUser
    BY DEF LimitInv
  <1>0. [Next]_vars /\ u \in Users \ racing
    BY HistoryGrows
  <1>1. Reserving(u)' => Cardinality(YoungRows(usages, u)) < MaxPerUser
    BY <1>0, WhoReserves, ValidHasRoom DEF LimitInv
  <1>2. ASSUME YoungRows(usages', u) \subseteq YoungRows(usages, u)
        PROVE  /\ Cardinality(YoungRows(usages', u)) <= MaxPerUser
               /\ Reserving(u)' => Cardinality(YoungRows(usages', u)) < MaxPerUser
    <2> DEFINE old == YoungRows(usages, u)  new == YoungRows(usages', u)
    <2>1. old \subseteq UsageIds
      BY DEF YoungRows
    <2>2. Cardinality(new) <= Cardinality(old) /\ Cardinality(new) \in Nat /\ Cardinality(old) \in Nat
      BY <1>2, <2>1, SmallerSet
    <2>3. Cardinality(old) <= MaxPerUser
      BY <1>0 DEF LimitInv
    <2> QED
      BY <1>1, <2>2, <2>3, PromoAssumption
  <1>3. CASE ~\E h \in Handlers : ReserveUsage(h)
    <2>1. YoungRows(usages', u) \subseteq YoungRows(usages, u)
      BY <1>0, <1>3, RowsAge DEF Older, YoungRows
    <2> QED
      BY <1>2, <2>1
  <1>4. CASE \E h \in Handlers : ReserveUsage(h)
    <2> PICK h \in Handlers : ReserveUsage(h)
      BY <1>4
    <2>1. PICK i \in UsageIds, v \in Users :
              /\ Reserving(v) /\ usages[i] = None /\ v = job[h].user
              /\ usages'[i] # None /\ usages'[i].user = v /\ usages'[i].fresh
              /\ \A k \in UsageIds \ {i} : usages'[k] = usages[k]
      BY RowAdded
    <2>2. CASE u = v
      <3>1. YoungRows(usages', u) = YoungRows(usages, u) \cup {i}
        BY <2>1, <2>2 DEF YoungRows
      <3>2. i \notin YoungRows(usages, u)
        BY <2>1 DEF YoungRows
      <3>3. YoungRows(usages, u) \subseteq UsageIds
        BY DEF YoungRows
      <3>4. IsFiniteSet(YoungRows(usages, u)) /\ Cardinality(YoungRows(usages, u)) \in Nat
        BY <3>3, IdsAreFinite
      <3>5. Cardinality(YoungRows(usages', u)) = Cardinality(YoungRows(usages, u)) + 1
        BY <3>1, <3>2, <3>4, FS_AddElement
      <3>6. Cardinality(YoungRows(usages, u)) < MaxPerUser /\ ~Reserving(u)'
        BY <1>0, <2>1, <2>2, LastToReserve DEF LimitInv
      <3> QED
        BY <3>4, <3>5, <3>6, PromoAssumption
    <2>3. CASE u # v
      <3>1. YoungRows(usages', u) \subseteq YoungRows(usages, u)
        BY <2>1, <2>3 DEF YoungRows
      <3> QED
        BY <1>2, <3>1
    <2> QED
      BY <2>2, <2>3
  <1> QED
    BY <1>3, <1>4

(* max_uses_per_user is compared when a code is sent and used up when a    *)
(* payment arrives; the reservation in between keeps the place.  A user    *)
(* gets past the limit only with two codes between check and reservation   *)
(* at once, or with reservations that outlived their 60 minutes.           *)
THEOREM UserLimitHolds == HSpec => []LimitButLate
  <1>1. LimitInv => LimitButLate
    <2> SUFFICES ASSUME LimitInv, NEW u \in Users \ racing
                 PROVE  Cardinality(InTime(u)) <= MaxPerUser
      BY DEF LimitButLate
    <2>1. InTime(u) \subseteq YoungRows(usages, u) /\ YoungRows(usages, u) \subseteq UsageIds
      BY DEF InTime, RowsOf, YoungRows
    <2>2. /\ Cardinality(InTime(u)) <= Cardinality(YoungRows(usages, u))
          /\ Cardinality(InTime(u)) \in Nat /\ Cardinality(YoungRows(usages, u)) \in Nat
      BY <2>1, SmallerSet
    <2>3. Cardinality(YoungRows(usages, u)) <= MaxPerUser
      BY DEF LimitInv
    <2> QED
      BY <2>2, <2>3, PromoAssumption
  <1> QED
    BY <1>1, HistoryInv, LimitInit, LimitStep, PTL DEF HSpec

-----------------------------------------------------------------------------
(***************************************************************************)
(* The amount that a chat shows, if it shows one, is that of the           *)
(* reservation it remembers, however updates overlap.                      *)
(***************************************************************************)
Cost(rows, i) == FinalAmount(rows[i].tier)
Quotes(rows, final, i) == i # None => final \in {None, Cost(rows, i)}

JobFits(rows, j) ==
    /\ j.pc = "remember" => rows[j.usage].tier = j.tier
    /\ j.pc = "clear" => Quotes(rows, j.final, j.usage)
    /\ j.pc = "activate" => Cost(rows, j.usage) = "0"

OrderFits(rows, o) == o # None /\ o.free => Cost(rows, o.usage) = "0"

Quoted ==
    /\ \A u \in Users : Quotes(usages, chat[u].final, chat[u].usage)
    /\ \A h \in Handlers : JobFits(usages, job[h])
    /\ \A o \in OrderIds : OrderFits(usages, orders[o])

(* A row's tier is for good.                                               *)
TierKept ==
    \A i \in UsageIds : usages[i] # None =>
        usages'[i] # None /\ usages'[i].tier = usages[i].tier

LEMMA TiersStay ==
    ASSUME Inv, [Next]_vars
    PROVE  TierKept
  <1>1. CASE ~\E h \in Handlers : ReserveUsage(h)
    BY <1>1, RowsAge DEF Older, TierKept
  <1>2. CASE \E h \in Handlers : ReserveUsage(h)
    <2> PICK h \in Handlers : ReserveUsage(h)
      BY <1>2
    <2>1. PICK i \in UsageIds : usages[i] = None /\ \A k \in UsageIds \ {i} : usages'[k] = usages[k]
      BY RowAdded
    <2> QED
      BY <2>1 DEF TierKept
  <1> QED
    BY <1>1, <1>2

(* What is known of a row that exists stays true.                          *)
LEMMA StillFits ==
    ASSUME Inv, TierKept, Quoted
    PROVE  /\ \A u \in Users : Quotes(usages', chat[u].final, chat[u].usage)
           /\ \A h \in Handlers : JobFits(usages', job[h])
           /\ \A o \in OrderIds : OrderFits(usages', orders[o])
  <1>1. \A i \in UsageIds : usages[i] # None => Cost(usages', i) = Cost(usages, i)
    BY DEF TierKept, Cost
  <1>2. ASSUME NEW u \in Users PROVE Quotes(usages', chat[u].final, chat[u].usage)
    <2>1. chat[u].usage # None => chat[u].usage \in UsageIds /\ usages[chat[u].usage] # None
      BY DEF Inv, Shapes, OwnReservation, Holds, Chat
    <2> QED
      BY <1>1, <2>1 DEF Quoted, Quotes
  <1>3. ASSUME NEW h \in Handlers PROVE JobFits(usages', job[h])
    <2>1. job[h].usage # None => job[h].usage \in UsageIds /\ usages[job[h].usage] # None
      BY DEF Inv, Shapes, OwnReservation, Holds, Job
    <2>2. job[h].pc \in {"remember", "activate"} => job[h].usage # None
      BY DEF Inv, Known
    <2>3. JobFits(usages, job[h])
      BY DEF Quoted
    <2>4. job[h].usage # None => usages'[job[h].usage].tier = usages[job[h].usage].tier
      BY <2>1 DEF TierKept
    <2> QED
      BY <1>1, <2>1, <2>2, <2>3, <2>4 DEF JobFits, Quotes
  <1>4. ASSUME NEW o \in OrderIds PROVE OrderFits(usages', orders[o])
    <2>1. orders[o] # None => orders[o].usage \in UsageIds /\ usages[orders[o].usage] # None
      BY NoneIsNoId DEF Inv, Shapes, OwnReservation, Holds, Order
    <2> QED
      BY <1>1, <2>1 DEF Quoted, OrderFits
  <1> QED
    BY <1>2, <1>3, <1>4

LEMMA QuotedInit == Init => Quoted
  BY DEF Init, Quoted, Quotes, JobFits, OrderFits, Idle, Cleared

(* The handler that takes an update has read the chat.                     *)
LEMMA StartFits ==
    ASSUME Inv, Quoted, TierKept, NEW h \in Handlers, NEW u \in Users,
           \/ HandlePromoCodeInput(h, u) \/ HandlePaymentEmailInput(h, u)
           \/ \E t \in Tiers : HandlePaymentConfirmation(h, u, t)
    PROVE  Quoted'
  <1>1. UNCHANGED <<usages, chat, orders>>
    BY DEF HandlePromoCodeInput, HandlePaymentEmailInput, HandlePaymentConfirmation
  <1>2. PICK j : job' = [job EXCEPT ![h] = j] /\ JobFits(usages, j)
    <2>1. CASE HandlePromoCodeInput(h, u)
      <3> DEFINE j == [Idle EXCEPT !.pc = "reserve", !.user = u, !.tier = chat[u].tier]
      <3>1. j.pc = "reserve"
        BY DEF Idle
      <3>2. job' = [job EXCEPT ![h] = j]
        BY <2>1 DEF HandlePromoCodeInput
      <3> HIDE DEF j
      <3> QED
        BY <3>1, <3>2 DEF JobFits
    <2>2. CASE HandlePaymentEmailInput(h, u)
      <3> DEFINE j == [pc |-> "receipt", user |-> u, tier |-> chat[u].tier,
                       usage |-> chat[u].usage, final |-> None]
      <3>1. j.pc = "receipt"
        OBVIOUS
      <3>2. job' = [job EXCEPT ![h] = j]
        BY <2>2 DEF HandlePaymentEmailInput
      <3> HIDE DEF j
      <3> QED
        BY <3>1, <3>2 DEF JobFits
    <2>3. CASE \E t \in Tiers : HandlePaymentConfirmation(h, u, t)
      <3> PICK t \in Tiers : HandlePaymentConfirmation(h, u, t)
        BY <2>3
      <3> DEFINE j == [pc |-> "clear", user |-> u, tier |-> t,
                       usage |-> chat[u].usage, final |-> chat[u].final]
      <3>1. j.usage = chat[u].usage /\ j.pc = "clear" /\ j.final = chat[u].final
        OBVIOUS
      <3>2. job' = [job EXCEPT ![h] = j]
        BY DEF HandlePaymentConfirmation
      <3> HIDE DEF j
      <3> QED
        BY <3>1, <3>2 DEF JobFits, Quoted
    <2> QED
      BY <2>1, <2>2, <2>3
  <1>3. job'[h] = j /\ \A k \in Handlers \ {h} : job'[k] = job[k]
    BY <1>2 DEF Inv, Shapes
  <1>4. \A k \in Handlers : JobFits(usages, job'[k])
    BY <1>2, <1>3 DEF Quoted
  <1> QED
    BY <1>1, <1>4 DEF Quoted

LEMMA ReserveFits ==
    ASSUME Inv, Quoted, TierKept, NEW h \in Handlers, ReserveUsage(h)
    PROVE  Quoted'
  <1>1. UNCHANGED <<chat, orders>>
    BY DEF ReserveUsage
  <1>2. PICK i \in UsageIds : /\ usages'[i].tier = job[h].tier /\ job'[h].usage = i
                              /\ job'[h].pc = "remember"
                              /\ \A k \in Handlers \ {h} : job'[k] = job[k]
    BY RowAdded
  <1>3. job'[h].tier = job[h].tier
    BY DEF ReserveUsage, Inv, Shapes, Job
  <1>4. JobFits(usages', job'[h])
    BY <1>2, <1>3 DEF JobFits
  <1> QED
    BY <1>1, <1>2, <1>4, StillFits DEF Quoted

(* The handler forgets, and leaves the rest alone.                         *)
LEMMA ForgetFits ==
    ASSUME Inv, Quoted, TierKept, NEW h \in Handlers, job' = [job EXCEPT ![h] = Idle]
    PROVE  \A k \in Handlers : JobFits(usages', job'[k])
  <1>1. job'[h] = Idle /\ \A k \in Handlers \ {h} : job'[k] = job[k]
    BY DEF Inv, Shapes
  <1>2. JobFits(usages', Idle)
    BY DEF JobFits, Idle
  <1> QED
    BY <1>1, <1>2, StillFits

(* A handler writes both amount and reservation, or a reservation alone.   *)
LEMMA HandOverFits ==
    ASSUME Inv, Quoted, TierKept, NEW h \in Handlers, RememberUsage(h) \/ AskForEmail(h)
    PROVE  Quoted'
  <1>1. /\ UNCHANGED <<usages, orders>> /\ job' = [job EXCEPT ![h] = Idle]
        /\ job[h].pc \in {"remember", "route"}
    BY DEF RememberUsage, AskForEmail
  <1>2. PICK u \in Users : u = job[h].user
    BY <1>1 DEF Inv, Known
  <1>3. /\ chat'[u].usage = job[h].usage
        /\ \/ RememberUsage(h) /\ chat'[u].final = FinalAmount(job[h].tier)
           \/ chat'[u].final = None
        /\ \A v \in Users \ {u} : chat'[v] = chat[v]
    BY <1>2 DEF RememberUsage, AskForEmail, Inv, Shapes, Chat
  <1>4. RememberUsage(h) => usages[job[h].usage].tier = job[h].tier
    BY DEF Quoted, JobFits, RememberUsage
  <1>5. Quotes(usages', chat'[u].final, chat'[u].usage)
    BY <1>1, <1>3, <1>4 DEF Quotes, Cost
  <1>6. \A v \in Users : Quotes(usages', chat'[v].final, chat'[v].usage)
    BY <1>3, <1>5, StillFits
  <1> QED
    BY <1>1, <1>6, ForgetFits, StillFits DEF Quoted

(* The chat is cleared, and the handler decides by what it has read of it. *)
LEMMA ClearFits ==
    ASSUME Inv, Quoted, TierKept, NEW h \in Handlers, ClearState(h)
    PROVE  Quoted'
  <1>1. UNCHANGED <<usages, orders>> /\ job[h].pc \in {"clear", "receipt"}
    BY DEF ClearState
  <1>2. PICK u \in Users : u = job[h].user
    BY <1>1 DEF Inv, Known
  <1>3. /\ chat'[u].usage = None
        /\ \A v \in Users \ {u} : chat'[v] = chat[v]
    BY <1>2 DEF ClearState, Cleared, Inv, Shapes
  <1>4. /\ job'[h].usage = job[h].usage /\ job'[h].pc = Continue(job[h])
        /\ \A k \in Handlers \ {h} : job'[k] = job[k]
    BY DEF ClearState, Inv, Shapes, Job
  <1>5. JobFits(usages', job'[h])
    <2>1. CASE job[h].pc = "clear" /\ NothingToPay(job[h])
      <3>1. job'[h].pc = "activate" /\ job[h].usage # None /\ job[h].final = "0"
        BY <1>4, <2>1 DEF Continue, NothingToPay
      <3>2. JobFits(usages, job[h])
        BY DEF Quoted
      <3>3. Cost(usages, job[h].usage) = "0"
        BY <2>1, <3>1, <3>2, NoneAssumption DEF JobFits, Quotes
      <3> QED
        BY <1>1, <1>4, <3>1, <3>3 DEF JobFits
    <2>2. CASE ~(job[h].pc = "clear" /\ NothingToPay(job[h]))
      <3>1. job'[h].pc \in {"pay", "route"}
        BY <1>1, <1>4, <2>2 DEF Continue
      <3> QED
        BY <3>1 DEF JobFits
    <2> QED
      BY <2>1, <2>2
  <1>6. \A v \in Users : Quotes(usages', chat'[v].final, chat'[v].usage)
    BY <1>3, StillFits DEF Quotes
  <1>7. \A k \in Handlers : JobFits(usages', job'[k])
    BY <1>4, <1>5, StillFits
  <1> QED
    BY <1>1, <1>6, <1>7, StillFits DEF Quoted

(* A free order is written for a covered price only.                       *)
LEMMA OrderFitsStep ==
    ASSUME Inv, Quoted, TierKept, NEW h \in Handlers, Activate(h) \/ CreatePayment(h)
    PROVE  Quoted'
  <1>1. UNCHANGED chat /\ job' = [job EXCEPT ![h] = Idle]
    BY DEF Activate, CreatePayment
  <1>2. CASE UNCHANGED orders
    BY <1>1, <1>2, ForgetFits, StillFits DEF Quoted
  <1>3. CASE ~UNCHANGED orders
    <2>1. PICK o \in OrderIds, free \in BOOLEAN, st \in {"SUCCEEDED", "PENDING"} :
             /\ orders' = [orders EXCEPT ![o] =
                   [usage |-> job[h].usage, user |-> job[h].user, tier |-> job[h].tier,
                    free |-> free, status |-> st]]
             /\ free => job[h].pc = "activate"
      <3>1. CASE Activate(h)
        <4>1. PICK o \in OrderIds :
                 orders' = [orders EXCEPT ![o] =
                   [usage |-> job[h].usage, user |-> job[h].user, tier |-> job[h].tier,
                    free |-> TRUE, status |-> "SUCCEEDED"]]
          BY <3>1 DEF Activate, FreeOrder, Smallest
        <4>2. job[h].pc = "activate"
          BY <3>1 DEF Activate
        <4> QED
          BY <4>1, <4>2
      <3>2. CASE CreatePayment(h)
        <4>1. PICK o \in OrderIds :
                 orders' = [orders EXCEPT ![o] =
                   [usage |-> job[h].usage, user |-> job[h].user, tier |-> job[h].tier,
                    free |-> FALSE, status |-> "PENDING"]]
          BY <1>3, <3>2 DEF CreatePayment, FreeOrder, Smallest
        <4> QED
          BY <4>1
      <3> QED
        BY <3>1, <3>2
    <2>2. /\ orders'[o].usage = job[h].usage /\ orders'[o].free => job[h].pc = "activate"
          /\ \A p \in OrderIds \ {o} : orders'[p] = orders[p]
      BY <2>1 DEF Inv, Shapes
    <2>3. JobFits(usages', job[h])
      BY StillFits
    <2>4. OrderFits(usages', orders'[o])
      BY <2>1, <2>3 DEF OrderFits, JobFits, Inv, Shapes
    <2>5. \A p \in OrderIds : OrderFits(usages', orders'[p])
      BY <2>2, <2>4, StillFits
    <2> QED
      BY <1>1, <2>5, ForgetFits, StillFits DEF Quoted
  <1> QED
    BY <1>2, <1>3

LEMMA QuotedStep ==
    Inv /\ Quoted /\ [Next]_vars => Quoted'
  <1> SUFFICES ASSUME Inv, Quoted, [Next]_vars PROVE Quoted'
    OBVIOUS
  <1>0. TierKept
    BY TiersStay
  <1>1. ASSUME NEW h \in Handlers, Fail(h)
        PROVE  Quoted'
    BY <1>0, <1>1, ForgetFits, StillFits DEF Fail, Quoted
  <1>2. ASSUME NEW h \in Handlers, Chatting(h)
        PROVE  Quoted'
    BY <1>0, <1>1, <1>2, StartFits, ReserveFits, HandOverFits, ClearFits, OrderFitsStep
       DEF Chatting
  <1>3. ASSUME NEW u \in Users, NEW t \in Tiers, HandlePaymentInitiation(u, t)
        PROVE  Quoted'
    <2>1. UNCHANGED <<usages, job, orders>>
      BY <1>3 DEF HandlePaymentInitiation
    <2>2. \A v \in Users : chat'[v].usage = chat[v].usage /\ chat'[v].final = chat[v].final
      BY <1>3 DEF HandlePaymentInitiation, Inv, Shapes, Chat
    <2> QED
      BY <2>1, <2>2 DEF Quoted
  <1>4. ASSUME NEW o \in OrderIds, PaymentSucceeds(o) \/ PaymentCanceled(o)
        PROVE  Quoted'
    <2>1. UNCHANGED <<chat, job>> /\ orders[o] \in Order /\ orders[o] # None
      BY <1>4 DEF PaymentSucceeds, PaymentCanceled, Inv, Shapes
    <2>2. /\ orders'[o].usage = orders[o].usage /\ orders'[o].free = orders[o].free
          /\ \A p \in OrderIds \ {o} : orders'[p] = orders[p]
      BY <1>4, <2>1 DEF PaymentSucceeds, PaymentCanceled, Inv, Shapes, Order
    <2>3. \A p \in OrderIds : OrderFits(usages', orders[p])
      BY <1>0, StillFits
    <2>4. \A p \in OrderIds : OrderFits(usages', orders'[p])
      BY <2>1, <2>2, <2>3 DEF OrderFits
    <2> QED
      BY <1>0, <2>1, <2>4, StillFits DEF Quoted
  <1>5. ASSUME UNCHANGED <<chat, job, orders>>
        PROVE  Quoted'
    BY <1>0, <1>5, StillFits DEF Quoted
  <1>6. ASSUME NEW i \in UsageIds, ReservationExpires(i)
        PROVE  Quoted'
    BY <1>5, <1>6 DEF ReservationExpires
  <1>7. CASE Toggle \/ UNCHANGED vars
    BY <1>5, <1>7 DEF Toggle, vars
  <1> QED
    BY <1>2, <1>3, <1>4, <1>6, <1>7 DEF Next

(* Nobody is activated without a payment on a reservation that leaves      *)
(* something to pay, however old buttons, restarted checkouts, e-mails,    *)
(* crashes and updates at the same time mix up the chat.                   *)
THEOREM NothingIsFree == Spec => []FreeIsCovered
  <1>1. Inv /\ Quoted => FreeIsCovered
    <2> SUFFICES ASSUME Inv, Quoted, NEW o \in OrderIds, orders[o] # None, orders[o].free
                 PROVE  Remainder[usages[orders[o].usage].tier] = "below"
      BY DEF FreeIsCovered
    <2>1. Cost(usages, orders[o].usage) = "0"
      BY DEF Quoted, OrderFits
    <2>2. usages[orders[o].usage] \in PromoCodeUsage
      BY NoneIsNoId DEF Inv, Shapes, Order, OwnReservation, Holds
    <2>3. Remainder[usages[orders[o].usage].tier] \in {"above", "zero", "below"}
      BY <2>2, PromoAssumption DEF PromoCodeUsage
    <2> QED
      BY <2>1, <2>3 DEF Cost, FinalAmount
  <1> QED
    BY <1>1, InvInit, InvStep, QuotedInit, QuotedStep, PTL DEF Spec
=============================================================================
