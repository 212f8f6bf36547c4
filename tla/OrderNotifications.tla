------------------------ MODULE OrderNotifications -------------------------
(***************************************************************************)
(* The orders of one marketplace account: the job that polls the           *)
(* marketplace and announces new orders in Telegram, the job that resends  *)
(* what was stored but not announced, and the digest of FBO orders.  Runs  *)
(* of these jobs overlap.  A tick of the clock is the ten minutes by which *)
(* the window of a poll overlaps the previous one.                         *)
(***************************************************************************)
EXTENDS Integers, FiniteSets

CONSTANTS
    Orders,       \* orders of the marketplace, numbered
    Fbo,          \* those of sale model FBO; the others are FBS-like
    Sessions,     \* runs of poll_new_orders and resend_unnotified_orders
    Marketplace,  \* "WB" or "OZON"
    FboMode,      \* "instant", "digest", "daily", or "off": fbo_enabled false
    Limit,        \* limit of pending_unnotified_for_account
    FboFails,     \* whether the FBO request of Ozon may fail
    Crashes,      \* whether runs may fail or die half-way
    MaxPoll,      \* ticks from the requests of a poll to its commit
    MaxTime,      \* bound of the clock
    None          \* NULL

ASSUME OrdersAssumption ==
    /\ Orders \subseteq Nat /\ IsFiniteSet(Orders) /\ Fbo \subseteq Orders
    /\ Marketplace \in {"WB", "OZON"}
    /\ FboMode \in {"instant", "digest", "daily", "off"}
    /\ FboFails \in BOOLEAN /\ Crashes \in BOOLEAN
    /\ Limit \in Nat /\ MaxPoll \in Nat /\ MaxTime \in Nat
ASSUME NoneAssumption == None \notin Int

VARIABLES
    clock,     \* ticks
    placed,    \* when each order was placed
    cursor,    \* marketplace_accounts.last_order_poll_at
    received,  \* orders: rank by event_received_at, None if there is no row
    notified,  \* orders.first_notified_at is set
    digest,    \* fbo_digest_queue: no row, to send, sent_at is set
    session,   \* what each run has read and is about to do
    gathered,  \* rows of the digest that is being sent
    sent,      \* how often Telegram delivered a card; two stands for more
    refused,   \* cards that Telegram refused for good
    told       \* orders in a digest that Telegram delivered

vars == <<clock, placed, cursor, received, notified, digest, session, gathered,
          sent, refused, told>>

Overlap == 1
Time == 0..MaxTime
Session == [pc : {"idle", "process", "save", "deliver", "mark"}, at : Time,
            got : SUBSET Orders, moves : BOOLEAN, new : SUBSET Orders,
            queue : SUBSET Orders, list : SUBSET Orders, order : Orders \cup {None}]
Idle == [pc |-> "idle", at |-> 0, got |-> {}, moves |-> FALSE, new |-> {},
         queue |-> {}, list |-> {}, order |-> None]

Placed == {o \in Orders : placed[o] # None}
Stored == {o \in Orders : received[o] # None}
Fbs == Orders \ Fbo

(* OrderNotificationPolicy, for a user with notifications.                 *)
ShouldQueueDigest(o) == o \in Fbo /\ FboMode = "digest"
IsInstant(o) == o \in Fbo => FboMode = "instant"
(* What _append_saved_unnotified asks: of FBO orders only that they are on.*)
IsSavedSent(o) == o \in Fbo => FboMode # "off"

-----------------------------------------------------------------------------
(***************************************************************************)
(* The marketplace, the clock and the other imports.                       *)
(***************************************************************************)
PlaceOrder(o) ==
    /\ placed[o] = None
    /\ placed' = [placed EXCEPT ![o] = clock]
    /\ UNCHANGED <<clock, cursor, received, notified, digest, session, gathered,
                   sent, refused, told>>

Polling(s) == session[s].pc \in {"process", "save"}
Tick ==
    /\ clock < MaxTime
    /\ \A s \in Sessions : Polling(s) => clock < session[s].at + MaxPoll
    /\ clock' = clock + 1
    /\ UNCHANGED <<placed, cursor, received, notified, digest, session, gathered,
                   sent, refused, told>>

Rank == Cardinality(Stored)
(* sync_sale_events and history backfill upsert orders and tell nobody.    *)
StoreElsewhere(o) ==
    /\ o \in Placed \ Stored
    /\ received' = [received EXCEPT ![o] = Rank]
    /\ UNCHANGED <<clock, placed, cursor, notified, digest, session, gathered,
                   sent, refused, told>>

-----------------------------------------------------------------------------
(***************************************************************************)
(* poll_new_orders.                                                        *)
(***************************************************************************)
(* The first poll looks back 24 hours.                                     *)
PollWindow == {o \in Placed : cursor = None \/ placed[o] >= cursor - Overlap}

(* live: FBS-like orders that the marketplace lists as new or unfulfilled. *)
Begin(s, got, moves) ==
    session' = [session EXCEPT ![s] = [Idle EXCEPT !.pc = "process", !.at = clock,
                                                   !.got = got, !.moves = moves]]

FetchWb(s, live) ==
    /\ Marketplace = "WB"
    /\ \/ Begin(s, live \cup (PollWindow \ Fbo), TRUE)
       \/ Begin(s, live, FALSE)                     \* recovery_failed

FetchOzon(s, live) ==
    /\ Marketplace = "OZON"
    /\ \/ Begin(s, live \cup PollWindow, TRUE)
       \/ FboFails /\ Begin(s, live \cup (PollWindow \ Fbo), TRUE)

FetchOrders(s) ==
    /\ session[s].pc = "idle"
    /\ \E live \in SUBSET (Placed \ Fbo) : FetchWb(s, live) \/ FetchOzon(s, live)
    /\ UNCHANGED <<clock, placed, cursor, received, notified, digest, gathered,
                   sent, refused, told>>

Before(rank, a, b) == rank[a] < rank[b] \/ (rank[a] = rank[b] /\ a < b)
\* Mutant: the query does not ask for first_notified_at.
OldestRows(rank) ==
    LET rows == {o \in Orders : rank[o] # None}
    IN  {o \in rows \ notified :
            Cardinality({k \in rows : Before(rank, k, o)}) < Limit}
(* pending_unnotified_for_account: the oldest ones first, at most Limit.   *)
Pending(rank) ==
    LET waiting == {o \in Orders : rank[o] # None /\ o \notin notified}
    IN  {o \in waiting :
            Cardinality({k \in waiting : Before(rank, k, o)}) < Limit}
SavedUnnotified(rank) == {o \in Pending(rank) : IsSavedSent(o)}

(* New rows, the digest, and cards of the orders not announced yet.  What  *)
(* fails after the row of an order is flushed only skips the rest.         *)
WithNew(new) == [o \in Orders |-> IF o \in new THEN Rank ELSE received[o]]
ProcessOrders(s) ==
    /\ session[s].pc = "process"
    /\ \E done \in SUBSET session[s].got :
          /\ Crashes \/ done = session[s].got
          /\ session' = [session EXCEPT ![s] = [session[s] EXCEPT
                !.pc = "save",
                !.new = session[s].got \ Stored,
                !.queue = {o \in done \ Stored : ShouldQueueDigest(o)},
                !.list = {o \in done : IsInstant(o) /\ o \notin notified}
                            \cup SavedUnnotified(WithNew(session[s].got \ Stored))]]
    /\ UNCHANGED <<clock, placed, cursor, received, notified, digest, gathered,
                   sent, refused, told>>

Deliver(s, list) ==
    session' = [session EXCEPT ![s] =
        IF list = {} THEN Idle ELSE [Idle EXCEPT !.pc = "deliver", !.list = list]]

\* Mutant: the cursor moves whether or not the recovery request failed.
MoveAlways(s) == clock
MoveCursor(s) == IF session[s].moves THEN clock ELSE cursor

(* uq_orders_account_marketplace_external makes the poll fail as a whole   *)
(* if another run has stored one of its orders meanwhile.                  *)
SaveOrders(s) ==
    /\ session[s].pc = "save" /\ session[s].new \cap Stored = {}
    /\ received' = WithNew(session[s].new) /\ Deliver(s, session[s].list)
    /\ digest' = [o \in Orders |->
          IF o \in session[s].queue THEN "queued" ELSE digest[o]]
    /\ cursor' = MoveCursor(s)
    /\ UNCHANGED <<clock, placed, notified, gathered, sent, refused, told>>

SaveRefused(s) ==
    /\ session[s].pc = "save" /\ session[s].new \cap Stored # {}
    /\ session' = [session EXCEPT ![s] = Idle]
    /\ UNCHANGED <<clock, placed, cursor, received, notified, digest, gathered,
                   sent, refused, told>>

(* resend_unnotified_orders.                                               *)
CollectSaved(s) ==
    /\ session[s].pc = "idle" /\ SavedUnnotified(received) # {}
    /\ Deliver(s, SavedUnnotified(received))
    /\ UNCHANGED <<clock, placed, cursor, received, notified, digest, gathered,
                   sent, refused, told>>

-----------------------------------------------------------------------------
(***************************************************************************)
(* _deliver_new_order_notifications.                                       *)
(***************************************************************************)
Listed(s, o) == session[s].pc = "deliver" /\ o \in session[s].list

\* Mutant: the loop forgets which order it is at.
SendNameless(s, o) ==
    /\ Listed(s, o) /\ sent' = [sent EXCEPT ![o] = IF @ = 2 THEN 2 ELSE @ + 1]
    /\ session' = [session EXCEPT ![s].pc = "mark"]
    /\ UNCHANGED <<clock, placed, cursor, received, notified, digest, gathered,
                   refused, told>>
(* Nobody asks again whether the order has been announced meanwhile.       *)
SendCard(s, o) ==
    /\ Listed(s, o)
    /\ sent' = [sent EXCEPT ![o] = IF @ = 2 THEN 2 ELSE @ + 1]
    /\ session' = [session EXCEPT ![s] = [session[s] EXCEPT !.pc = "mark", !.order = o]]
    /\ UNCHANGED <<clock, placed, cursor, received, notified, digest, gathered,
                   refused, told>>

MarkNotified(s) ==
    /\ session[s].pc = "mark"
    /\ notified' = notified \cup {session[s].order}
    /\ Deliver(s, session[s].list \ {session[s].order})
    /\ UNCHANGED <<clock, placed, cursor, received, digest, gathered, sent, refused,
                   told>>

(* The card is delivered, but the mark is rolled back; the loop goes on.   *)
MarkFails(s) ==
    /\ Crashes /\ session[s].pc = "mark"
    /\ Deliver(s, session[s].list \ {session[s].order})
    /\ UNCHANGED <<clock, placed, cursor, received, notified, digest, gathered, sent,
                   refused, told>>

\* Mutant: every failure is final.
MarkFailed(s, o) ==
    /\ Listed(s, o) /\ notified' = notified \cup {o}
    /\ Deliver(s, session[s].list \ {o})
    /\ UNCHANGED <<clock, placed, cursor, received, digest, gathered, sent, refused,
                   told>>
SendFails(s, o) ==
    /\ Listed(s, o)
    /\ Deliver(s, session[s].list \ {o})
    /\ UNCHANGED <<clock, placed, cursor, received, notified, digest, gathered, sent,
                   refused, told>>

(* The user has blocked the bot.                                           *)
SendRefused(s, o) ==
    /\ Listed(s, o)
    /\ refused' = refused \cup {o} /\ notified' = notified \cup {o}
    /\ Deliver(s, session[s].list \ {o})
    /\ UNCHANGED <<clock, placed, cursor, received, digest, gathered, sent, told>>

Dies(s) ==
    /\ Crashes /\ session[s].pc # "idle"
    /\ session' = [session EXCEPT ![s] = Idle]
    /\ UNCHANGED <<clock, placed, cursor, received, notified, digest, gathered, sent,
                   refused, told>>

(***************************************************************************)
(* send_fbo_digests.                                                       *)
(***************************************************************************)
Queued == {o \in Orders : digest[o] = "queued"}
SendDigest ==
    /\ gathered = {} /\ Queued # {}
    /\ gathered' = Queued
    /\ told' = told \cup Queued
    /\ UNCHANGED <<clock, placed, cursor, received, notified, digest, session, sent,
                   refused>>

\* Mutants: every row that waits is marked; none is.
MarkAll == Queued
MarkNone == {}
MarkedRows == gathered
MarkDigest ==
    /\ gathered # {} /\ gathered' = {}
    /\ digest' = [o \in Orders |-> IF o \in MarkedRows THEN "sent" ELSE digest[o]]
    /\ UNCHANGED <<clock, placed, cursor, received, notified, session, sent, refused,
                   told>>

DigestDies ==
    /\ Crashes /\ gathered # {} /\ gathered' = {}
    /\ UNCHANGED <<clock, placed, cursor, received, notified, digest, session, sent,
                   refused, told>>

-----------------------------------------------------------------------------
Init ==
    /\ clock = 0 /\ cursor = None
    /\ placed = [o \in Orders |-> None] /\ received = [o \in Orders |-> None]
    /\ notified = {} /\ digest = [o \in Orders |-> "none"]
    /\ session = [s \in Sessions |-> Idle] /\ gathered = {}
    /\ sent = [o \in Orders |-> 0] /\ refused = {} /\ told = {}

Poll(s) == ProcessOrders(s) \/ SaveOrders(s) \/ SaveRefused(s)
Answer(s, o) == SendCard(s, o) \/ SendFails(s, o) \/ SendRefused(s, o)

Next ==
    \/ Tick
    \/ \E o \in Orders : PlaceOrder(o) \/ StoreElsewhere(o)
    \/ \E s \in Sessions :
          \/ FetchOrders(s) \/ Poll(s) \/ CollectSaved(s)
          \/ \E o \in Orders : Answer(s, o)
          \/ MarkNotified(s) \/ MarkFails(s) \/ Dies(s)
    \/ SendDigest \/ MarkDigest \/ DigestDies

Spec == Init /\ [][Next]_vars

(* An open run does not stall, the cron starts both jobs again and again,  *)
(* runs are not killed for ever at the same place, and Telegram takes a    *)
(* card that it is offered again and again.                                *)
Fairness ==
    /\ \A s \in Sessions :
          /\ WF_vars(Poll(s)) /\ WF_vars(\E o \in Orders : Answer(s, o))
          /\ SF_vars(MarkNotified(s)) /\ SF_vars(CollectSaved(s))
    /\ \A o \in Orders : SF_vars(\E s \in Sessions : SendCard(s, o) \/ SendRefused(s, o))
    /\ WF_vars(SendDigest) /\ SF_vars(MarkDigest)
FairSpec == Spec /\ Fairness

-----------------------------------------------------------------------------
TypeOK ==
    /\ clock \in Time /\ cursor \in Time \cup {None}
    /\ placed \in [Orders -> Time \cup {None}]
    /\ received \in [Orders -> Nat \cup {None}]
    /\ notified \subseteq Orders /\ refused \subseteq Orders /\ told \subseteq Orders
    /\ digest \in [Orders -> {"none", "queued", "sent"}]
    /\ session \in [Sessions -> Session]
    /\ gathered \subseteq Orders
    /\ sent \in [Orders -> 0..2]

(* An order that the poll is responsible for is stored, or the next poll   *)
(* asks for it.  WB lists FBO orders only in its statistics.               *)
Polled == IF Marketplace = "WB" THEN Fbs ELSE Orders
NoOrderLost == \A o \in Polled \cap (Placed \ Stored) : o \in PollWindow

(* An order counts as announced only if Telegram delivered its card, or    *)
(* refused it for good.                                                    *)
NotifiedIsTrue == \A o \in notified : sent[o] > 0 \/ o \in refused

(* A row of the digest counts as sent only if it was in a digest.          *)
DigestIsTrue == \A o \in Orders : digest[o] = "sent" => o \in told

(* Whoever wants a digest of FBO orders gets no card for each of them.     *)
DigestInstead == FboMode = "digest" => \A o \in Fbo : sent[o] = 0

(* A stored order is announced, whichever job stored it and however often  *)
(* sending failed, unless FBO orders are off.                              *)
EveryOrderAnnounced ==
    \A o \in Orders : o \in Stored /\ IsSavedSent(o) ~> o \in notified

(* What is queued for the digest is sent in one.                           *)
DigestComes == \A o \in Orders : digest[o] = "queued" ~> digest[o] = "sent"
=============================================================================
