---------------------- MODULE OrderNotificationsProofs ----------------------
(***************************************************************************)
(* Proofs about OrderNotifications for any number of orders and runs.      *)
(***************************************************************************)
EXTENDS OrderLosses, TLAPS, FiniteSetTheorems

(* Ranks are numbers: there are finitely many rows.                        *)
LEMMA RankType == Rank \in Nat
BY OrdersAssumption, FS_Subset, FS_CardinalityType DEF Rank, Stored

(* A run that marks an order has had its card delivered.                   *)
MarksSent ==
    \A s \in Sessions : session[s].pc = "mark" =>
        /\ session[s].order \in Orders
        /\ sent[session[s].order] > 0

IInv == TypeOK /\ MarksSent

LEMMA IdleType == Idle \in Session
BY OrdersAssumption DEF Idle, Session, Time

(* What a delivery leaves behind in the run.                               *)
LEMMA DeliverType ==
    ASSUME TypeOK, MarksSent, NEW s \in Sessions, NEW list \in SUBSET Orders,
           Deliver(s, list), UNCHANGED sent
    PROVE  session' \in [Sessions -> Session] /\ MarksSent'
<1>1. [Idle EXCEPT !.pc = "deliver", !.list = list] \in Session
  BY IdleType DEF Idle, Session
<1>2. session' \in [Sessions -> Session]
  BY <1>1, IdleType DEF Deliver, TypeOK
<1>3. session'[s].pc # "mark" /\ \A r \in Sessions \ {s} : session'[r] = session[r]
  BY DEF Deliver, TypeOK, Idle
<1> QED BY <1>2, <1>3 DEF MarksSent

-----------------------------------------------------------------------------
(***************************************************************************)
(* Type correctness.                                                       *)
(***************************************************************************)
LEMMA InitInv == Init => IInv
BY IdleType, OrdersAssumption DEF Init, IInv, TypeOK, MarksSent, Idle, Time

LEMMA WorldInv ==
    ASSUME IInv, Tick \/ \E o \in Orders : PlaceOrder(o) \/ StoreElsewhere(o)
    PROVE  IInv'
<1> USE DEF IInv, TypeOK, MarksSent
<1>1. CASE Tick
  BY <1>1, OrdersAssumption DEF Tick, Time
<1>2. ASSUME NEW o \in Orders, PlaceOrder(o)
      PROVE  IInv'
  BY <1>2 DEF PlaceOrder
<1>3. ASSUME NEW o \in Orders, StoreElsewhere(o)
      PROVE  IInv'
  BY <1>3, RankType DEF StoreElsewhere
<1> QED BY <1>1, <1>2, <1>3

LEMMA PollInv ==
    ASSUME IInv, NEW s \in Sessions, FetchOrders(s) \/ Poll(s) \/ CollectSaved(s)
    PROVE  IInv'
<1> USE DEF IInv
<1>1. CASE FetchOrders(s)
  <2>1. PICK got \in SUBSET Orders, moves \in BOOLEAN : Begin(s, got, moves)
    <3>1. PollWindow \subseteq Orders
      BY DEF PollWindow, Placed
    <3>2. PICK live \in SUBSET (Placed \ Fbo) : FetchWb(s, live) \/ FetchOzon(s, live)
      BY <1>1 DEF FetchOrders
    <3>3. live \subseteq Orders
      BY DEF Placed
    <3> QED BY <3>1, <3>2, <3>3 DEF FetchWb, FetchOzon
  <2>2. [Idle EXCEPT !.pc = "process", !.at = clock, !.got = got, !.moves = moves] \in Session
    BY IdleType DEF Idle, Session, TypeOK
  <2>3. session' \in [Sessions -> Session]
    BY <2>1, <2>2 DEF Begin, TypeOK
  <2>4. session'[s].pc # "mark" /\ \A r \in Sessions \ {s} : session'[r] = session[r]
    BY <2>1 DEF Begin, TypeOK, Idle
  <2> QED BY <1>1, <2>3, <2>4 DEF FetchOrders, TypeOK, MarksSent
<1>2. CASE ProcessOrders(s)
  <2>1. PICK new \in SUBSET Orders, queue \in SUBSET Orders, list \in SUBSET Orders :
          session' = [session EXCEPT ![s] = [session[s] EXCEPT
              !.pc = "save", !.new = new, !.queue = queue, !.list = list]]
    <3>1. session[s].got \subseteq Orders
      BY DEF TypeOK, Session
    <3>2. SavedUnnotified(WithNew(session[s].got \ Stored)) \subseteq Orders
      BY DEF SavedUnnotified, Pending
    <3> QED BY <1>2, <3>1, <3>2 DEF ProcessOrders
  <2>2. [session[s] EXCEPT !.pc = "save", !.new = new, !.queue = queue, !.list = list]
          \in Session
    BY DEF TypeOK, Session
  <2>3. session' \in [Sessions -> Session]
    BY <2>1, <2>2 DEF TypeOK
  <2>4. session'[s].pc # "mark" /\ \A r \in Sessions \ {s} : session'[r] = session[r]
    BY <2>1 DEF TypeOK, Session
  <2> QED BY <1>2, <2>3, <2>4 DEF ProcessOrders, TypeOK, MarksSent
<1>3. CASE SaveOrders(s)
  <2>1. PICK list \in SUBSET Orders : Deliver(s, list)
    <3>1. session[s].list \subseteq Orders
      BY DEF TypeOK, Session
    <3> QED BY <1>3, <3>1 DEF SaveOrders
  <2>2. session' \in [Sessions -> Session] /\ MarksSent'
    BY <1>3, <2>1, DeliverType DEF SaveOrders
  <2>3. received' \in [Orders -> Nat \cup {None}]
    BY <1>3, RankType DEF SaveOrders, WithNew, TypeOK
  <2>4. digest' \in [Orders -> {"none", "queued", "sent"}]
    BY <1>3 DEF SaveOrders, TypeOK
  <2>5. cursor' \in Time \cup {None}
    BY <1>3 DEF SaveOrders, MoveCursor, TypeOK
  <2> QED BY <1>3, <2>2, <2>3, <2>4, <2>5 DEF SaveOrders, TypeOK
<1>4. CASE SaveRefused(s)
  BY <1>4, IdleType DEF SaveRefused, TypeOK, MarksSent, Idle
<1>5. CASE CollectSaved(s)
  <2>1. PICK list \in SUBSET Orders : Deliver(s, list)
    BY <1>5 DEF CollectSaved, SavedUnnotified, Pending
  <2>2. session' \in [Sessions -> Session] /\ MarksSent'
    BY <1>5, <2>1, DeliverType DEF CollectSaved
  <2> QED BY <1>5, <2>2 DEF CollectSaved, TypeOK
<1> QED BY <1>1, <1>2, <1>3, <1>4, <1>5 DEF Poll

LEMMA DeliveryInv ==
    ASSUME IInv, NEW s \in Sessions,
           \/ \E o \in Orders : Answer(s, o)
           \/ MarkNotified(s) \/ MarkFails(s) \/ Dies(s)
    PROVE  IInv'
<1> USE DEF IInv
<1>1. ASSUME NEW o \in Orders, SendCard(s, o)
      PROVE  IInv'
  <2>1. [session[s] EXCEPT !.pc = "mark", !.order = o] \in Session
    BY DEF TypeOK, Session
  <2>2. session' \in [Sessions -> Session]
    BY <1>1, <2>1 DEF SendCard, TypeOK
  <2>3. sent' \in [Orders -> 0..2] /\ sent'[o] > 0
    BY <1>1 DEF SendCard, TypeOK
  <2>4. \A k \in Orders : sent'[k] >= sent[k]
    BY <1>1 DEF SendCard, TypeOK
  <2>5. \A r \in Sessions \ {s} : session'[r] = session[r]
    BY <1>1 DEF SendCard, TypeOK
  <2>6. session'[s].order = o
    BY <1>1 DEF SendCard, TypeOK, Session
  <2>7. MarksSent'
    <3> SUFFICES ASSUME NEW r \in Sessions, session'[r].pc = "mark"
                 PROVE  session'[r].order \in Orders /\ sent'[session'[r].order] > 0
      BY DEF MarksSent
    <3>1. CASE r = s
      BY <3>1, <2>3, <2>6
    <3>2. CASE r # s
      BY <3>2, <2>3, <2>4, <2>5 DEF MarksSent, TypeOK
    <3> QED BY <3>1, <3>2
  <2> QED BY <1>1, <2>2, <2>3, <2>7 DEF SendCard, TypeOK
<1>2. ASSUME NEW o \in Orders, SendFails(s, o)
      PROVE  IInv'
  <2>1. session[s].list \ {o} \subseteq Orders
    BY DEF TypeOK, Session
  <2> QED BY <1>2, <2>1, DeliverType DEF SendFails, TypeOK
<1>3. ASSUME NEW o \in Orders, SendRefused(s, o)
      PROVE  IInv'
  <2>1. session[s].list \ {o} \subseteq Orders
    BY DEF TypeOK, Session
  <2> QED BY <1>3, <2>1, DeliverType DEF SendRefused, TypeOK
<1>4. CASE MarkNotified(s)
  <2>1. session[s].list \ {session[s].order} \subseteq Orders
    BY DEF TypeOK, Session
  <2>2. session[s].order \in Orders
    BY <1>4 DEF MarkNotified, MarksSent
  <2> QED BY <1>4, <2>1, <2>2, DeliverType DEF MarkNotified, TypeOK
<1>5. CASE MarkFails(s)
  <2>1. session[s].list \ {session[s].order} \subseteq Orders
    BY DEF TypeOK, Session
  <2> QED BY <1>5, <2>1, DeliverType DEF MarkFails, TypeOK
<1>6. CASE Dies(s)
  BY <1>6, IdleType DEF Dies, TypeOK, MarksSent, Idle
<1> QED BY <1>1, <1>2, <1>3, <1>4, <1>5, <1>6 DEF Answer

LEMMA DigestInv ==
    ASSUME IInv, SendDigest \/ MarkDigest \/ DigestDies
    PROVE  IInv'
<1> USE DEF IInv, TypeOK, MarksSent
<1>1. CASE SendDigest
  BY <1>1 DEF SendDigest, Queued
<1>2. CASE MarkDigest
  BY <1>2 DEF MarkDigest
<1>3. CASE DigestDies
  BY <1>3 DEF DigestDies
<1> QED BY <1>1, <1>2, <1>3

LEMMA StepInv == IInv /\ [Next]_vars => IInv'
<1> SUFFICES ASSUME IInv, [Next]_vars PROVE IInv'
  OBVIOUS
<1>1. CASE UNCHANGED vars
  BY <1>1 DEF vars, IInv, TypeOK, MarksSent
<1>2. CASE Next
  BY <1>2, WorldInv, PollInv, DeliveryInv, DigestInv DEF Next
<1> QED BY <1>1, <1>2

(* Clock, rows, digest and runs always have values the code gives them; in *)
(* particular a run that marks an order names one.                         *)
THEOREM TypeCorrect == Spec => []TypeOK
<1>1. IInv => TypeOK
  BY DEF IInv
<1> QED BY InitInv, StepInv, <1>1, PTL DEF Spec

-----------------------------------------------------------------------------
(***************************************************************************)
(* The marks are true: they are set after the message, and what a digest   *)
(* marks is what it told.                                                  *)
(***************************************************************************)
GatheredTold == gathered \subseteq told

MarkInv == NotifiedIsTrue /\ DigestIsTrue /\ GatheredTold

LEMMA InitMarks == Init => MarkInv
BY DEF Init, MarkInv, NotifiedIsTrue, DigestIsTrue, GatheredTold

LEMMA StepMarks == IInv /\ MarkInv /\ [Next]_vars => MarkInv'
<1> SUFFICES ASSUME IInv, MarkInv, [Next]_vars PROVE MarkInv'
  OBVIOUS
<1> USE DEF IInv, MarkInv, TypeOK, NotifiedIsTrue, DigestIsTrue, GatheredTold
<1>1. CASE UNCHANGED vars
  BY <1>1 DEF vars
<1>2. CASE Tick
  BY <1>2 DEF Tick
<1>3. ASSUME NEW o \in Orders, PlaceOrder(o) \/ StoreElsewhere(o)
      PROVE  MarkInv'
  BY <1>3 DEF PlaceOrder, StoreElsewhere
<1>4. ASSUME NEW s \in Sessions, FetchOrders(s) \/ Poll(s) \/ CollectSaved(s)
      PROVE  MarkInv'
  <2>1. CASE SaveOrders(s)
    BY <2>1 DEF SaveOrders
  <2>2. CASE FetchOrders(s) \/ ProcessOrders(s) \/ SaveRefused(s) \/ CollectSaved(s)
    BY <2>2 DEF FetchOrders, ProcessOrders, SaveRefused, CollectSaved
  <2> QED BY <1>4, <2>1, <2>2 DEF Poll
<1>5. ASSUME NEW s \in Sessions, NEW o \in Orders, Answer(s, o)
      PROVE  MarkInv'
  <2>1. CASE SendCard(s, o)
    BY <2>1 DEF SendCard
  <2>2. CASE SendFails(s, o)
    BY <2>2 DEF SendFails
  <2>3. CASE SendRefused(s, o)
    BY <2>3 DEF SendRefused
  <2> QED BY <1>5, <2>1, <2>2, <2>3 DEF Answer
<1>6. ASSUME NEW s \in Sessions, MarkNotified(s)
      PROVE  MarkInv'
  BY <1>6 DEF MarkNotified, MarksSent
<1>7. ASSUME NEW s \in Sessions, MarkFails(s) \/ Dies(s)
      PROVE  MarkInv'
  BY <1>7 DEF MarkFails, Dies
<1>8. CASE SendDigest
  BY <1>8 DEF SendDigest
<1>9. CASE MarkDigest
  BY <1>9 DEF MarkDigest, MarkedRows
<1>10. CASE DigestDies
  BY <1>10 DEF DigestDies
<1> QED BY <1>1, <1>2, <1>3, <1>4, <1>5, <1>6, <1>7, <1>8, <1>9, <1>10 DEF Next

(* However runs overlap, fail and die, an order is marked as announced     *)
(* only after Telegram took or refused its card.                           *)
THEOREM MarksAreTrue == Spec => []NotifiedIsTrue
<1>1. MarkInv => NotifiedIsTrue
  BY DEF MarkInv
<1> QED BY InitInv, StepInv, InitMarks, StepMarks, <1>1, PTL DEF Spec

(* A row is marked as told only after a digest that counted it, even if a  *)
(* run dies between a digest and its commit and rows join the queue        *)
(* meanwhile.                                                              *)
THEOREM DigestsAreTrue == Spec => []DigestIsTrue
<1>1. MarkInv => DigestIsTrue
  BY DEF MarkInv
<1> QED BY InitInv, StepInv, InitMarks, StepMarks, <1>1, PTL DEF Spec

-----------------------------------------------------------------------------
(***************************************************************************)
(* What is lost.  A poll takes over what the last cursor left out, so it   *)
(* must fetch, or have in the database, each order placed before its       *)
(* requests, unless the history says that these failed; its commit moves   *)
(* the cursor past nothing else, unless it comes too late.                 *)
(***************************************************************************)
Excused == outrun \cup overlooked

PollsTakeOver ==
    \A s \in Sessions : Polling(s) =>
        /\ session[s].at <= clock
        /\ session[s].pc = "save" => session[s].got \subseteq session[s].new \cup Stored
        /\ session[s].moves =>
              \A o \in Polled \cap Placed :
                  o \in Stored \cup session[s].got \cup Excused \/ placed[o] >= session[s].at

PastCursor == cursor # None => cursor <= clock
LostInv == OnlyTheseAreLost /\ PollsTakeOver /\ PastCursor /\ Outrun \subseteq outrun

LEMMA InitLost == HInit => LostInv
BY DEF HInit, Init, LostInv, OnlyTheseAreLost, PollsTakeOver, PastCursor, Placed, Polling,
       Idle, Outrun

(* The history is never forgotten, and misses no slow poll and no failure. *)
LEMMA HistoryGrows ==
    ASSUME HNext
    PROVE  /\ Next /\ Excused \subseteq Excused'
           /\ Outrun' \subseteq outrun' /\ Overlooked \subseteq Excused'
BY DEF HNext, Excused

(* What leaves orders, clock and cursor alone and starts no poll.          *)
LEMMA LostFrame ==
    ASSUME IInv, LostInv, Excused \subseteq Excused',
           UNCHANGED <<clock, placed, cursor, received>>,
           \A s \in Sessions : session'[s] = session[s]
                \/ session'[s].pc \notin {"process", "save"}
    PROVE  (OnlyTheseAreLost /\ PollsTakeOver /\ PastCursor)'
<1>1. \A s \in Sessions : Polling(s)' => Polling(s) /\ session'[s] = session[s]
  BY DEF Polling
<1>2. Placed' = Placed /\ Stored' = Stored /\ PollWindow' = PollWindow
  BY DEF Placed, Stored, PollWindow
<1>3. OnlyTheseAreLost'
  BY <1>2 DEF LostInv, OnlyTheseAreLost, Excused, Polled
<1>4. PollsTakeOver'
  BY <1>1, <1>2 DEF LostInv, PollsTakeOver, Polled
<1> QED BY <1>3, <1>4 DEF LostInv, PastCursor

LEMMA DeliverEnds ==
    ASSUME IInv, NEW s \in Sessions, NEW list, Deliver(s, list)
    PROVE  \A r \in Sessions : session'[r] = session[r]
                \/ session'[r].pc \notin {"process", "save"}
BY DEF IInv, TypeOK, Deliver, Idle

LEMMA WorldLost ==
    ASSUME IInv, LostInv, Excused \subseteq Excused',
           Tick \/ \E o \in Orders : PlaceOrder(o) \/ StoreElsewhere(o)
    PROVE  (OnlyTheseAreLost /\ PollsTakeOver /\ PastCursor)'
<1> USE DEF IInv, TypeOK, LostInv, PastCursor
<1>1. CASE Tick
  <2>1. UNCHANGED <<placed, cursor, received, session>> /\ clock' = clock + 1
    BY <1>1 DEF Tick
  <2>2. Placed' = Placed /\ Stored' = Stored /\ PollWindow' = PollWindow
    BY <2>1 DEF Placed, Stored, PollWindow
  <2>3. OnlyTheseAreLost' /\ PastCursor'
    BY <2>1, <2>2 DEF OnlyTheseAreLost, Excused, Polled, Time
  <2>4. ASSUME NEW s \in Sessions, Polling(s)
        PROVE  session[s].at <= clock'
    <3>1. session[s].at \in Nat /\ session[s].at <= clock
      BY <2>4 DEF Session, Time, PollsTakeOver
    <3> QED BY <2>1, <3>1 DEF Time
  <2>5. PollsTakeOver'
    BY <2>1, <2>2, <2>4 DEF PollsTakeOver, Polling, Polled
  <2> QED BY <2>3, <2>5
<1>2. ASSUME NEW o \in Orders, PlaceOrder(o)
      PROVE  (OnlyTheseAreLost /\ PollsTakeOver /\ PastCursor)'
  <2>1. Placed' = Placed \cup {o} /\ Stored' = Stored /\ placed'[o] = clock
    BY <1>2, OrdersAssumption, NoneAssumption DEF PlaceOrder, Placed, Stored, Time
  <2>2. \A k \in Placed : placed'[k] = placed[k]
    BY <1>2 DEF PlaceOrder, Placed
  <2>3. o \in PollWindow'
    BY <1>2, <2>1, OrdersAssumption, NoneAssumption
       DEF PlaceOrder, PollWindow, Overlap, Time
  <2>4. PollWindow \subseteq PollWindow'
    BY <1>2, <2>1, <2>2 DEF PollWindow, PlaceOrder
  <2>5. OnlyTheseAreLost'
    BY <2>1, <2>3, <2>4 DEF OnlyTheseAreLost, Excused, Polled
  <2>6. PollsTakeOver'
    BY <1>2, <2>1, <2>2 DEF PlaceOrder, PollsTakeOver, Polling, Polled
  <2> QED BY <1>2, <2>5, <2>6 DEF PlaceOrder
<1>3. ASSUME NEW o \in Orders, StoreElsewhere(o)
      PROVE  (OnlyTheseAreLost /\ PollsTakeOver /\ PastCursor)'
  <2>1. Stored \subseteq Stored'
    BY <1>3, RankType, NoneAssumption DEF StoreElsewhere, Stored
  <2>2. Placed' = Placed /\ PollWindow' = PollWindow /\ session' = session
    BY <1>3 DEF StoreElsewhere, Placed, PollWindow
  <2>3. OnlyTheseAreLost'
    BY <1>3, <2>1, <2>2 DEF StoreElsewhere, OnlyTheseAreLost, Excused, Polled
  <2>4. PollsTakeOver'
    BY <1>3, <2>1, <2>2 DEF StoreElsewhere, PollsTakeOver, Polling, Polled
  <2> QED BY <1>3, <2>3, <2>4 DEF StoreElsewhere
<1> QED BY <1>1, <1>2, <1>3

LEMMA FetchLost ==
    ASSUME IInv, LostInv, Excused \subseteq Excused', Overlooked \subseteq Excused',
           NEW s \in Sessions, FetchOrders(s)
    PROVE  (OnlyTheseAreLost /\ PollsTakeOver /\ PastCursor)'
<1> USE DEF IInv, TypeOK, LostInv
<1>1. PICK live \in SUBSET (Placed \ Fbo) : FetchWb(s, live) \/ FetchOzon(s, live)
  BY DEF FetchOrders
<1>2. PICK got \in SUBSET Orders, moves \in BOOLEAN :
        /\ Begin(s, got, moves)
        /\ moves => \A o \in Polled \cap PollWindow :
                       o \in got \/ (o \in Fbo /\ Marketplace = "OZON")
  <2>1. PollWindow \subseteq Orders /\ live \subseteq Orders
    BY DEF PollWindow, Placed
  <2>2. CASE FetchWb(s, live)
    <3>1. Polled \cap PollWindow \subseteq live \cup (PollWindow \ Fbo)
      BY <2>2 DEF FetchWb, Polled, Fbs
    <3>2. live \cup (PollWindow \ Fbo) \in SUBSET Orders
      BY <2>1
    <3>3. CASE Begin(s, live \cup (PollWindow \ Fbo), TRUE)
      BY <3>1, <3>2, <3>3
    <3>4. CASE Begin(s, live, FALSE)
      BY <2>1, <3>4
    <3> QED BY <2>2, <3>3, <3>4 DEF FetchWb
  <2>3. CASE FetchOzon(s, live)
    <3>1. \E got \in {live \cup PollWindow, live \cup (PollWindow \ Fbo)} : Begin(s, got, TRUE)
      BY <2>3 DEF FetchOzon
    <3>2. Marketplace = "OZON"
      BY <2>3 DEF FetchOzon
    <3> QED BY <2>1, <3>1, <3>2
  <2> QED BY <1>1, <2>2, <2>3
<1>3. /\ session'[s].pc = "process" /\ session'[s].at = clock
      /\ session'[s].got = got /\ session'[s].moves = moves
  BY <1>2 DEF Begin, Idle
<1>4. \A r \in Sessions \ {s} : session'[r] = session[r]
  BY <1>2 DEF Begin
<1>5. UNCHANGED <<clock, placed, cursor, received>> /\ session[s].pc = "idle"
  BY DEF FetchOrders
<1>6. Placed' = Placed /\ Stored' = Stored /\ PollWindow' = PollWindow
  BY <1>5 DEF Placed, Stored, PollWindow
<1>7. \A o \in Polled \cap Placed : o \in Stored \cup Excused \/ o \in PollWindow
  BY DEF OnlyTheseAreLost, Excused
<1>8. moves => \A o \in Polled \cap PollWindow : o \in got \cup Excused'
  <2> SUFFICES ASSUME moves, NEW o \in Polled \cap PollWindow, o \notin got
               PROVE  o \in Excused'
    OBVIOUS
  <2>1. o \in Fbo /\ Marketplace = "OZON"
    BY <1>2
  <2>2. o \in Overlooked
    BY <1>3, <1>5, <2>1 DEF Overlooked
  <2> QED BY <2>2
<1>9. PollsTakeOver'
  <2> SUFFICES ASSUME NEW r \in Sessions, Polling(r)'
               PROVE  /\ session'[r].at <= clock
                      /\ session'[r].pc = "save" =>
                            session'[r].got \subseteq session'[r].new \cup Stored
                      /\ session'[r].moves =>
                            \A o \in Polled \cap Placed :
                               \/ o \in Stored \cup session'[r].got \cup Excused'
                               \/ placed[o] >= session'[r].at
    BY <1>5, <1>6 DEF PollsTakeOver, Polled
  <2>1. CASE r = s
    BY <2>1, <1>3, <1>7, <1>8 DEF Time
  <2>2. CASE r # s
    BY <2>2, <1>4 DEF PollsTakeOver, Polling
  <2> QED BY <2>1, <2>2
<1>10. OnlyTheseAreLost'
  BY <1>5, <1>6 DEF OnlyTheseAreLost, Excused, Polled
<1> QED BY <1>5, <1>9, <1>10 DEF PastCursor

LEMMA ProcessLost ==
    ASSUME IInv, LostInv, Excused \subseteq Excused', NEW s \in Sessions, ProcessOrders(s)
    PROVE  (OnlyTheseAreLost /\ PollsTakeOver /\ PastCursor)'
<1> USE DEF IInv, TypeOK, LostInv
<1>1. PICK queue, list :
        session' = [session EXCEPT ![s] = [session[s] EXCEPT
            !.pc = "save", !.new = session[s].got \ Stored, !.queue = queue,
            !.list = list]]
  BY DEF ProcessOrders
<1>2. /\ session'[s].pc = "save" /\ session'[s].at = session[s].at
      /\ session'[s].got = session[s].got /\ session'[s].moves = session[s].moves
      /\ session'[s].new = session[s].got \ Stored
  BY <1>1 DEF Session
<1>3. \A r \in Sessions \ {s} : session'[r] = session[r]
  BY <1>1
<1>4. UNCHANGED <<clock, placed, cursor, received>>
  BY DEF ProcessOrders
<1>5. Placed' = Placed /\ Stored' = Stored /\ PollWindow' = PollWindow
  BY <1>4 DEF Placed, Stored, PollWindow
<1>6. Polling(s)
  BY DEF ProcessOrders, Polling
<1>7. PollsTakeOver'
  BY <1>2, <1>3, <1>4, <1>5, <1>6 DEF PollsTakeOver, Polling, Polled
<1>8. OnlyTheseAreLost'
  BY <1>4, <1>5 DEF OnlyTheseAreLost, Excused, Polled
<1> QED BY <1>4, <1>7, <1>8 DEF PastCursor

LEMMA SaveLost ==
    ASSUME IInv, LostInv, Excused \subseteq Excused', NEW s \in Sessions, SaveOrders(s)
    PROVE  (OnlyTheseAreLost /\ PollsTakeOver /\ PastCursor)'
<1> USE DEF IInv, TypeOK, LostInv
<1>1. Deliver(s, session[s].list)
  BY DEF SaveOrders
<1>2. Stored' = Stored \cup session[s].new
  <2>1. session[s].new \subseteq Orders
    BY DEF Session
  <2> QED BY <2>1, RankType, NoneAssumption DEF SaveOrders, WithNew, Stored
<1>3. /\ UNCHANGED <<clock, placed>> /\ Placed' = Placed
      /\ cursor' = IF session[s].moves THEN clock ELSE cursor
  BY DEF SaveOrders, Placed, MoveCursor
<1>4. PollsTakeOver'
  <2>1. \A r \in Sessions : Polling(r)' => Polling(r) /\ session'[r] = session[r]
    BY <1>1, DeliverEnds DEF Polling
  <2> QED BY <1>2, <1>3, <2>1 DEF PollsTakeOver, Polled
<1>5. PastCursor'
  BY <1>3 DEF PastCursor, Time
<1>6. ASSUME NEW o \in Polled \cap (Placed \ Stored'), session[s].moves, o \notin Excused
      PROVE  o \in PollWindow'
  <2>1. /\ session[s].got \subseteq session[s].new \cup Stored
        /\ o \in Stored \cup session[s].got \cup Excused \/ placed[o] >= session[s].at
    BY <1>2, <1>6 DEF PollsTakeOver, Polling, SaveOrders
  <2>2. placed[o] >= session[s].at
    BY <1>2, <1>6, <2>1
  <2>3. placed[o] \in Nat /\ session[s].at \in Nat /\ clock \in Nat
    <3>1. placed[o] \in Time /\ session[s] \in Session
      BY <1>6 DEF Placed
    <3> QED BY <3>1, OrdersAssumption DEF Session, Time
  <2>4. ~(clock - session[s].at > Overlap)
    BY <1>6, <2>2 DEF Excused, Outrun, Polling, SaveOrders
  <2>5. placed[o] >= clock - Overlap
    BY <2>2, <2>3, <2>4 DEF Overlap
  <2> QED BY <1>3, <1>6, <2>5 DEF PollWindow
<1>7. ASSUME NEW o \in Polled \cap (Placed \ Stored'), ~session[s].moves, o \notin Excused
      PROVE  o \in PollWindow'
  BY <1>2, <1>3, <1>7 DEF OnlyTheseAreLost, Excused, PollWindow
<1>8. OnlyTheseAreLost'
  <2> SUFFICES ASSUME NEW o \in Polled \cap (Placed \ Stored')
               PROVE  o \in PollWindow' \/ o \in Excused'
    BY <1>3 DEF OnlyTheseAreLost, Excused, Polled
  <2> QED BY <1>6, <1>7 DEF Session
<1> QED BY <1>4, <1>5, <1>8

LEMMA StepLost == IInv /\ LostInv /\ [HNext]_historyVars => LostInv'
<1> SUFFICES ASSUME IInv, LostInv, [HNext]_historyVars PROVE LostInv'
  OBVIOUS
<1> DEFINE Safe == (OnlyTheseAreLost /\ PollsTakeOver /\ PastCursor)'
<1>1. CASE UNCHANGED historyVars
  BY <1>1 DEF historyVars, vars, LostInv, OnlyTheseAreLost, PollsTakeOver, PastCursor,
              Placed, Stored, Polling, Polled, PollWindow, Excused, Outrun
<1>2. CASE HNext
  <2>1. Next /\ Excused \subseteq Excused' /\ Overlooked \subseteq Excused'
    BY <1>2, HistoryGrows
  <2>2. ASSUME Tick \/ \E o \in Orders : PlaceOrder(o) \/ StoreElsewhere(o)
        PROVE  Safe
    BY <2>1, <2>2, WorldLost
  <2>3. ASSUME NEW s \in Sessions, FetchOrders(s) \/ Poll(s) \/ CollectSaved(s)
        PROVE  Safe
    <3>1. CASE FetchOrders(s) \/ ProcessOrders(s) \/ SaveOrders(s)
      BY <2>1, <3>1, FetchLost, ProcessLost, SaveLost
    <3>2. CASE SaveRefused(s)
      BY <2>1, <3>2, LostFrame DEF SaveRefused, IInv, TypeOK, Idle
    <3>3. CASE CollectSaved(s)
      BY <2>1, <3>3, LostFrame, DeliverEnds DEF CollectSaved
    <3> QED BY <2>3, <3>1, <3>2, <3>3 DEF Poll
  <2>4. ASSUME NEW s \in Sessions, NEW o \in Orders, Answer(s, o)
        PROVE  Safe
    <3>1. CASE SendCard(s, o)
      <4>1. session'[s].pc = "mark" /\ \A r \in Sessions \ {s} : session'[r] = session[r]
        BY <3>1 DEF SendCard, IInv, TypeOK, Session
      <4>2. UNCHANGED <<clock, placed, cursor, received>>
        BY <3>1 DEF SendCard
      <4> QED BY <2>1, <4>1, <4>2, LostFrame
    <3>2. CASE SendFails(s, o)
      BY <2>1, <3>2, LostFrame, DeliverEnds DEF SendFails
    <3>3. CASE SendRefused(s, o)
      BY <2>1, <3>3, LostFrame, DeliverEnds DEF SendRefused
    <3> QED BY <2>4, <3>1, <3>2, <3>3 DEF Answer
  <2>5. ASSUME NEW s \in Sessions, MarkNotified(s) \/ MarkFails(s) \/ Dies(s)
        PROVE  Safe
    <3>1. CASE MarkNotified(s)
      BY <2>1, <3>1, LostFrame, DeliverEnds DEF MarkNotified
    <3>2. CASE MarkFails(s)
      BY <2>1, <3>2, LostFrame, DeliverEnds DEF MarkFails
    <3>3. CASE Dies(s)
      BY <2>1, <3>3, LostFrame DEF Dies, IInv, TypeOK, Idle
    <3> QED BY <2>5, <3>1, <3>2, <3>3
  <2>6. ASSUME SendDigest \/ MarkDigest \/ DigestDies PROVE Safe
    BY <2>1, <2>6, LostFrame DEF SendDigest, MarkDigest, DigestDies
  <2>7. Safe
    <3> HIDE DEF Safe
    <3> QED BY <2>1, <2>2, <2>3, <2>4, <2>5, <2>6 DEF Next
  <2> QED BY <1>2, <2>7, HistoryGrows DEF LostInv
<1> QED BY <1>1, <1>2

(* An order falls between two polls only if it was placed while a poll was *)
(* open for longer than windows overlap, or if it is an FBO order and the  *)
(* FBO request of Ozon failed: not when polls overlap, die, refuse to save *)
(* or lose the recovery request of WB.                                     *)
THEOREM NothingElseLost == HSpec => []OnlyTheseAreLost
<1>1. LostInv => OnlyTheseAreLost
  BY DEF LostInv
<1>2. IInv /\ [HNext]_historyVars => IInv'
  BY StepInv DEF HNext, historyVars, vars
<1>3. HInit => IInv
  BY InitInv DEF HInit
<1> QED BY <1>1, <1>2, <1>3, InitLost, StepLost, PTL DEF HSpec
=============================================================================
