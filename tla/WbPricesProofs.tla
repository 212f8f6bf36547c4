--------------------------- MODULE WbPricesProofs ---------------------------
(***************************************************************************)
(* Proofs about WbPrices for any products, sessions, conditions, bounds    *)
(* and whole or fractional discount.                                       *)
(***************************************************************************)
EXTENDS WbPrices, TLAPS

-----------------------------------------------------------------------------
(***************************************************************************)
(* Arithmetic: the price that is uploaded.                                 *)
(***************************************************************************)
LEMMA Distribute ==
    ASSUME NEW q \in Int, NEW b \in Int
    PROVE  (q - 1) * b = q * b - b
OBVIOUS

LEMMA CeilFacts ==
    ASSUME NEW a \in Nat \ {0}, NEW b \in Nat \ {0}
    PROVE  /\ CeilDiv(a, b) \in Nat \ {0}
           /\ CeilDiv(a, b) * b >= a
           /\ CeilDiv(a, b) * b < a + b
<1> DEFINE n == a + b - 1
<1> DEFINE q == n \div b
<1>1. n \in Nat /\ n >= b
  OBVIOUS
<1>2. q \in Int /\ n = b * q + (n % b) /\ n % b \in 0..(b - 1)
  BY <1>1
<1>3. q > 0
  <2>1. SUFFICES ASSUME q <= 0 PROVE FALSE
    BY <1>2
  <2>2. b * q <= 0
    BY <1>2, <2>1
  <2> QED BY <1>1, <1>2, <2>2
<1>4. b * q = q * b
  BY <1>2
<1> HIDE DEF n, q
<1>5. q * b >= a /\ q * b < a + b
  BY <1>2, <1>4 DEF n
<1> QED BY <1>2, <1>3, <1>5 DEF CeilDiv, n, q

LEMMA PercentFacts ==
    /\ Percent \in 1..9900
    /\ 10000 - Percent \in Nat \ {0}
    /\ 100 - Percent \div 100 \in Nat \ {0}
<1>1. Percent \in 1..9900
  BY PricesAssumption DEF Percent
<1> HIDE DEF Percent
<1>2. Percent \div 100 \in 0..99
  BY <1>1
<1> QED BY <1>1, <1>2

LEMMA ListPriceFacts ==
    ASSUME NEW target \in Nat \ {0}
    PROVE  ListPrice(target) \in Nat \ {0}
<1> DEFINE up == CeilDiv(100 * target, 10000 - Percent)
<1>1. up \in Nat \ {0}
  <2>1. 100 * target \in Nat \ {0}
    OBVIOUS
  <2> QED BY <2>1, PercentFacts, CeilFacts
<1> HIDE DEF up
<1>2. ListPrice(target) \in {up, up - 1} /\ (ListPrice(target) = up - 1 => up > 1 \/ up = ListPrice(target))
  BY <1>1 DEF ListPrice, up
<1> QED BY <1>1, <1>2

LEMMA ChargedType ==
    ASSUME NEW target \in Nat \ {0}
    PROVE  Charged(target) \in Nat
<1> DEFINE g == 100 - Percent \div 100
<1>1. g \in Nat /\ ListPrice(target) \in Nat
  BY ListPriceFacts, PercentFacts
<1> HIDE DEF g
<1> QED BY <1>1 DEF Charged, g

(* With whole percents the price that is charged is the price asked for or *)
(* less than one rouble of the list price below it.                        *)
LEMMA Rounding ==
    ASSUME NEW target \in Nat \ {0}, Discount % 100 = 0
    PROVE  /\ Charged(target) <= target \/ ListPrice(target) = 1
           /\ Charged(target) + (100 - Percent \div 100) > target
<1> DEFINE g == 100 - Percent \div 100
<1> DEFINE a == 100 * target
<1> DEFINE b == 10000 - Percent
<1> DEFINE up == CeilDiv(a, b)
<1>1. g \in Nat \ {0} /\ b \in Nat \ {0} /\ a \in Nat \ {0}
  BY PercentFacts
<1>2. b = 100 * g
  <2>1. Percent \in Nat /\ Percent % 100 = 0
    BY PricesAssumption DEF Percent
  <2> HIDE DEF Percent
  <2>2. Percent = 100 * (Percent \div 100)
    BY <2>1
  <2>3. Percent \div 100 \in Int
    BY <2>1
  <2> QED BY <2>2, <2>3
<1>3. up \in Nat \ {0} /\ up * b >= a /\ up * b < a + b
  <2> HIDE DEF a, b
  <2> QED BY <1>1, CeilFacts
<1>4. ListPrice(target) = IF up * b > a /\ up > 1 THEN up - 1 ELSE up
  BY DEF ListPrice
<1>5. Charged(target) = ListPrice(target) * g
  BY DEF Charged
<1> HIDE DEF g, b, up
<1>6. up * b = 100 * (up * g)
  BY <1>1, <1>2, <1>3
<1>7. up * g >= target /\ up * g < target + g /\ up * g \in Int
  BY <1>1, <1>2, <1>3, <1>6
<1>8. CASE up * b > a /\ up > 1
  <2>1. (up - 1) * g = up * g - g
    BY <1>1, <1>3, Distribute
  <2>2. Charged(target) = up * g - g
    BY <1>4, <1>5, <1>8, <2>1
  <2>3. up * g > target
    BY <1>6, <1>7, <1>8
  <2> QED BY <1>1, <1>7, <2>2, <2>3 DEF g
<1>9. CASE ~(up * b > a /\ up > 1)
  <2>1. ListPrice(target) = up
    BY <1>4, <1>9
  <2>2. CASE up = 1
    BY <1>1, <1>5, <1>7, <2>1, <2>2 DEF g
  <2>3. CASE up # 1
    <3>1. up * g = target
      BY <1>1, <1>3, <1>6, <1>7, <1>9, <2>3
    <3> QED BY <1>1, <1>5, <2>1, <3>1 DEF g
  <2> QED BY <2>2, <2>3
<1> QED BY <1>8, <1>9

-----------------------------------------------------------------------------
(***************************************************************************)
(* Types.                                                                  *)
(***************************************************************************)
Asked == Needs \cup {0}
Zeros == [p \in Products |-> 0]

LEMMA AskedFacts == \A price \in Asked : price # 0 => price \in Nat \ {0}
BY PricesAssumption DEF Asked

LEMMA IdleFacts ==
    /\ Idle \in Session
    /\ Idle.pc = "idle" /\ Idle.items = Zeros /\ Idle.task = NoTask /\ Idle.row = "none"
    /\ Idle.recs = [p \in Products |-> NoRec] /\ Idle.tries = 0
<1>1. NoRec \in Rec
  BY DEF NoRec, Rec, RecStatuses
<1>2. 0 \in 0..(MaxRetries - 1)
  BY PricesAssumption
<1>3. Idle \in Session
  BY <1>1, <1>2 DEF Idle, Session, NoTask
<1> QED BY <1>3 DEF Idle, Zeros

LEMMA FreeFacts ==
    /\ Free \in [state : TaskStates, items : [Products -> Asked]]
    /\ Free.state = "free" /\ Free.items = Zeros
BY DEF Free, TaskStates, Asked, Zeros

LEMMA JudgeType ==
    ASSUME NEW f \in [Products -> Rec], NEW p \in Products, NEW asked \in Needs, NEW cur
    PROVE  LET status == Judge(p, asked, cur)
           IN [status |-> status, price |-> IF status = "SET_PRICE" THEN asked ELSE 0] \in Rec
BY DEF Judge, Rec, RecStatuses

LEMMA JudgedType == ASSUME TypeOK PROVE Judged \in [Products -> Rec]
<1>1. ASSUME NEW p \in Products
      PROVE  Judged[p] \in Rec
  <2>1. need[p] \in Needs /\ recs \in [Products -> Rec]
    BY DEF TypeOK
  <2> QED BY <2>1, JudgeType DEF Judged
<1> QED BY <1>1 DEF Judged

LEMMA OnwardFacts ==
    ASSUME NEW todo, NEW items
    PROVE  /\ Onward(todo, items) \in {"check", "upload", "commit"}
           /\ Onward(todo, items) = "upload" => todo = {}
BY DEF Onward

(* What a session becomes, by the kinds of its steps.                      *)
LEMMA BeginFacts ==
    ASSUME TypeOK, NEW s \in Sessions, NEW new \in Session, NEW among \in SUBSET Products,
           Begin(s, new, among)
    PROVE  /\ sess' \in [Sessions -> Session]
           /\ \A v \in Sessions \ {s} : sess'[v] = sess[v]
           /\ sess'[s].items = new.items /\ sess'[s].recs = new.recs
           /\ sess'[s].task = new.task /\ sess'[s].row = new.row
           /\ sess'[s].pc \in {"check", "upload", "commit"}
<1> DEFINE todo == {p \in among : new.recs[p].status = "SET_PRICE"}
<1> DEFINE pc == Onward(todo, new.items)
<1>1. pc \in {"check", "upload", "commit"} /\ todo \in SUBSET Products
  BY OnwardFacts
<1>2. sess' = [sess EXCEPT ![s] = [new EXCEPT !.todo = todo, !.pc = pc]]
  BY DEF Begin
<1>3. sess \in [Sessions -> Session]
  BY DEF TypeOK
<1> HIDE DEF todo, pc
<1>4. [new EXCEPT !.todo = todo, !.pc = pc] \in Session
  BY <1>1 DEF Session
<1> QED BY <1>1, <1>2, <1>3, <1>4 DEF Session

LEMMA LookedFacts ==
    ASSUME TypeOK, NEW s \in Sessions, NEW p \in Products,
           NEW items \in [Products -> Asked], NEW shown \in SUBSET Products,
           NEW newRecs \in [Products -> Rec], Looked(s, p, items, shown, newRecs)
    PROVE  /\ sess' \in [Sessions -> Session]
           /\ \A v \in Sessions \ {s} : sess'[v] = sess[v]
           /\ sess[s].pc = "check" /\ p \in sess[s].todo
           /\ sess'[s].items = items /\ sess'[s].recs = newRecs
           /\ sess'[s].task = sess[s].task /\ sess'[s].row = sess[s].row
           /\ sess'[s].pc \in {"check", "upload", "commit"}
<1> DEFINE todo == sess[s].todo \ {p}
<1> DEFINE pc == Onward(todo, items)
<1>1. pc \in {"check", "upload", "commit"}
  BY OnwardFacts
<1>2. /\ sess' = [sess EXCEPT ![s] = [sess[s] EXCEPT !.todo = todo, !.pc = pc,
                    !.items = items, !.shown = shown, !.recs = newRecs]]
      /\ sess[s].pc = "check" /\ p \in sess[s].todo
  BY DEF Looked, Checking
<1>3. sess \in [Sessions -> Session] /\ todo \in SUBSET Products
  BY DEF TypeOK, Session
<1> HIDE DEF todo, pc
<1>4. [sess[s] EXCEPT !.todo = todo, !.pc = pc,
                    !.items = items, !.shown = shown, !.recs = newRecs] \in Session
  <2> DEFINE half == [sess[s] EXCEPT !.todo = todo, !.pc = pc]
  <2>1. half \in Session
    BY <1>1, <1>3 DEF Session
  <2> HIDE DEF half
  <2>2. [half EXCEPT !.items = items, !.shown = shown, !.recs = newRecs] \in Session
    BY <2>1 DEF Session, Asked
  <2> QED BY <2>2 DEF half
<1> QED BY <1>1, <1>2, <1>3, <1>4 DEF Session

LEMMA WrittenFacts ==
    ASSUME TypeOK, NEW s \in Sessions, NEW row \in RowStatuses,
           NEW newRecs \in [Products -> Rec], Written(s, row, newRecs)
    PROVE  /\ sess' \in [Sessions -> Session]
           /\ \A v \in Sessions \ {s} : sess'[v] = sess[v]
           /\ sess'[s].items = sess[s].items /\ sess'[s].recs = newRecs
           /\ sess'[s].task = NoTask /\ sess'[s].row = row
           /\ sess'[s].pc = "commit"
<1>1. sess' = [sess EXCEPT ![s] = [sess[s] EXCEPT !.pc = "commit", !.row = row,
                                                !.recs = newRecs, !.task = NoTask]]
  BY DEF Written
<1>2. sess \in [Sessions -> Session]
  BY DEF TypeOK
<1>3. [sess[s] EXCEPT !.pc = "commit", !.row = row, !.recs = newRecs, !.task = NoTask] \in Session
  BY <1>2 DEF Session
<1> QED BY <1>1, <1>2, <1>3 DEF Session

LEMMA SentType ==
    ASSUME TypeOK, NEW s \in Sessions, NEW status \in RecStatuses
    PROVE  Sent(s, status) \in [Products -> Rec]
BY DEF TypeOK, Session, Rec, Sent

LEMMA EnqueueFacts ==
    ASSUME TypeOK, NEW s \in Sessions, NEW t \in Tasks, Enqueue(s, t)
    PROVE  /\ tasks' \in [Tasks -> [state : TaskStates, items : [Products -> Asked]]]
           /\ tasks[t].state = "free"
           /\ tasks'[t] = [state |-> "queued", items |-> sess[s].items]
           /\ \A u \in Tasks \ {t} : tasks'[u] = tasks[u]
BY DEF TypeOK, Enqueue, Session, TaskStates, Asked

LEMMA FreedFacts ==
    ASSUME TypeOK, NEW s \in Sessions
    PROVE  /\ Freed(s) \in [Tasks -> [state : TaskStates, items : [Products -> Asked]]]
           /\ \A u \in Tasks : Freed(s)[u] \in {tasks[u], Free}
           /\ \A u \in Tasks : u # sess[s].task => Freed(s)[u] = tasks[u]
           /\ \A u \in Tasks : tasks[u].state = "queued" => Freed(s)[u] = tasks[u]
BY FreeFacts DEF TypeOK, Freed, Asked

-----------------------------------------------------------------------------
(***************************************************************************)
(* The steps of a session, by what they may do to what it holds.           *)
(***************************************************************************)
Others(s) == \A v \in Sessions \ {s} : sess'[v] = sess[v]
Typed == sess' \in [Sessions -> Session]
TaskType == [Tasks -> [state : TaskStates, items : [Products -> Asked]]]
SamePrices(s) == \A q \in Products : sess'[s].recs[q].price = sess[s].recs[q].price

StartStep(s) ==
    /\ Typed /\ Others(s) /\ sess[s].pc = "idle"
    /\ sess'[s].items = Zeros /\ sess'[s].task = NoTask /\ sess'[s].row = "none"
    /\ sess'[s].pc \in {"check", "upload", "commit"}
    /\ sess'[s].recs \in {recs, Judged}
    /\ moves' \in {moves, moves + 1}
    /\ UNCHANGED <<external, need, db, recs, history, tasks, lost>>

LookStep(s) ==
    /\ Typed /\ Others(s) /\ sess[s].pc = "check"
    /\ sess'[s].task = sess[s].task /\ sess'[s].row = sess[s].row
    /\ sess'[s].pc \in {"check", "upload", "commit"}
    /\ \A q \in Products : sess'[s].items[q] \in {sess[s].items[q], sess[s].recs[q].price}
    /\ SamePrices(s)
    /\ UNCHANGED <<external, need, db, recs, history, tasks, lost, moves>>

Enqueued(s, t) ==
    /\ tasks[t].state = "free"
    /\ tasks'[t] = [state |-> "queued", items |-> sess[s].items]
    /\ \A u \in Tasks \ {t} : tasks'[u] = tasks[u]

Unsent(s) ==
    \/ /\ sess'[s].pc = "upload"
       /\ sess'[s].task = sess[s].task /\ sess'[s].row = sess[s].row
    \/ /\ sess'[s].pc = "commit" /\ sess'[s].task = NoTask
       /\ sess'[s].row \in RowStatuses \ {"applied"}

SendStep(s) ==
    /\ Typed /\ Others(s) /\ sess[s].pc = "upload" /\ tasks' \in TaskType
    /\ sess'[s].items = sess[s].items
    /\ SamePrices(s)
    /\ \/ tasks' = tasks /\ Unsent(s)
       \/ \E t \in Tasks :
            /\ Enqueued(s, t)
            /\ \/ Unsent(s)
               \/ sess'[s].pc = "poll" /\ sess'[s].task = t /\ sess'[s].row = sess[s].row
    /\ UNCHANGED <<external, need, db, recs, history, lost, moves>>

PollStep(s) ==
    /\ Typed /\ Others(s) /\ sess[s].pc = "poll"
    /\ sess'[s].items = sess[s].items
    /\ SamePrices(s)
    /\ sess'[s].pc = "commit" /\ sess'[s].task = NoTask /\ sess'[s].row \in RowStatuses
    /\ sess'[s].row = "applied" => tasks[sess[s].task].state = "processed_success"
    /\ tasks' = Freed(s)
    /\ UNCHANGED <<external, need, db, recs, history, lost, moves>>

LEMMA StartSteps ==
    ASSUME TypeOK, NEW s \in Sessions, NEW ticked \in SUBSET Products, NEW dry \in BOOLEAN,
           StartCron(s) \/ StartWeb(s, ticked, dry)
    PROVE  StartStep(s)
<1>a. recs \in [Products -> Rec] /\ Judged \in [Products -> Rec]
  BY JudgedType DEF TypeOK
<1>1. CASE StartCron(s)
  <2> DEFINE new == [Idle EXCEPT !.recs = Judged]
  <2>1. new \in Session /\ new.items = Zeros /\ new.task = NoTask /\ new.row = "none"
          /\ new.recs = Judged
    BY <1>a, IdleFacts DEF Session
  <2>2. Begin(s, new, Products) /\ sess[s].pc = "idle"
          /\ UNCHANGED <<external, need, db, recs, history, tasks, lost, moves>>
    BY <1>1 DEF StartCron
  <2> HIDE DEF new
  <2> QED BY <2>1, <2>2, BeginFacts DEF StartStep, Typed, Others
<1>2. CASE StartWeb(s, ticked, dry)
  <2> DEFINE new == [Idle EXCEPT !.dry = dry, !.recs = recs]
  <2>1. new \in Session /\ new.items = Zeros /\ new.task = NoTask /\ new.row = "none"
          /\ new.recs = recs
    BY <1>a, IdleFacts DEF Session
  <2>2. PICK among \in SUBSET Products :
            /\ Begin(s, new, among) /\ sess[s].pc = "idle" /\ moves' = moves + 1
            /\ UNCHANGED <<external, need, db, recs, history, tasks, lost>>
    <3>1. (IF ticked = {} THEN Products ELSE ticked) \in SUBSET Products
      OBVIOUS
    <3> HIDE DEF new
    <3> QED BY <1>2, <3>1 DEF StartWeb, new
  <2> HIDE DEF new
  <2> QED BY <2>1, <2>2, BeginFacts DEF StartStep, Typed, Others
<1> QED BY <1>1, <1>2

LEMMA LookSteps ==
    ASSUME TypeOK, NEW s \in Sessions, NEW p \in Products,
           Skip(s, p) \/ Preview(s, p) \/ Take(s, p)
    PROVE  LookStep(s)
<1>a. sess[s] \in Session /\ sess[s].recs \in [Products -> Rec]
        /\ sess[s].items \in [Products -> Asked] /\ sess[s].shown \in SUBSET Products
  BY DEF TypeOK, Session, Asked
<1>1. ASSUME NEW shown \in SUBSET Products, Looked(s, p, sess[s].items, shown, sess[s].recs)
      PROVE  LookStep(s)
  <2> DEFINE items == sess[s].items
  <2> DEFINE same == sess[s].recs
  <2>1. UNCHANGED <<external, need, db, recs, history, tasks, lost, moves>>
    BY <1>1 DEF Looked
  <2>2. Looked(s, p, items, shown, same) /\ items \in [Products -> Asked]
          /\ same \in [Products -> Rec]
    BY <1>1, <1>a
  <2> HIDE DEF items, same
  <2>3. /\ Typed /\ Others(s) /\ sess[s].pc = "check"
        /\ sess'[s].items = items /\ sess'[s].recs = same
        /\ sess'[s].task = sess[s].task /\ sess'[s].row = sess[s].row
        /\ sess'[s].pc \in {"check", "upload", "commit"}
    BY <2>2, LookedFacts DEF Typed, Others
  <2> QED BY <2>1, <2>3 DEF LookStep, SamePrices, items, same
<1>2. CASE Skip(s, p)
  BY <1>1, <1>2, <1>a DEF Skip
<1>3. CASE Preview(s, p)
  BY <1>1, <1>3, <1>a DEF Preview
<1>4. CASE Take(s, p)
  <2> DEFINE price == sess[s].recs[p].price
  <2> DEFINE items == [sess[s].items EXCEPT ![p] = price]
  <2> DEFINE newRecs == [sess[s].recs EXCEPT
                            ![p] = [status |-> "price_sent_to_wb", price |-> price]]
  <2>1. items \in [Products -> Asked] /\ newRecs \in [Products -> Rec]
    BY <1>a DEF Rec, RecStatuses, Asked
  <2>2. \A q \in Products : items[q] \in {sess[s].items[q], sess[s].recs[q].price}
            /\ newRecs[q].price = sess[s].recs[q].price
    BY <1>a DEF Rec
  <2>3. Looked(s, p, items, sess[s].shown, newRecs)
          /\ UNCHANGED <<external, need, db, recs, history, tasks, lost, moves>>
    BY <1>4 DEF Take, Looked
  <2> HIDE DEF items, newRecs
  <2>4. /\ Typed /\ Others(s) /\ sess[s].pc = "check"
        /\ sess'[s].items = items /\ sess'[s].recs = newRecs
        /\ sess'[s].task = sess[s].task /\ sess'[s].row = sess[s].row
        /\ sess'[s].pc \in {"check", "upload", "commit"}
    BY <1>a, <2>1, <2>3, LookedFacts DEF Typed, Others
  <2> QED BY <2>2, <2>3, <2>4 DEF LookStep, SamePrices
<1> QED BY <1>2, <1>3, <1>4

LEMMA SentPrices ==
    ASSUME TypeOK, NEW s \in Sessions, NEW status \in RecStatuses, NEW q \in Products
    PROVE  Sent(s, status)[q].price = sess[s].recs[q].price
BY DEF TypeOK, Session, Rec, Sent

LEMMA SendSteps ==
    ASSUME TypeOK, NEW s \in Sessions,
           Accepted(s) \/ AcceptedUnread(s) \/ Refused(s) \/ NoAnswer(s)
    PROVE  SendStep(s)
<1>a. sess[s] \in Session /\ sess \in [Sessions -> Session] /\ tasks \in TaskType
        /\ sess[s].recs \in [Products -> Rec]
  BY DEF TypeOK, Session, TaskType, Asked
<1>b. sess[s].pc = "upload" /\ UNCHANGED <<external, need, db, recs, history, lost, moves>>
  BY DEF Accepted, AcceptedUnread, Refused, NoAnswer, Uploading
<1>c. ASSUME NEW t \in Tasks, Enqueue(s, t)
      PROVE  Enqueued(s, t) /\ tasks' \in TaskType
  BY <1>c, EnqueueFacts DEF Enqueued, TaskType
<1>d. ASSUME NEW row \in RowStatuses \ {"applied"}, Written(s, row, sess[s].recs)
      PROVE  /\ Typed /\ Others(s) /\ sess'[s].items = sess[s].items
             /\ SamePrices(s) /\ Unsent(s)
  BY <1>d, <1>a, WrittenFacts DEF Typed, Others, SamePrices, Unsent
<1>1. CASE Accepted(s)
  <2>1. PICK t \in Tasks :
            /\ Enqueue(s, t)
            /\ \/ sess' = [sess EXCEPT ![s] = [sess[s] EXCEPT !.pc = "poll", !.task = t]]
               \/ Written(s, "sent", Sent(s, "waiting_promotion_join"))
    BY <1>1 DEF Accepted
  <2>2. CASE sess' = [sess EXCEPT ![s] = [sess[s] EXCEPT !.pc = "poll", !.task = t]]
    <3>1. [sess[s] EXCEPT !.pc = "poll", !.task = t] \in Session
      BY <1>a DEF Session
    <3>2. /\ Typed /\ Others(s) /\ sess'[s].items = sess[s].items /\ SamePrices(s)
          /\ sess'[s].pc = "poll" /\ sess'[s].task = t /\ sess'[s].row = sess[s].row
      BY <1>a, <2>2, <3>1 DEF Typed, Others, SamePrices, Session
    <3> QED BY <1>b, <1>c, <2>1, <3>2 DEF SendStep
  <2>3. CASE Written(s, "sent", Sent(s, "waiting_promotion_join"))
    <3>1. "waiting_promotion_join" \in RecStatuses /\ "sent" \in RowStatuses
      BY DEF RecStatuses, RowStatuses
    <3>2. Sent(s, "waiting_promotion_join") \in [Products -> Rec]
            /\ \A q \in Products :
                Sent(s, "waiting_promotion_join")[q].price = sess[s].recs[q].price
      BY <3>1, SentType, SentPrices
    <3>3. /\ Typed /\ Others(s) /\ sess'[s].items = sess[s].items
          /\ SamePrices(s) /\ Unsent(s)
      BY <2>3, <3>1, <3>2, WrittenFacts DEF Typed, Others, SamePrices, Unsent
    <3> QED BY <1>b, <1>c, <2>1, <3>3 DEF SendStep
  <2> QED BY <2>1, <2>2, <2>3
<1>2. CASE AcceptedUnread(s)
  <2>1. "failed" \in RowStatuses \ {"applied"}
    BY DEF RowStatuses
  <2> QED BY <1>2, <1>b, <1>c, <1>d, <2>1 DEF AcceptedUnread, SendStep
<1>3. CASE Refused(s)
  <2>1. {"upload_error", "failed"} \subseteq RowStatuses \ {"applied"}
    BY DEF RowStatuses
  <2> QED BY <1>3, <1>a, <1>b, <1>d, <2>1 DEF Refused, SendStep
<1>4. CASE NoAnswer(s)
  <2>1. /\ Typed /\ Others(s) /\ sess'[s].items = sess[s].items
        /\ SamePrices(s) /\ Unsent(s)
    <3>1. CASE Written(s, "failed", sess[s].recs)
      <4>1. "failed" \in RowStatuses \ {"applied"}
        BY DEF RowStatuses
      <4> QED BY <1>d, <3>1, <4>1
    <3>2. ASSUME sess[s].tries + 1 < MaxRetries,
                 sess' = [sess EXCEPT ![s] = [sess[s] EXCEPT !.tries = sess[s].tries + 1]]
          PROVE  /\ Typed /\ Others(s) /\ sess'[s].items = sess[s].items
                 /\ SamePrices(s) /\ Unsent(s)
      <4>1. sess[s].tries + 1 \in 0..(MaxRetries - 1)
        BY <1>a, <3>2, PricesAssumption DEF Session
      <4>2. [sess[s] EXCEPT !.tries = sess[s].tries + 1] \in Session
        BY <1>a, <4>1 DEF Session
      <4> QED BY <1>a, <1>b, <3>2, <4>2 DEF Typed, Others, SamePrices, Unsent, Session
    <3> QED BY <1>4, <3>1, <3>2 DEF NoAnswer
  <2> QED BY <1>4, <1>a, <1>b, <1>c, <2>1 DEF NoAnswer, SendStep
<1> QED BY <1>1, <1>2, <1>3, <1>4

LEMMA PollSteps ==
    ASSUME TypeOK, NEW s \in Sessions, PollEnds(s) \/ PollGivesUp(s)
    PROVE  PollStep(s)
<1>a. sess[s].pc = "poll" /\ tasks' = Freed(s)
        /\ UNCHANGED <<external, need, db, recs, history, lost, moves>>
  BY DEF PollEnds, PollGivesUp, Polling
<1>1. ASSUME NEW row \in RowStatuses, NEW status \in RecStatuses, Written(s, row, Sent(s, status)),
             row = "applied" => tasks[sess[s].task].state = "processed_success"
      PROVE  PollStep(s)
  <2>1. Sent(s, status) \in [Products -> Rec]
            /\ \A q \in Products : Sent(s, status)[q].price = sess[s].recs[q].price
    BY SentType, SentPrices
  <2> QED BY <1>1, <1>a, <2>1, WrittenFacts DEF PollStep, Typed, Others, SamePrices
<1>2. {"price_accepted_by_wb", "waiting_promotion_join"} \subseteq RecStatuses
        /\ {"applied", "status_pending"} \cup (Outcomes \ {"processed_success"}) \subseteq RowStatuses
        /\ "applied" \notin Outcomes
  BY DEF RecStatuses, RowStatuses, Outcomes
<1>3. CASE PollEnds(s)
  BY <1>1, <1>2, <1>3 DEF PollEnds
<1>4. CASE PollGivesUp(s)
  BY <1>1, <1>2, <1>4 DEF PollGivesUp
<1> QED BY <1>3, <1>4

SessionStep(s) ==
    StartStep(s) \/ LookStep(s) \/ SendStep(s) \/ PollStep(s) \/ Commit(s) \/ RollBack(s)
TaskStep(t) ==
    \/ \E state \in Outcomes, done \in SUBSET Products : Process(t, state, done)
    \/ Cancel(t)
(* What happens outside of sessions and tasks.                             *)
MarketStep ==
    \/ \E p \in Products : SyncPrice(p) \/ Expire(p)
    \/ \E p \in Products, price \in Listed : SellerSets(p, price)
    \/ \E p \in Products, price \in Needs : SetCondition(p, price)

LEMMA NextCases ==
    ASSUME TypeOK, [Next]_vars
    PROVE  \/ \E s \in Sessions : SessionStep(s)
           \/ \E t \in Tasks : TaskStep(t)
           \/ MarketStep
           \/ UNCHANGED vars
<1>1. ASSUME NEW s \in Sessions, StartCron(s) \/ Step(s) \/ RollBack(s)
      PROVE  SessionStep(s)
  <2>1. TRUE \in BOOLEAN /\ {} \in SUBSET Products
    OBVIOUS
  <2> QED BY <1>1, <2>1, StartSteps, LookSteps, SendSteps, PollSteps DEF Step, SessionStep
<1>2. ASSUME NEW s \in Sessions, NEW ticked \in SUBSET Products, NEW dry \in BOOLEAN,
             StartWeb(s, ticked, dry)
      PROVE  SessionStep(s)
  BY <1>2, StartSteps DEF SessionStep
<1> QED BY <1>1, <1>2 DEF Next, TaskStep, MarketStep

(* The end of a session, and of a task.                                    *)
LEMMA EndFacts ==
    ASSUME TypeOK, NEW s \in Sessions, Commit(s) \/ RollBack(s)
    PROVE  /\ Typed /\ Others(s) /\ sess[s].pc # "idle"
           /\ sess'[s] = Idle
           /\ tasks' \in TaskType
           /\ tasks' \in {tasks, Freed(s)}
           /\ UNCHANGED <<external, need, db, moves>>
<1>1. Typed /\ Others(s) /\ sess'[s] = Idle
  BY IdleFacts DEF TypeOK, Commit, RollBack, Typed, Others
<1>2. tasks \in TaskType /\ Freed(s) \in TaskType
  BY FreedFacts DEF TypeOK, TaskType, Asked
<1> QED BY <1>1, <1>2 DEF Commit, RollBack

LEMMA CommittedRecs ==
    ASSUME TypeOK, NEW s \in Sessions, Commit(s)
    PROVE  /\ recs' \in [Products -> Rec]
           /\ \A p \in Products : recs'[p].price \in {recs[p].price, sess[s].recs[p].price}
<1>1. \A p \in Products : recs[p] \in Rec /\ sess[s].recs[p] \in Rec
  BY DEF TypeOK, Session
<1>2. \A a, b \in Rec : [a EXCEPT !.status = b.status] \in Rec
                          /\ [a EXCEPT !.status = b.status].price = a.price
  BY DEF Rec
<1>3. recs' = [p \in Products |->
            IF s \in Cron THEN sess[s].recs[p]
            ELSE IF p \in InUpload(s) THEN [recs[p] EXCEPT !.status = sess[s].recs[p].status]
            ELSE recs[p]]
  BY DEF Commit
<1> QED BY <1>1, <1>2, <1>3

LEMMA TaskFacts ==
    ASSUME TypeOK, NEW t \in Tasks, TaskStep(t)
    PROVE  /\ tasks[t].state = "queued"
           /\ tasks' \in TaskType
           /\ \A u \in Tasks \ {t} : tasks'[u] = tasks[u]
           /\ tasks'[t] = Free \/ (tasks'[t].items = tasks[t].items
                                    /\ tasks'[t].state \in Outcomes \cup {"cancelled"})
           /\ (\E s \in Sessions : sess[s].task = t) => tasks'[t].state # "free"
                /\ tasks'[t].items = tasks[t].items
           /\ charged \subseteq charged'
           /\ charged' \subseteq charged \cup {p \in Products : tasks[t].items[p] # 0}
           /\ tasks'[t].state = "processed_success" =>
                    {p \in Products : tasks[t].items[p] # 0} \subseteq charged'
           /\ UNCHANGED <<need, db, recs, history, lost, sess, moves>>
<1>a. Outcomes \cup {"cancelled"} \subseteq TaskStates /\ "free" \notin Outcomes
        /\ "queued" \in TaskStates /\ "cancelled" \notin Outcomes /\ "queued" \notin Outcomes
        /\ "processed_success" \in Outcomes
  BY DEF Outcomes, TaskStates
<1>b. tasks \in TaskType
  BY DEF TypeOK, TaskType, Asked
<1> DEFINE Kept(state) == tasks'[t].items = tasks[t].items /\ tasks'[t].state = state
<1>1. ASSUME NEW state \in Outcomes \cup {"cancelled"}, Ends(t, state)
      PROVE  /\ tasks[t].state = "queued"
             /\ tasks' \in TaskType
             /\ \A u \in Tasks \ {t} : tasks'[u] = tasks[u]
             /\ tasks'[t] = Free \/ Kept(state)
             /\ (\E s \in Sessions : sess[s].task = t) => Kept(state)
             /\ UNCHANGED <<need, db, recs, history, lost, sess, moves>>
  BY <1>1, <1>a, <1>b, FreeFacts DEF Ends, Polled, TaskType
<1>2. tasks'[t] = Free => tasks'[t].state # "processed_success"
  BY FreeFacts
<1>3. CASE Cancel(t)
  <2>1. Ends(t, "cancelled") /\ charged' = charged
    BY <1>3 DEF Cancel, external
  <2> HIDE DEF TaskStep
  <2> QED BY <1>1, <1>2, <1>a, <2>1
<1>4. ASSUME NEW state \in Outcomes, NEW done \in SUBSET Products, Process(t, state, done)
      PROVE  /\ charged \subseteq charged'
             /\ charged' \subseteq charged \cup {p \in Products : tasks[t].items[p] # 0}
             /\ tasks'[t].state = "processed_success" =>
                    {p \in Products : tasks[t].items[p] # 0} \subseteq charged'
             /\ Ends(t, state)
  <2>1. /\ Ends(t, state) /\ charged' = charged \cup done
        /\ done \subseteq {p \in Products : tasks[t].items[p] # 0}
        /\ state = "processed_success" => done = {p \in Products : tasks[t].items[p] # 0}
    BY <1>4 DEF Process
  <2>2. tasks'[t].state = "processed_success" => state = "processed_success"
    BY <1>1, <1>2, <2>1
  <2> QED BY <2>1, <2>2
<1>5. ASSUME NEW state \in Outcomes, NEW done \in SUBSET Products, Process(t, state, done)
      PROVE  /\ tasks[t].state = "queued"
             /\ tasks' \in TaskType
             /\ \A u \in Tasks \ {t} : tasks'[u] = tasks[u]
             /\ tasks'[t] = Free \/ (tasks'[t].items = tasks[t].items
                                    /\ tasks'[t].state \in Outcomes \cup {"cancelled"})
             /\ (\E s \in Sessions : sess[s].task = t) => tasks'[t].state # "free"
                    /\ tasks'[t].items = tasks[t].items
             /\ UNCHANGED <<need, db, recs, history, lost, sess, moves>>
  BY <1>1, <1>4, <1>5, <1>a
<1> QED BY <1>3, <1>4, <1>5 DEF TaskStep

LEMMA NextType == ASSUME TypeOK, [Next]_vars PROVE TypeOK'
<1> USE DEF TypeOK
<1>a. tasks \in TaskType /\ sess \in [Sessions -> Session] /\ moves + 1 \in Nat
  BY DEF TaskType, Asked
<1>1. ASSUME NEW s \in Sessions, StartStep(s) \/ LookStep(s)
      PROVE  TypeOK'
  BY <1>1 DEF StartStep, LookStep, Typed, external, history
<1>2. ASSUME NEW s \in Sessions, SendStep(s)
      PROVE  TypeOK'
  BY <1>2 DEF SendStep, Typed, external, history, TaskType, Asked
<1>3. ASSUME NEW s \in Sessions, PollStep(s)
      PROVE  TypeOK'
  BY <1>3, FreedFacts DEF PollStep, Typed, external, history, Asked
<1>4. ASSUME NEW s \in Sessions, Commit(s)
      PROVE  TypeOK'
  <2>1. recs' \in [Products -> Rec]
    BY <1>4, CommittedRecs
  <2>2. recent' \in SUBSET Products /\ rows' \in [Products -> {"none", "told", "applied"}]
    BY <1>4 DEF Commit, Session, InUpload
  <2> QED BY <1>4, <2>1, <2>2, EndFacts DEF Typed, TaskType, Asked, external, Commit
<1>5. ASSUME NEW s \in Sessions, RollBack(s)
      PROVE  TypeOK'
  <2>1. lost' \in SUBSET Products /\ UNCHANGED <<recs, history>>
    BY <1>5 DEF RollBack, InUpload
  <2> QED BY <1>5, <2>1, EndFacts DEF Typed, TaskType, Asked, external, history
<1>6. ASSUME NEW t \in Tasks, TaskStep(t)
      PROVE  TypeOK'
  <2>1. wb' \in [Products -> Nat]
    <3>1. CASE Cancel(t)
      BY <3>1 DEF Cancel, external
    <3>2. ASSUME NEW state \in Outcomes, NEW done \in SUBSET Products, Process(t, state, done)
          PROVE  wb' \in [Products -> Nat]
      <4>1. ASSUME NEW p \in done
            PROVE  Charged(tasks[t].items[p]) \in Nat
        <5>1. tasks[t].items[p] \in Nat \ {0}
          <6>1. tasks[t].items[p] # 0
            <7>1. done \subseteq {q \in Products : tasks[t].items[q] # 0}
              BY <3>2 DEF Process
            <7> QED BY <7>1
          <6>2. tasks[t].items[p] \in Asked
            BY DEF Asked
          <6> HIDE DEF TypeOK
          <6> QED BY <6>1, <6>2, AskedFacts
        <5> QED BY <5>1, ChargedType
      <4> QED BY <3>2, <4>1 DEF Process
    <3> QED BY <1>6, <3>1, <3>2 DEF TaskStep
  <2>2. charged' \in SUBSET Products
    BY <1>6, TaskFacts
  <2> QED BY <1>6, <2>1, <2>2, TaskFacts DEF TaskType, Asked, history
<1>7. CASE MarketStep
  <2>1. ASSUME NEW p \in Products, SyncPrice(p) \/ Expire(p)
        PROVE  TypeOK'
    BY <2>1 DEF SyncPrice, Expire, external, history
  <2>2. ASSUME NEW p \in Products, NEW price \in Listed, SellerSets(p, price)
        PROVE  TypeOK'
    BY <2>2, <1>a, PricesAssumption DEF SellerSets, history
  <2>3. ASSUME NEW p \in Products, NEW price \in Needs, SetCondition(p, price)
        PROVE  TypeOK'
    <3>1. need' \in [Products -> Needs]
      BY <2>3 DEF SetCondition
    <3>2. recs' \in [Products -> Rec]
      <4>1. ASSUME NEW q \in Products
            PROVE  recs'[q] \in Rec
        BY <2>3, <3>1, JudgeType DEF SetCondition
      <4> QED BY <2>3, <4>1 DEF SetCondition
    <3> QED BY <2>3, <1>a, <3>1, <3>2 DEF SetCondition, external, history
  <2> QED BY <1>7, <2>1, <2>2, <2>3 DEF MarketStep
<1>8. CASE UNCHANGED vars
  BY <1>8 DEF vars, external, history
<1> QED BY <1>1, <1>2, <1>3, <1>4, <1>5, <1>6, <1>7, <1>8, NextCases DEF SessionStep

-----------------------------------------------------------------------------
(***************************************************************************)
(* Every price that is carried, from the recommendation to the task, is in *)
(* the bounds: Judge has seen it.                                          *)
(***************************************************************************)
Fits(p, price) == price # 0 => ~BelowMrc(p, price) /\ ~AboveMrc(p, price)
RecsFit(f) == \A p \in Products : Fits(p, f[p].price)
ItemsFit(f) == \A p \in Products : Fits(p, f[p])

Bounded ==
    /\ RecsFit(recs)
    /\ \A s \in Sessions : RecsFit(sess[s].recs) /\ ItemsFit(sess[s].items)
    /\ \A t \in Tasks : ItemsFit(tasks[t].items)

LEMMA ZerosFit == ItemsFit(Zeros) /\ RecsFit([p \in Products |-> NoRec])
BY DEF ItemsFit, RecsFit, Fits, Zeros, NoRec

LEMMA JudgeFits ==
    ASSUME NEW p \in Products, NEW asked, NEW cur, Judge(p, asked, cur) = "SET_PRICE"
    PROVE  Fits(p, asked)
BY DEF Judge, Fits

LEMMA JudgedFits == RecsFit(Judged)
<1> SUFFICES ASSUME NEW p \in Products
             PROVE  Fits(p, Judged[p].price)
  BY DEF RecsFit
<1>1. Judged[p].price = IF Judge(p, need[p], db[p]) = "SET_PRICE" THEN need[p] ELSE 0
  BY DEF Judged
<1>2. Fits(p, 0)
  BY DEF Fits
<1> QED BY <1>1, <1>2, JudgeFits

LEMMA NextBounded == ASSUME TypeOK, Bounded, [Next]_vars PROVE Bounded'
<1>1. ASSUME NEW s \in Sessions, StartStep(s)
      PROVE  Bounded'
  <2>1. RecsFit(sess'[s].recs) /\ ItemsFit(sess'[s].items)
    BY <1>1, ZerosFit, JudgedFits DEF StartStep, Bounded
  <2> QED BY <1>1, <2>1 DEF StartStep, Others, Bounded
<1>2. ASSUME NEW s \in Sessions, LookStep(s)
      PROVE  Bounded'
  <2>1. RecsFit(sess'[s].recs) /\ ItemsFit(sess'[s].items)
    BY <1>2 DEF LookStep, SamePrices, Bounded, RecsFit, ItemsFit
  <2> QED BY <1>2, <2>1 DEF LookStep, Others, Bounded
<1>3. ASSUME NEW s \in Sessions, SendStep(s)
      PROVE  Bounded'
  <2>1. RecsFit(sess'[s].recs) /\ ItemsFit(sess'[s].items)
    BY <1>3 DEF SendStep, SamePrices, Bounded, RecsFit, ItemsFit
  <2>2. \A t \in Tasks : ItemsFit(tasks'[t].items)
    BY <1>3 DEF SendStep, Enqueued, Bounded
  <2> QED BY <1>3, <2>1, <2>2 DEF SendStep, Others, Bounded
<1>4. ASSUME NEW s \in Sessions, PollStep(s)
      PROVE  Bounded'
  <2>1. RecsFit(sess'[s].recs) /\ ItemsFit(sess'[s].items)
    BY <1>4 DEF PollStep, SamePrices, Bounded, RecsFit, ItemsFit
  <2>2. \A t \in Tasks : ItemsFit(tasks'[t].items)
    BY <1>4, FreedFacts, FreeFacts, ZerosFit DEF PollStep, Bounded
  <2> QED BY <1>4, <2>1, <2>2 DEF PollStep, Others, Bounded
<1>5. ASSUME NEW s \in Sessions, Commit(s) \/ RollBack(s)
      PROVE  Bounded'
  <2>1. RecsFit(sess'[s].recs) /\ ItemsFit(sess'[s].items)
    BY <1>5, EndFacts, IdleFacts, ZerosFit
  <2>2. \A t \in Tasks : ItemsFit(tasks'[t].items)
    BY <1>5, EndFacts, FreedFacts, FreeFacts, ZerosFit DEF Bounded
  <2>3. RecsFit(recs')
    <3>1. CASE Commit(s)
      BY <3>1, CommittedRecs DEF Bounded, RecsFit
    <3>2. CASE RollBack(s)
      BY <3>2 DEF RollBack, Bounded
    <3> QED BY <1>5, <3>1, <3>2
  <2> QED BY <1>5, <2>1, <2>2, <2>3, EndFacts DEF Others, Bounded
<1>6. ASSUME NEW t \in Tasks, TaskStep(t)
      PROVE  Bounded'
  <2>1. \A u \in Tasks : ItemsFit(tasks'[u].items)
    BY <1>6, TaskFacts, FreeFacts, ZerosFit DEF Bounded
  <2> QED BY <1>6, <2>1, TaskFacts DEF Bounded
<1>7. CASE MarketStep
  <2>1. RecsFit(recs')
    <3>1. ASSUME NEW p \in Products, NEW price \in Needs, SetCondition(p, price)
          PROVE  RecsFit(recs')
      <4> SUFFICES ASSUME NEW q \in Products
                   PROVE  Fits(q, recs'[q].price)
        BY DEF RecsFit
      <4>1. recs'[q].price = IF Judge(q, need'[q], db[q]) = "SET_PRICE" THEN need'[q] ELSE 0
        BY <3>1 DEF SetCondition
      <4>2. Fits(q, 0)
        BY DEF Fits
      <4> QED BY <4>1, <4>2, JudgeFits
    <3> QED BY <1>7, <3>1 DEF MarketStep, SyncPrice, Expire, SellerSets, Bounded
  <2>2. UNCHANGED <<tasks, sess>>
    BY <1>7 DEF MarketStep, SyncPrice, Expire, SellerSets, SetCondition
  <2> QED BY <2>1, <2>2 DEF Bounded
<1>8. CASE UNCHANGED vars
  BY <1>8 DEF vars, Bounded
<1> QED BY <1>1, <1>2, <1>3, <1>4, <1>5, <1>6, <1>7, <1>8, NextCases DEF SessionStep

LEMMA BoundedIsEnough == ASSUME TypeOK, Bounded PROVE OursInBounds
<1> SUFFICES ASSUME NEW t \in Tasks, NEW p \in Products, tasks[t].items[p] # 0
             PROVE  LET target == tasks[t].items[p] IN
                    /\ ~BelowMrc(p, target) /\ ~AboveMrc(p, target)
                    /\ Discount % 100 = 0 =>
                        /\ Charged(target) <= target \/ ListPrice(target) = 1
                        /\ Charged(target) + (100 - Percent \div 100) > target
  BY DEF OursInBounds
<1>1. tasks[t].items[p] \in Asked
  BY DEF TypeOK, Asked
<1>2. tasks[t].items[p] \in Nat \ {0}
  BY <1>1, AskedFacts
<1>3. ~BelowMrc(p, tasks[t].items[p]) /\ ~AboveMrc(p, tasks[t].items[p])
  BY DEF Bounded, ItemsFit, Fits
<1> QED BY <1>2, <1>3, Rounding

-----------------------------------------------------------------------------
(***************************************************************************)
(* A session polls a task of its own, with its items; what an upload is    *)
(* said to have done, it has done.                                         *)
(***************************************************************************)
Wanted(items) == {p \in Products : items[p] # 0}

Polls ==
    /\ \A s \in Sessions : sess[s].pc = "poll" => sess[s].task \in Tasks
    /\ \A s \in Sessions : sess[s].task # NoTask =>
            /\ sess[s].pc = "poll"
            /\ tasks[sess[s].task].state # "free"
            /\ tasks[sess[s].task].items = sess[s].items
    /\ \A s, v \in Sessions : s # v /\ sess[s].task = sess[v].task => sess[s].task = NoTask

Fulfilled ==
    /\ \A t \in Tasks :
            tasks[t].state = "processed_success" => Wanted(tasks[t].items) \subseteq charged
    /\ \A s \in Sessions :
            sess[s].row = "applied" => sess[s].pc = "commit" /\ InUpload(s) \subseteq charged

LEMMA TaskNumbers == NoTask \notin Tasks
BY DEF NoTask, Tasks

LEMMA NextPolls == ASSUME TypeOK, Polls, [Next]_vars PROVE Polls'
<1>a. \A s \in Sessions : sess[s].task \in Tasks \cup {NoTask}
  BY DEF TypeOK, Session
<1>1. ASSUME NEW s \in Sessions, StartStep(s)
      PROVE  Polls'
  <2>1. sess'[s].pc # "poll"
    BY <1>1 DEF StartStep
  <2> QED BY <1>1, <2>1 DEF StartStep, Others, Polls
<1>2. ASSUME NEW s \in Sessions, LookStep(s)
      PROVE  Polls'
  <2>1. sess'[s].task = NoTask /\ sess'[s].pc # "poll"
    BY <1>2 DEF LookStep, Polls
  <2> QED BY <1>2, <2>1 DEF LookStep, Others, Polls
<1>3. ASSUME NEW s \in Sessions, SendStep(s)
      PROVE  Polls'
  <2>1. sess[s].task = NoTask
    BY <1>3 DEF SendStep, Polls
  <2>2. CASE tasks' = tasks /\ Unsent(s)
    BY <1>3, <2>1, <2>2 DEF SendStep, Others, Polls, Unsent
  <2>3. ASSUME NEW t \in Tasks, Enqueued(s, t)
        PROVE  /\ tasks'[t].state # "free" /\ tasks'[t].items = sess[s].items
               /\ \A v \in Sessions : sess[v].task # t
               /\ \A v \in Sessions : sess[v].task # NoTask =>
                        tasks'[sess[v].task] = tasks[sess[v].task]
    BY <2>3, <1>a, TaskNumbers DEF Enqueued, Polls
  <2>4. ASSUME NEW t \in Tasks, Enqueued(s, t), Unsent(s)
        PROVE  Polls'
    BY <1>3, <2>1, <2>3, <2>4 DEF SendStep, Others, Polls, Unsent
  <2>5. ASSUME NEW t \in Tasks, Enqueued(s, t), sess'[s].pc = "poll", sess'[s].task = t
        PROVE  Polls'
    BY <1>3, <2>1, <2>3, <2>5 DEF SendStep, Others, Polls
  <2> QED BY <1>3, <2>2, <2>4, <2>5 DEF SendStep
<1>b. ASSUME NEW s \in Sessions, Others(s), sess'[s].task = NoTask, sess'[s].pc # "poll",
             tasks' \in {tasks, Freed(s)}
      PROVE  Polls'
  <2>1. ASSUME NEW v \in Sessions \ {s}, sess[v].task # NoTask
        PROVE  tasks'[sess[v].task] = tasks[sess[v].task]
    BY <1>a, <1>b, <2>1, FreedFacts DEF Polls
  <2> QED BY <1>b, <2>1 DEF Others, Polls
<1>4. ASSUME NEW s \in Sessions, PollStep(s)
      PROVE  Polls'
  BY <1>4, <1>b DEF PollStep
<1>5. ASSUME NEW s \in Sessions, Commit(s) \/ RollBack(s)
      PROVE  Polls'
  BY <1>5, <1>b, EndFacts, IdleFacts
<1>6. ASSUME NEW t \in Tasks, TaskStep(t)
      PROVE  Polls'
  <2>1. sess' = sess
    BY <1>6, TaskFacts
  <2>2. ASSUME NEW v \in Sessions, sess[v].task # NoTask
        PROVE  tasks'[sess[v].task].state # "free"
                 /\ tasks'[sess[v].task].items = tasks[sess[v].task].items
    BY <1>6, <1>a, <2>2, TaskFacts DEF Polls
  <2> QED BY <2>1, <2>2 DEF Polls
<1>7. CASE MarketStep
  <2>1. UNCHANGED <<tasks, sess>>
    BY <1>7 DEF MarketStep, SyncPrice, Expire, SellerSets, SetCondition
  <2> QED BY <2>1 DEF Polls
<1>8. CASE UNCHANGED vars
  BY <1>8 DEF vars, Polls
<1> QED BY <1>1, <1>2, <1>3, <1>4, <1>5, <1>6, <1>7, <1>8, NextCases DEF SessionStep

LEMMA NextFulfilled == ASSUME TypeOK, Polls, Fulfilled, [Next]_vars PROVE Fulfilled'
<1>1. ASSUME NEW s \in Sessions, StartStep(s)
      PROVE  Fulfilled'
  BY <1>1 DEF StartStep, Others, Fulfilled, InUpload, external
<1>2. ASSUME NEW s \in Sessions, LookStep(s)
      PROVE  Fulfilled'
  <2>1. sess[s].row # "applied" /\ sess'[s].row # "applied"
    BY <1>2 DEF LookStep, Fulfilled
  <2> QED BY <1>2, <2>1 DEF LookStep, Others, Fulfilled, InUpload, external
<1>3. ASSUME NEW s \in Sessions, SendStep(s)
      PROVE  Fulfilled'
  <2>1. sess[s].row # "applied"
    BY <1>3 DEF SendStep, Fulfilled
  <2>2. sess'[s].row # "applied"
    BY <1>3, <2>1 DEF SendStep, Unsent
  <2>3. \A t \in Tasks : tasks'[t].state = "processed_success" => tasks'[t] = tasks[t]
    BY <1>3 DEF SendStep, Enqueued
  <2> QED BY <1>3, <2>2, <2>3 DEF SendStep, Others, Fulfilled, InUpload, external
<1>4. ASSUME NEW s \in Sessions, PollStep(s)
      PROVE  Fulfilled'
  <2>1. sess'[s].row = "applied" => InUpload(s)' \subseteq charged
    <3>1. sess[s].task \in Tasks /\ tasks[sess[s].task].items = sess[s].items
      BY <1>4, TaskNumbers DEF PollStep, Polls
    <3>2. sess'[s].row = "applied" => Wanted(tasks[sess[s].task].items) \subseteq charged
      BY <1>4, <3>1 DEF PollStep, Fulfilled
    <3> QED BY <1>4, <3>1, <3>2 DEF PollStep, InUpload, Wanted
  <2>2. \A t \in Tasks : tasks'[t].state = "processed_success" => tasks'[t] = tasks[t]
    BY <1>4, FreedFacts, FreeFacts DEF PollStep
  <2> QED BY <1>4, <2>1, <2>2 DEF PollStep, Others, Fulfilled, InUpload, external
<1>5. ASSUME NEW s \in Sessions, Commit(s) \/ RollBack(s)
      PROVE  Fulfilled'
  <2>1. \A t \in Tasks : tasks'[t].state = "processed_success" => tasks'[t] = tasks[t]
    BY <1>5, EndFacts, FreedFacts, FreeFacts
  <2> QED BY <1>5, <2>1, EndFacts, IdleFacts DEF Others, Fulfilled, InUpload, external
<1>6. ASSUME NEW t \in Tasks, TaskStep(t)
      PROVE  Fulfilled'
  <2>1. \A u \in Tasks :
            tasks'[u].state = "processed_success" => Wanted(tasks'[u].items) \subseteq charged'
    <3>1. tasks'[t].state = "processed_success" => Wanted(tasks'[t].items) \subseteq charged'
      BY <1>6, TaskFacts, FreeFacts DEF Wanted
    <3> QED BY <1>6, <3>1, TaskFacts DEF Fulfilled
  <2> QED BY <1>6, <2>1, TaskFacts DEF Fulfilled, InUpload
<1>7. CASE MarketStep
  <2>1. UNCHANGED <<tasks, sess, charged>>
    BY <1>7 DEF MarketStep, SyncPrice, Expire, SellerSets, SetCondition, external
  <2> QED BY <2>1 DEF Fulfilled, InUpload
<1>8. CASE UNCHANGED vars
  BY <1>8 DEF vars, Fulfilled, InUpload, external
<1> QED BY <1>1, <1>2, <1>3, <1>4, <1>5, <1>6, <1>7, <1>8, NextCases DEF SessionStep

LEMMA NextApplied == ASSUME TypeOK, Fulfilled, AppliedIsTrue, [Next]_vars PROVE AppliedIsTrue'
<1>1. charged \subseteq charged'
  <2>1. ASSUME NEW t \in Tasks, TaskStep(t)
        PROVE  charged \subseteq charged'
    BY <2>1, TaskFacts
  <2>2. ASSUME NEW s \in Sessions, SessionStep(s)
        PROVE  charged' = charged
    BY <2>2, EndFacts DEF SessionStep, StartStep, LookStep, SendStep, PollStep, external
  <2>3. MarketStep \/ UNCHANGED vars => charged' = charged
    BY DEF MarketStep, SyncPrice, Expire, SellerSets, SetCondition, external, vars
  <2> QED BY <2>1, <2>2, <2>3, NextCases
<1>2. ASSUME NEW s \in Sessions, Commit(s)
      PROVE  AppliedIsTrue'
  BY <1>1, <1>2 DEF Commit, AppliedIsTrue, Fulfilled
<1>3. ASSUME ~\E s \in Sessions : Commit(s)
      PROVE  rows' = rows
  <2>1. ASSUME NEW s \in Sessions, SessionStep(s)
        PROVE  rows' = rows
    BY <1>3, <2>1 DEF SessionStep, StartStep, LookStep, SendStep, PollStep, RollBack, history
  <2>2. ASSUME NEW t \in Tasks, TaskStep(t)
        PROVE  rows' = rows
    BY <2>2, TaskFacts DEF history
  <2>3. MarketStep \/ UNCHANGED vars => rows' = rows
    BY DEF MarketStep, SyncPrice, Expire, SellerSets, SetCondition, history, vars
  <2> QED BY <2>1, <2>2, <2>3, NextCases
<1> QED BY <1>1, <1>2, <1>3 DEF AppliedIsTrue

-----------------------------------------------------------------------------
(***************************************************************************)
(* An upload that Wildberries holds, or has carried out, is in the         *)
(* history, or its session is still open and will write it, or was rolled  *)
(* back.                                                                   *)
(***************************************************************************)
WillTell(s, p) ==
    /\ sess[s].pc \in {"upload", "poll", "commit"} /\ p \in InUpload(s)
    /\ sess[s].pc = "commit" => sess[s].row # "none"
Known(p) == rows[p] # "none" \/ p \in lost \/ \E s \in Sessions : WillTell(s, p)

Told ==
    /\ \A p \in charged : Known(p)
    /\ \A t \in Tasks : tasks[t].state = "queued" =>
            \A p \in Wanted(tasks[t].items) : Known(p)

LEMMA KnownStays ==
    ASSUME TypeOK, [Next]_vars, NEW p \in Products, Known(p)
    PROVE  Known(p)'
<1>1. ASSUME NEW s \in Sessions, SessionStep(s), ~(Commit(s) \/ RollBack(s))
      PROVE  Known(p)'
  <2>1. UNCHANGED <<history, lost>>
    BY <1>1 DEF SessionStep, StartStep, LookStep, SendStep, PollStep
  <2>2. Others(s)
    BY <1>1 DEF SessionStep, StartStep, LookStep, SendStep, PollStep
  <2>3. WillTell(s, p) => SendStep(s) \/ PollStep(s)
    BY <1>1 DEF SessionStep, StartStep, LookStep, WillTell
  <2>4. WillTell(s, p) /\ SendStep(s) => WillTell(s, p)'
    BY DEF SendStep, Unsent, WillTell, InUpload, RowStatuses
  <2>5. WillTell(s, p) /\ PollStep(s) => WillTell(s, p)'
    BY DEF PollStep, WillTell, InUpload, RowStatuses
  <2>6. \A v \in Sessions \ {s} : WillTell(v, p) => WillTell(v, p)'
    BY <2>2 DEF Others, WillTell, InUpload
  <2> QED BY <2>1, <2>3, <2>4, <2>5, <2>6 DEF Known, history
<1>2. ASSUME NEW s \in Sessions, Commit(s)
      PROVE  Known(p)'
  <2>1. rows[p] # "none" \/ WillTell(s, p) => rows'[p] # "none"
    BY <1>2 DEF Commit, WillTell
  <2>2. \A v \in Sessions \ {s} : WillTell(v, p) => WillTell(v, p)'
    BY <1>2, EndFacts DEF Others, WillTell, InUpload
  <2>3. lost' = lost
    BY <1>2 DEF Commit
  <2> QED BY <2>1, <2>2, <2>3 DEF Known
<1>3. ASSUME NEW s \in Sessions, RollBack(s)
      PROVE  Known(p)'
  <2>1. p \in lost \/ WillTell(s, p) => p \in lost'
    BY <1>3 DEF RollBack, WillTell
  <2>2. \A v \in Sessions \ {s} : WillTell(v, p) => WillTell(v, p)'
    BY <1>3, EndFacts DEF Others, WillTell, InUpload
  <2>3. rows' = rows
    BY <1>3 DEF RollBack, history
  <2> QED BY <2>1, <2>2, <2>3 DEF Known
<1>4. ASSUME NEW t \in Tasks, TaskStep(t)
      PROVE  Known(p)'
  <2>1. UNCHANGED <<rows, lost, sess>>
    BY <1>4, TaskFacts DEF history
  <2> QED BY <2>1 DEF Known, WillTell, InUpload
<1>5. ASSUME MarketStep \/ UNCHANGED vars
      PROVE  Known(p)'
  <2>1. UNCHANGED <<rows, lost, sess>>
    BY <1>5 DEF MarketStep, SyncPrice, Expire, SellerSets, SetCondition, history, vars
  <2> QED BY <2>1 DEF Known, WillTell, InUpload
<1> QED BY <1>1, <1>2, <1>3, <1>4, <1>5, NextCases DEF SessionStep

LEMMA NextTold == ASSUME TypeOK, Told, [Next]_vars PROVE Told'
<1>1. ASSUME NEW p \in charged'
      PROVE  p \in Products /\ Known(p)
  <2>1. CASE p \in charged
    BY <2>1 DEF Told, TypeOK
  <2>2. ASSUME NEW t \in Tasks, TaskStep(t), p \notin charged
        PROVE  p \in Products /\ Known(p)
    BY <1>1, <2>2, TaskFacts DEF Told, Wanted
  <2>3. ASSUME NEW s \in Sessions, SessionStep(s)
        PROVE  charged' = charged
    BY <2>3, EndFacts DEF SessionStep, StartStep, LookStep, SendStep, PollStep, external
  <2>4. MarketStep \/ UNCHANGED vars => charged' = charged
    BY DEF MarketStep, SyncPrice, Expire, SellerSets, SetCondition, external, vars
  <2> QED BY <1>1, <2>1, <2>2, <2>3, <2>4, NextCases
<1>2. ASSUME NEW t \in Tasks, tasks'[t].state = "queued", NEW p \in Wanted(tasks'[t].items)
      PROVE  Known(p)'
  <2>p. p \in Products
    BY <1>2 DEF Wanted
  <2>1. CASE tasks'[t] = tasks[t]
    BY <1>2, <2>1, <2>p, KnownStays DEF Told
  <2>2. ASSUME NEW s \in Sessions, SendStep(s), tasks'[t] # tasks[t]
        PROVE  Known(p)'
    <3>1. tasks'[t].items = sess[s].items /\ sess'[s].items = sess[s].items
      BY <2>2 DEF SendStep, Enqueued
    <3>2. p \in InUpload(s)'
      BY <1>2, <3>1 DEF Wanted, InUpload
    <3>3. sess'[s].pc \in {"upload", "poll", "commit"}
            /\ (sess'[s].pc = "commit" => sess'[s].row # "none")
      BY <2>2 DEF SendStep, Unsent, RowStatuses
    <3> QED BY <3>2, <3>3 DEF Known, WillTell
  <2>3. ASSUME NEW s \in Sessions, SessionStep(s), ~SendStep(s)
        PROVE  tasks'[t] = tasks[t]
    <3>1. tasks' = tasks \/ tasks' = Freed(s)
      BY <2>3, EndFacts DEF SessionStep, StartStep, LookStep, PollStep
    <3> QED BY <1>2, <3>1, FreedFacts, FreeFacts
  <2>4. ASSUME NEW u \in Tasks, TaskStep(u)
        PROVE  tasks'[t] = tasks[t]
    <3>1. "queued" \notin Outcomes \cup {"cancelled", "free"}
      BY DEF Outcomes
    <3> QED BY <1>2, <2>4, <3>1, TaskFacts, FreeFacts
  <2>5. MarketStep \/ UNCHANGED vars => tasks'[t] = tasks[t]
    BY DEF MarketStep, SyncPrice, Expire, SellerSets, SetCondition, vars
  <2> QED BY <2>1, <2>2, <2>3, <2>4, <2>5, NextCases
<1> QED BY <1>1, <1>2, KnownStays DEF Told

-----------------------------------------------------------------------------
Inv == TypeOK /\ Bounded /\ Polls /\ Fulfilled /\ AppliedIsTrue /\ Told

LEMMA InitInv == Init => Inv
<1> SUFFICES ASSUME Init PROVE Inv
  OBVIOUS
<1>1. TypeOK
  <2>1. NoRec \in Rec
    BY DEF NoRec, Rec, RecStatuses
  <2>2. wb \in [Products -> Nat] /\ db \in [Products -> Nat]
    <3>1. Listed \subseteq Nat /\ Listed \cup {0} \subseteq Nat
      BY PricesAssumption
    <3>2. wb \in [Products -> Listed] /\ db \in [Products -> Listed \cup {0}]
      BY DEF Init
    <3> QED BY <3>1, <3>2
  <2>3. Needs \cup {0} = Asked
    BY DEF Asked
  <2> QED BY <2>1, <2>2, <2>3, IdleFacts, FreeFacts DEF Init, TypeOK
<1>2. Bounded
  <2>1. RecsFit(recs)
    BY ZerosFit DEF Init
  <2>2. \A s \in Sessions : RecsFit(sess[s].recs) /\ ItemsFit(sess[s].items)
    BY IdleFacts, ZerosFit DEF Init
  <2>3. \A t \in Tasks : ItemsFit(tasks[t].items)
    BY FreeFacts, ZerosFit DEF Init
  <2> QED BY <2>1, <2>2, <2>3 DEF Bounded
<1>3. \A s \in Sessions : sess[s] = Idle
  BY DEF Init
<1>4. \A t \in Tasks : tasks[t].state = "free"
  BY FreeFacts DEF Init
<1>5. charged = {} /\ \A p \in Products : rows[p] = "none"
  BY DEF Init
<1>6. Polls
  BY <1>3, IdleFacts DEF Polls
<1>7. Fulfilled
  BY <1>3, <1>4, IdleFacts DEF Fulfilled
<1>8. AppliedIsTrue /\ Told
  BY <1>4, <1>5 DEF AppliedIsTrue, Told
<1> QED BY <1>1, <1>2, <1>6, <1>7, <1>8 DEF Inv

LEMMA Invariance == Spec => []Inv
<1>1. Inv /\ [Next]_vars => Inv'
  BY NextType, NextBounded, NextPolls, NextFulfilled, NextApplied, NextTold DEF Inv
<1> QED BY InitInv, <1>1, PTL DEF Spec

(* Prices, sessions and tasks always have values the code gives them, for  *)
(* any number of products and sessions (WBPriceUpdateService).             *)
THEOREM TypeCorrect == Spec => []TypeOK
<1>1. Inv => TypeOK
  BY DEF Inv
<1> QED BY Invariance, <1>1, PTL

(* Every upload is for a price in the bounds of the MRC, and rounding      *)
(* costs less than a rouble of the list price and never exceeds the target *)
(* (_can_change_price, calculate_wb_price_payload_for_target).             *)
THEOREM UploadsInBounds == Spec => []OursInBounds
<1>1. Inv => OursInBounds
  BY BoundedIsEnough DEF Inv
<1> QED BY Invariance, <1>1, PTL

(* A price in the history as applied was set at Wildberries by one of our  *)
(* uploads (_check_upload_status).                                         *)
THEOREM AppliedPrices == Spec => []AppliedIsTrue
<1>1. Inv => AppliedIsTrue
  BY DEF Inv
<1> QED BY Invariance, <1>1, PTL

(* A price that one of our uploads has set is in the history, unless its   *)
(* session is open or was rolled back (_execute_upload).                   *)
THEOREM NoSilentChange == Spec => []ChangesAreTold
<1>1. Inv => ChangesAreTold
  BY DEF Inv, Told, Known, WillTell, ChangesAreTold
<1> QED BY Invariance, <1>1, PTL
=============================================================================
