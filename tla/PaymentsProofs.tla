--------------------------- MODULE PaymentsProofs ---------------------------
(***************************************************************************)
(* For any number of payments, sessions, users and tiers: the books agree  *)
(* with the provider, nobody gets a period or a message for money that did *)
(* not arrive, and a payment buys one period, once, as PaymentLedger       *)
(* promises, unless another session had it in hand.                        *)
(***************************************************************************)
EXTENDS PaymentOverlaps, TLAPS, FiniteSetTheorems

(* The columns a session has not written keep their committed value.       *)
LEMMA OrType ==
    ASSUME NEW S, NEW new \in S \cup {None}, NEW old \in S
    PROVE  Or(new, old) \in S
  BY DEF Or

LEMMA IdleType == Idle \in Task /\ NoWrites \in Writes
  BY BoundsAssumption
     DEF Idle, NoWrites, NoBag, Bag, Task, Writes

(* A session sees well-formed rows of user_subscriptions.                  *)
LEMMA ViewType ==
    ASSUME TypeOK, NEW s \in Sessions
    PROVE  View(s) \in [SubIds -> UserSubscription \cup {None}]
  <1> DEFINE w == writes[s]
  <1>1. w \in Writes
    BY DEF TypeOK
  <1>2. ASSUME NEW i \in SubIds
        PROVE  View(s)[i] \in UserSubscription \cup {None}
    <2> DEFINE row == Or(w.insert[i], subs[i])
    <2>1. row \in UserSubscription \cup {None}
      BY <1>1 DEF Writes, TypeOK, Or
    <2>2. CASE row = None
      BY <2>2 DEF View
    <2>3. CASE row # None
      <3>1. row \in UserSubscription
        BY <2>1, <2>3
      <3>2. Or(w.paid[i], row.paid) \in Bag
        BY <1>1, <3>1 DEF Writes, UserSubscription, Or
      <3>3. (row.live \/ w.paid[i] # None) \in BOOLEAN
        OBVIOUS
      <3> QED
        BY <2>3, <3>1, <3>2 DEF View, UserSubscription
    <2> QED
      BY <2>2, <2>3
  <1> QED
    BY <1>2 DEF View

LEMMA RestType ==
    ASSUME NEW t \in Task
    PROVE  Rest(t) \in Task /\ Rest(t).pc \in {"peek", "commit"}
  <1> DEFINE pc == IF t.todo = {} THEN "commit" ELSE "peek"
  <1>1. Rest(t) = [Idle EXCEPT !.pc = pc, !.kind = t.kind,
                               !.todo = t.todo, !.told = t.told]
    BY DEF Rest
  <1>2. pc \in {"peek", "commit"}
    OBVIOUS
  <1> HIDE DEF pc
  <1>3. Rest(t) \in Task
    BY <1>1, <1>2, IdleType DEF Task
  <1>4. Rest(t).pc = pc
    BY <1>1 DEF Idle
  <1> QED
    BY <1>2, <1>3, <1>4

LEMMA TypeInit == Init => TypeOK /\ Assigned
  <1> SUFFICES ASSUME Init PROVE TypeOK /\ Assigned
    OBVIOUS
  <1>1. TypeOK
    BY IdleType, BoundsAssumption
       DEF Init, TypeOK, ProviderStatus, PaymentStatus, PromoCodeUsage
  <1>2. Assigned
    BY DEF Init, Assigned, Idle
  <1> QED
    BY <1>1, <1>2

(* The environment touches no session.                                     *)
LEMMA EnvironmentType ==
    ASSUME TypeOK, Environment
    PROVE  TypeOK' /\ UNCHANGED <<task, writes>>
  <1>1. ASSUME NEW p \in Payments, Pay(p) \/ ProviderCancels(p)
        PROVE  TypeOK' /\ UNCHANGED <<task, writes>>
    BY <1>1 DEF Pay, ProviderCancels, TypeOK, database, ProviderStatus
  <1>2. ASSUME NEW t \in Tiers, RenameTier(t) \/ RestoreTier(t)
        PROVE  TypeOK' /\ UNCHANGED <<task, writes>>
    BY <1>2 DEF RenameTier, RestoreTier, TypeOK, database
  <1>3. ASSUME NEW i \in SubIds, Lapse(i)
        PROVE  TypeOK' /\ UNCHANGED <<task, writes>>
    BY <1>3 DEF Lapse, TypeOK, outside, UserSubscription
  <1>4. ASSUME NEW u \in Users, CancelSubscription(u)
        PROVE  TypeOK' /\ UNCHANGED <<task, writes>>
    BY <1>4 DEF CancelSubscription, GetActiveSubscription, ActiveRows,
                TypeOK, outside, UserSubscription
  <1> QED
    BY <1>1, <1>2, <1>3, <1>4 DEF Environment

(* A step that changes only what session s is doing.                       *)
LEMMA TaskStep ==
    ASSUME TypeOK, Assigned, NEW s \in Sessions, NEW t \in Task,
           t.pc \notin {"idle", "peek", "commit"} => t.p \in Payments,
           t.pc \in {"promo", "count"} => t.p \in Promo,
           task' = [task EXCEPT ![s] = t]
    PROVE  task' \in [Sessions -> Task] /\ Assigned'
  BY DEF TypeOK, Assigned

LEMMA BeginType ==
    ASSUME TypeOK, Assigned, NEW s \in Sessions, NEW p \in Payments \cup {None},
           NEW pc \in {"verify", "peek"}, NEW todo \in SUBSET Payments,
           NEW kind \in {"success", "cancel", "return", "cancel_page", "reconcile"},
           pc = "verify" => p \in Payments,
           Begin(s, pc, kind, p, todo)
    PROVE  TypeOK' /\ Assigned'
  <1> DEFINE t == [Idle EXCEPT !.pc = pc, !.kind = kind, !.p = p,
                               !.todo = todo, !.told = notified,
                               !.failed = p # None /\ status[p] = "FAILED"]
  <1>1. t \in Task
    BY IdleType DEF Task, TypeOK, Idle
  <1>2. t.pc = pc /\ t.p = p
    BY DEF Idle
  <1>3. task' \in [Sessions -> Task] /\ Assigned'
    BY <1>1, <1>2, TaskStep DEF Begin
  <1> QED
    BY <1>3 DEF Begin, TypeOK, database, outside

LEMMA EnterType ==
    ASSUME TypeOK, Assigned, NEW s \in Sessions, Enter(s)
    PROVE  TypeOK' /\ Assigned'
  <1>1. CASE ReconcilePendingPayments(s)
    BY <1>1, BeginType DEF ReconcilePendingPayments, PendingPayments
  <1>2. ASSUME NEW p \in Payments, FindPendingPayment(s, p)
        PROVE  TypeOK' /\ Assigned'
    <2> DEFINE t == [Idle EXCEPT !.pc = "create", !.p = p]
    <2>1. t \in Task /\ t.pc = "create" /\ t.p = p
      BY IdleType DEF Task, Idle
    <2>2. task' \in [Sessions -> Task] /\ Assigned'
      BY <1>2, <2>1, TaskStep DEF FindPendingPayment
    <2> QED
      BY <1>2, <2>2 DEF FindPendingPayment, TypeOK, database, outside
  <1>3. ASSUME NEW p \in Payments,
               HandlePaymentSuccess(s, p) \/ HandlePaymentCancel(s, p)
        PROVE  TypeOK' /\ Assigned'
    BY <1>3, BeginType DEF HandlePaymentSuccess, HandlePaymentCancel
  <1>4. ASSUME NEW p \in Payments, OpenReturnPage(s, p)
        PROVE  TypeOK' /\ Assigned'
    BY <1>4, BeginType DEF OpenReturnPage
  <1> QED
    BY <1>1, <1>2, <1>3, <1>4 DEF Enter

(* Moving a session on, or being through with its payment.                 *)
LEMMA GoToType ==
    ASSUME TypeOK, Assigned, NEW s \in Sessions,
           NEW pc \in {"insert", "cancel", "lookup", "fail", "promo", "count",
                       "notify"},
           task[s].p \in Payments,
           pc \in {"promo", "count"} => task[s].p \in Promo,
           GoTo(s, pc)
    PROVE  task' \in [Sessions -> Task] /\ Assigned'
  <1> DEFINE t == [task[s] EXCEPT !.pc = pc]
  <1>1. task[s] \in Task
    BY DEF TypeOK
  <1>2. t \in Task /\ t.pc = pc /\ t.p = task[s].p
    BY <1>1 DEF Task
  <1>3. task' = [task EXCEPT ![s] = t]
    BY DEF GoTo, TypeOK
  <1> QED
    BY <1>2, <1>3, TaskStep

LEMMA DoneType ==
    ASSUME TypeOK, Assigned, NEW s \in Sessions, Done(s)
    PROVE  task' \in [Sessions -> Task] /\ Assigned'
  <1>1. Rest(task[s]) \in Task /\ Rest(task[s]).pc \in {"peek", "commit"}
    BY RestType DEF TypeOK
  <1>2. task' = [task EXCEPT ![s] = Rest(task[s])]
    BY DEF Done, TypeOK
  <1> QED
    BY <1>1, <1>2, TaskStep

(* The steps that wait for the provider or read rows.                      *)
LEMMA ReadType ==
    ASSUME TypeOK, Assigned, NEW s \in Sessions,
           \/ ProviderCreates(s) \/ PeekSucceeded(s) \/ PeekCanceled(s)
           \/ PeekNothing(s) \/ VerifyOk(s) \/ VerifyRefused(s)
           \/ LookupSubscription(s) \/ TierNotFound(s) \/ ReadUsedCount(s)
           \/ SkipNotification(s)
    PROVE  TypeOK' /\ Assigned'
  <1>0. task[s] \in Task /\ writes[s] \in Writes
    BY DEF TypeOK
  <1> USE <1>0
  <1>1. CASE ProviderCreates(s)
    <2>1. task' \in [Sessions -> Task] /\ Assigned'
      BY <1>1, GoToType DEF ProviderCreates, Assigned
    <2> QED
      BY <1>1, <2>1 DEF ProviderCreates, TypeOK, database, ProviderStatus
  <1>2. ASSUME NEW p \in task[s].todo, NEW pc \in {"verify", "cancel"}, Take(s, p, pc)
        PROVE  task' \in [Sessions -> Task] /\ Assigned'
    <2> DEFINE t == [task[s] EXCEPT !.pc = pc, !.p = p, !.todo = @ \ {p}]
    <2>1. t \in Task /\ t.pc = pc /\ t.p = p /\ p \in Payments
      BY DEF Task
    <2>2. task' = [task EXCEPT ![s] = t]
      BY <1>2 DEF Take, TypeOK
    <2> QED
      BY <2>1, <2>2, TaskStep
  <1>3. CASE PeekSucceeded(s)
    BY <1>2, <1>3 DEF PeekSucceeded, TypeOK, database, outside
  <1>4. CASE PeekCanceled(s)
    BY <1>2, <1>4 DEF PeekCanceled, TypeOK, database, outside
  <1>5. CASE PeekNothing(s)
    <2>1. PICK p \in task[s].todo :
             task' = [task EXCEPT ![s] =
                        Rest([task[s] EXCEPT !.todo = task[s].todo \ {p}])]
      BY <1>5 DEF PeekNothing, TypeOK
    <2>2. [task[s] EXCEPT !.todo = task[s].todo \ {p}] \in Task
      BY DEF Task
    <2>3. task' \in [Sessions -> Task] /\ Assigned'
      BY <2>1, <2>2, RestType, TaskStep
    <2> QED
      BY <1>5, <2>3 DEF PeekNothing, TypeOK, database, outside
  <1>6. CASE VerifyOk(s)
    <2>1. task[s].p \in Payments
      BY <1>6 DEF VerifyOk, Assigned
    <2>2. task' \in [Sessions -> Task] /\ Assigned'
      BY <1>6, <2>1, GoToType DEF VerifyOk
    <2> QED
      BY <1>6, <2>2 DEF VerifyOk, TypeOK, database, outside
  <1>7. CASE VerifyRefused(s)
    BY <1>7, DoneType DEF VerifyRefused, TypeOK, database, outside
  <1>8. CASE LookupSubscription(s)
    <2>1. task[s].p \in Payments
      BY <1>8 DEF LookupSubscription, Assigned
    <2>2. PICK i \in GetActiveSubscription(View(s), UserOf[task[s].p]) :
             task' = [task EXCEPT ![s].pc = "activate", ![s].active = i,
                        ![s].base = IF i = None THEN NoBag ELSE View(s)[i].paid]
      BY <1>8 DEF LookupSubscription
    <2> DEFINE base == IF i = None THEN NoBag ELSE View(s)[i].paid
               t == [task[s] EXCEPT !.pc = "activate", !.active = i, !.base = base]
    <2>3. i = None \/ (i \in SubIds /\ View(s)[i] # None)
      BY DEF GetActiveSubscription, ActiveRows
    <2>4. base \in Bag
      BY <2>3, ViewType, BoundsAssumption DEF NoBag, Bag, UserSubscription
    <2>5. t \in Task /\ t.pc = "activate" /\ t.p = task[s].p
      BY <2>3, <2>4 DEF Task
    <2>6. task' = [task EXCEPT ![s] = t]
      BY <2>2 DEF TypeOK
    <2>7. task' \in [Sessions -> Task] /\ Assigned'
      BY <2>1, <2>5, <2>6, TaskStep
    <2> QED
      BY <1>8, <2>7 DEF LookupSubscription, TypeOK, database, outside
  <1>9. CASE TierNotFound(s)
    <2>1. task' \in [Sessions -> Task] /\ Assigned'
      BY <1>9, GoToType DEF TierNotFound, Assigned
    <2> QED
      BY <1>9, <2>1 DEF TierNotFound, TypeOK, database, outside
  <1>10. CASE ReadUsedCount(s)
    <2> DEFINE n == Or(writes[s].count, usedCount)
               t == [task[s] EXCEPT !.pc = "count", !.count = n]
    <2>1. n \in 0..MaxUsed
      BY DEF Or, Writes, TypeOK
    <2>2. t \in Task /\ t.pc = "count" /\ t.p = task[s].p
      BY <2>1 DEF Task
    <2>3. task' = [task EXCEPT ![s] = t]
      BY <1>10 DEF ReadUsedCount, TypeOK
    <2>4. task' \in [Sessions -> Task] /\ Assigned'
      BY <1>10, <2>2, <2>3, TaskStep DEF ReadUsedCount, Assigned
    <2> QED
      BY <1>10, <2>4 DEF ReadUsedCount, TypeOK, database, outside
  <1>11. CASE SkipNotification(s)
    BY <1>11, DoneType DEF SkipNotification, TypeOK, database, outside
  <1> QED
    BY <1>1, <1>3, <1>4, <1>5, <1>6, <1>7, <1>8, <1>9, <1>10, <1>11

(* What a session flushes has the columns' types.                          *)
LEMMA WriteStep ==
    ASSUME TypeOK, NEW s \in Sessions, NEW w \in Writes,
           writes' = [writes EXCEPT ![s] = w]
    PROVE  writes' \in [Sessions -> Writes]
  BY DEF TypeOK

LEMMA FlushType ==
    ASSUME TypeOK, Assigned, NEW s \in Sessions,
           \/ InsertPayment(s) \/ MarkActivationFailed(s) \/ MarkCancelled(s)
           \/ ConfirmUsage(s) \/ SendSuccessNotification(s)
    PROVE  TypeOK' /\ Assigned'
  <1>0. task[s] \in Task /\ writes[s] \in Writes
    BY DEF TypeOK
  <1> USE <1>0
  <1> DEFINE p == task[s].p
             w == writes[s]
  <1>1. ASSUME NEW st \in PaymentStatus
        PROVE  [w EXCEPT !.status[p] = st] \in Writes
    BY DEF Writes
  <1>2. CASE InsertPayment(s)
    <2>1. writes' = [writes EXCEPT ![s] = [w EXCEPT !.status[p] = "PENDING"]]
      BY <1>2 DEF InsertPayment, TypeOK
    <2>2. writes' \in [Sessions -> Writes]
      BY <1>1, <2>1, WriteStep DEF PaymentStatus
    <2> QED
      BY <1>2, <2>2, DoneType DEF InsertPayment, TypeOK, database, outside
  <1>3. CASE MarkActivationFailed(s)
    <2>1. \/ UNCHANGED writes
          \/ writes' = [writes EXCEPT ![s] = [w EXCEPT !.status[p] = "FAILED"]]
      BY <1>3 DEF MarkActivationFailed, TypeOK
    <2>2. writes' \in [Sessions -> Writes]
      BY <1>1, <2>1, WriteStep DEF PaymentStatus, TypeOK
    <2> QED
      BY <1>3, <2>2, DoneType DEF MarkActivationFailed, TypeOK, database, outside
  <1>4. CASE MarkCancelled(s)
    <2> DEFINE bound == {q \in Promo \cap {p} :
                            usage[q].bound /\ usage[q].state = "RESERVED"}
               rel == IF task[s].kind = "cancel" THEN w.released \cup bound
                      ELSE w.released
               v == [w EXCEPT !.status[p] = "CANCELLED", !.released = rel]
    <2>1. writes' = [writes EXCEPT ![s] = v]
      BY <1>4 DEF MarkCancelled, TypeOK
    <2>2. rel \in SUBSET Promo
      BY DEF Writes
    <2>3. v \in Writes
      BY <2>2 DEF Writes, PaymentStatus
    <2>4. writes' \in [Sessions -> Writes]
      BY <2>1, <2>3, WriteStep
    <2> QED
      BY <1>4, <2>4, DoneType DEF MarkCancelled, TypeOK, database, outside
  <1>5. CASE ConfirmUsage(s)
    <2> DEFINE v == [w EXCEPT !.applied = w.applied \cup {p},
                              !.count = task[s].count + 1]
    <2>1. p \in Promo /\ p \in Payments
      BY <1>5 DEF ConfirmUsage, Assigned
    <2>2. task[s].count + 1 \in 0..MaxUsed
      BY <1>5, BoundsAssumption DEF ConfirmUsage, Task
    <2>3. writes' = [writes EXCEPT ![s] = v]
      BY <1>5 DEF ConfirmUsage, Increment, TypeOK
    <2>4. v \in Writes
      BY <2>1, <2>2 DEF Writes
    <2>5. writes' \in [Sessions -> Writes]
      BY <2>3, <2>4, WriteStep
    <2>6. task' \in [Sessions -> Task] /\ Assigned'
      BY <1>5, <2>1, GoToType DEF ConfirmUsage
    <2> QED
      BY <1>5, <2>5, <2>6 DEF ConfirmUsage, TypeOK, database, outside
  <1>6. CASE SendSuccessNotification(s)
    <2> DEFINE v == [w EXCEPT !.notified = w.notified \cup {p}]
    <2>1. p \in Payments
      BY <1>6 DEF SendSuccessNotification, Assigned
    <2>2. writes' = [writes EXCEPT ![s] = v]
      BY <1>6 DEF SendSuccessNotification, TypeOK
    <2>3. v \in Writes
      BY <2>1 DEF Writes
    <2>4. writes' \in [Sessions -> Writes]
      BY <2>2, <2>3, WriteStep
    <2>5. messages' \in [Payments -> 0..MaxMessages]
      BY <1>6, <2>1, BoundsAssumption DEF SendSuccessNotification, TypeOK
    <2> QED
      BY <1>6, <2>4, <2>5, DoneType DEF SendSuccessNotification, TypeOK, database
  <1> QED
    BY <1>2, <1>3, <1>4, <1>5, <1>6

LEMMA ActivateType ==
    ASSUME TypeOK, Assigned, NEW s \in Sessions,
           RenewSubscription(s) \/ CreateSubscription(s)
    PROVE  TypeOK' /\ Assigned'
  <1>0. task[s] \in Task /\ writes[s] \in Writes
    BY DEF TypeOK
  <1> USE <1>0
  <1> DEFINE p == task[s].p
             i == task[s].active
             w == writes[s]
  <1>1. p \in Payments
    BY DEF RenewSubscription, CreateSubscription, Assigned
  <1>2. task' \in [Sessions -> Task] /\ Assigned'
    BY <1>1, GoToType DEF RenewSubscription, CreateSubscription, Activated
  <1>3. ASSUME NEW j \in SubIds
        PROVE  MarkPaid(w, p, j) \in Writes
    BY DEF MarkPaid, Writes, PaymentStatus
  <1>4. CASE RenewSubscription(s)
    <2> DEFINE bag == [task[s].base EXCEPT ![p] = task[s].base[p] + 1]
               m == MarkPaid(w, p, i)
               v == [m EXCEPT !.paid[i] = bag]
    <2>1. i \in SubIds
      BY <1>4 DEF RenewSubscription, Task
    <2>2. bag \in Bag
      BY <1>1, <1>4, BoundsAssumption DEF RenewSubscription, Task, Bag
    <2>3. v \in Writes
      <3>1. m \in Writes
        BY <1>3, <2>1
      <3> HIDE DEF m, bag
      <3> QED
        BY <2>1, <2>2, <3>1 DEF Writes
    <2>4. writes' = [writes EXCEPT ![s] = v]
      BY <1>4 DEF RenewSubscription, Task
    <2>5. writes' \in [Sessions -> Writes]
      BY <2>3, <2>4, WriteStep
    <2> QED
      BY <1>2, <1>4, <2>5 DEF RenewSubscription, TypeOK, database, outside
  <1>5. CASE CreateSubscription(s)
    <2>1. PICK new \in NextId :
             writes' = [writes EXCEPT ![s] =
               [MarkPaid(w, p, new) EXCEPT
                  !.insert[new] =
                     [user |-> UserOf[p], tier |-> TierOf[p],
                      status |-> "ACTIVE", live |-> TRUE,
                      paid |-> [NoBag EXCEPT ![p] = 1]],
                  !.replaced = w.replaced \cup ({i} \ {None})]]
      BY <1>5 DEF CreateSubscription
    <2> DEFINE row == [user |-> UserOf[p], tier |-> TierOf[p],
                       status |-> "ACTIVE", live |-> TRUE,
                       paid |-> [NoBag EXCEPT ![p] = 1]]
               gone == w.replaced \cup ({i} \ {None})
               m == MarkPaid(w, p, new)
               v == [m EXCEPT !.insert[new] = row, !.replaced = gone]
    <2>2. new \in SubIds
      BY DEF NextId, FreeIds
    <2>3. [NoBag EXCEPT ![p] = 1] \in Bag
      <3>1. 0 \in 0..MaxGrants /\ 1 \in 0..MaxGrants
        BY BoundsAssumption
      <3> QED
        BY <3>1 DEF NoBag, Bag
    <2>4. row \in UserSubscription
      BY <1>1, <2>3, OrdersAssumption DEF UserSubscription
    <2>5. gone \in SUBSET SubIds
      BY DEF Task, Writes
    <2>6. v \in Writes
      <3>1. m \in Writes
        BY <1>3, <2>2
      <3> HIDE DEF m, row, gone
      <3> QED
        BY <2>2, <2>4, <2>5, <3>1 DEF Writes
    <2>7. writes' \in [Sessions -> Writes]
      BY <2>1, <2>6, WriteStep
    <2> QED
      BY <1>2, <1>5, <2>7 DEF CreateSubscription, TypeOK, database, outside
  <1> QED
    BY <1>4, <1>5

LEMMA CloseType ==
    ASSUME TypeOK, Assigned, NEW s \in Sessions, Commit(s) \/ Rollback(s)
    PROVE  TypeOK' /\ Assigned'
  <1>0. writes[s] \in Writes
    BY DEF TypeOK
  <1> USE <1>0
  <1> DEFINE w == writes[s]
  <1>1. Close(s)
    BY DEF Commit, Rollback
  <1>2. writes' \in [Sessions -> Writes]
    BY <1>1, IdleType DEF Close, TypeOK
  <1>3. task' \in [Sessions -> Task] /\ Assigned'
    <2>1. Idle.pc = "idle"
      BY DEF Idle
    <2> QED
      BY <1>1, <2>1, IdleType, TaskStep DEF Close
  <1>4. CASE Rollback(s)
    BY <1>1, <1>2, <1>3, <1>4 DEF Rollback, Close, TypeOK, database, outside
  <1>5. CASE Commit(s)
    <2>1. status' \in [Payments -> PaymentStatus]
      BY <1>5 DEF Commit, Or, Writes, TypeOK
    <2>2. subscription' \in [Payments -> SubIds \cup {None}]
      BY <1>5 DEF Commit, Or, Writes, TypeOK
    <2>3. notified' \subseteq Payments
      BY <1>5 DEF Commit, Writes, TypeOK
    <2>4. subs' \in [SubIds -> UserSubscription \cup {None}]
      BY <1>5, ViewType DEF Commit
    <2>5. usage' \in [Promo -> PromoCodeUsage]
      BY <1>5 DEF Commit, TypeOK, PromoCodeUsage
    <2>6. usedCount' \in 0..MaxUsed
      BY <1>5 DEF Commit, Or, Writes, TypeOK
    <2> QED
      BY <1>1, <1>2, <1>3, <2>1, <2>2, <2>3, <2>4, <2>5, <2>6
         DEF Close, TypeOK, outside
  <1> QED
    BY <1>4, <1>5

LEMMA TypeNext == TypeOK /\ Assigned /\ [Next]_vars => TypeOK' /\ Assigned'
  <1> SUFFICES ASSUME TypeOK, Assigned, [Next]_vars
               PROVE  TypeOK' /\ Assigned'
    OBVIOUS
  <1>1. CASE Environment
    BY <1>1, EnvironmentType DEF Assigned
  <1>2. ASSUME NEW s \in Sessions, Enter(s)
        PROVE  TypeOK' /\ Assigned'
    BY <1>2, EnterType
  <1>3. ASSUME NEW s \in Sessions, Work(s)
        PROVE  TypeOK' /\ Assigned'
    BY <1>3, ReadType, FlushType, ActivateType, CloseType DEF Work
  <1>4. CASE UNCHANGED vars
    BY <1>4 DEF vars, TypeOK, Assigned
  <1> QED
    BY <1>1, <1>2, <1>3, <1>4 DEF Next

(* Every row, every session and every pending write is well formed.        *)
THEOREM TypeCorrect == Spec => [](TypeOK /\ Assigned)
  BY TypeInit, TypeNext, PTL DEF Spec

-----------------------------------------------------------------------------
(* The books agree with the provider.                                      *)
IInv == TypeOK /\ SessionsAgree /\ AgreesWithProvider

LEMMA AgreeInit == Init => SessionsAgree /\ AgreesWithProvider
  <1> SUFFICES ASSUME Init PROVE SessionsAgree /\ AgreesWithProvider
    OBVIOUS
  <1>1. \A s \in Sessions : TaskAgrees(s)
    BY DEF Init, TaskAgrees, Idle
  <1>2. \A s \in Sessions : WritesAgree(s)
    BY NoneAssumption DEF Init, WritesAgree, NoWrites, PaymentStatus
  <1>3. AgreesWithProvider
    BY DEF Init, AgreesWithProvider
  <1> QED
    BY <1>1, <1>2, <1>3, TypeInit DEF SessionsAgree

(* The provider only moves from pending to a verdict.                      *)
LEMMA EnvironmentAgrees ==
    ASSUME IInv, Environment
    PROVE  SessionsAgree' /\ AgreesWithProvider'
  <1> USE DEF IInv
  <1>0. UNCHANGED <<task, writes>> /\ Assigned'
    BY EnvironmentType DEF Assigned, SessionsAgree
  <1>1. ASSUME NEW p \in Payments, Pay(p) \/ ProviderCancels(p)
        PROVE  SessionsAgree' /\ AgreesWithProvider'
    <2>1. /\ UNCHANGED status
          /\ provider[p] = "pending"
          /\ provider' \in [Payments -> ProviderStatus]
          /\ provider'[p] # "none"
          /\ \A q \in Payments \ {p} : provider'[q] = provider[q]
      BY <1>1 DEF Pay, ProviderCancels, TypeOK, database, ProviderStatus
    <2>2. \A s \in Sessions : TaskAgrees(s)'
      BY <1>0, <2>1 DEF TaskAgrees, SessionsAgree, Assigned
    <2>3. \A s \in Sessions : WritesAgree(s)'
      BY <1>0, <2>1 DEF WritesAgree, SessionsAgree
    <2>4. AgreesWithProvider'
      BY <2>1 DEF AgreesWithProvider
    <2> QED
      BY <1>0, <2>2, <2>3, <2>4 DEF SessionsAgree
  <1>2. ASSUME UNCHANGED <<provider, status>>
        PROVE  SessionsAgree' /\ AgreesWithProvider'
    BY <1>0, <1>2 DEF SessionsAgree, TaskAgrees, WritesAgree, AgreesWithProvider
  <1>3. ASSUME NEW t \in Tiers, RenameTier(t) \/ RestoreTier(t)
        PROVE  UNCHANGED <<provider, status>>
    BY <1>3 DEF RenameTier, RestoreTier, database
  <1>4. ASSUME NEW i \in SubIds, Lapse(i)
        PROVE  UNCHANGED <<provider, status>>
    BY <1>4 DEF Lapse, outside
  <1>5. ASSUME NEW u \in Users, CancelSubscription(u)
        PROVE  UNCHANGED <<provider, status>>
    BY <1>5 DEF CancelSubscription, outside
  <1> QED
    BY <1>1, <1>2, <1>3, <1>4, <1>5 DEF Environment

(* A session moves on, knowing no more than the provider has said.         *)
LEMMA TaskStepAgrees ==
    ASSUME IInv, NEW s \in Sessions, NEW t \in Task,
           task' = [task EXCEPT ![s] = t], UNCHANGED provider,
           t.pc \in {"lookup", "activate", "promo", "count", "notify", "fail"}
              => provider[t.p] = "succeeded",
           t.pc = "cancel" => provider[t.p] = "canceled",
           t.pc # "create",
           t.pc = "insert" => provider[t.p] # "none"
    PROVE  \A r \in Sessions : TaskAgrees(r)'
  BY DEF IInv, SessionsAgree, TaskAgrees, TypeOK

LEMMA GoToAgrees ==
    ASSUME IInv, NEW s \in Sessions,
           NEW pc \in {"cancel", "lookup", "fail", "promo", "count", "notify"},
           GoTo(s, pc), UNCHANGED provider,
           pc # "cancel" => provider[task[s].p] = "succeeded",
           pc = "cancel" => provider[task[s].p] = "canceled"
    PROVE  \A r \in Sessions : TaskAgrees(r)'
  <1> DEFINE t == [task[s] EXCEPT !.pc = pc]
  <1>1. t \in Task /\ t.pc = pc /\ t.p = task[s].p
    BY DEF IInv, TypeOK, Task
  <1>2. task' = [task EXCEPT ![s] = t]
    BY DEF GoTo, IInv, TypeOK
  <1> QED
    BY <1>1, <1>2, TaskStepAgrees

LEMMA DoneAgrees ==
    ASSUME IInv, NEW s \in Sessions, Done(s), UNCHANGED provider
    PROVE  \A r \in Sessions : TaskAgrees(r)'
  <1>1. Rest(task[s]) \in Task /\ Rest(task[s]).pc \in {"peek", "commit"}
    BY RestType DEF IInv, TypeOK
  <1>2. task' = [task EXCEPT ![s] = Rest(task[s])]
    BY DEF Done, IInv, TypeOK
  <1> QED
    BY <1>1, <1>2, TaskStepAgrees

(* Nothing is flushed or committed.                                        *)
LEMMA QuietStep ==
    ASSUME IInv, UNCHANGED <<provider, status, writes>>, Assigned',
           \A r \in Sessions : TaskAgrees(r)'
    PROVE  SessionsAgree' /\ AgreesWithProvider'
  BY DEF IInv, SessionsAgree, WritesAgree, AgreesWithProvider

LEMMA EnterAgrees ==
    ASSUME IInv, NEW s \in Sessions, Enter(s)
    PROVE  SessionsAgree' /\ AgreesWithProvider'
  <1>0. Assigned'
    BY EnterType DEF IInv, SessionsAgree
  <1>1. ASSUME NEW pc \in {"verify", "peek"}, NEW kind \in
                  {"success", "cancel", "return", "cancel_page", "reconcile"},
               NEW p \in Payments \cup {None}, NEW todo \in SUBSET Payments,
               Begin(s, pc, kind, p, todo)
        PROVE  SessionsAgree' /\ AgreesWithProvider'
    <2> DEFINE t == [Idle EXCEPT !.pc = pc, !.kind = kind, !.p = p,
                                 !.todo = todo, !.told = notified,
                               !.failed = p # None /\ status[p] = "FAILED"]
    <2>1. t \in Task /\ t.pc = pc
      BY IdleType DEF Task, Idle, IInv, TypeOK
    <2>2. \A r \in Sessions : TaskAgrees(r)'
      BY <1>1, <2>1, TaskStepAgrees DEF Begin, outside
    <2> QED
      BY <1>0, <1>1, <2>2, QuietStep DEF Begin, outside, database
  <1>2. CASE ReconcilePendingPayments(s)
    BY <1>1, <1>2 DEF ReconcilePendingPayments, PendingPayments
  <1>3. ASSUME NEW p \in Payments,
               \/ HandlePaymentSuccess(s, p) \/ HandlePaymentCancel(s, p)
               \/ OpenReturnPage(s, p)
        PROVE  SessionsAgree' /\ AgreesWithProvider'
    BY <1>1, <1>3 DEF HandlePaymentSuccess, HandlePaymentCancel, OpenReturnPage
  <1>4. ASSUME NEW p \in Payments, FindPendingPayment(s, p)
        PROVE  SessionsAgree' /\ AgreesWithProvider'
    <2> DEFINE t == [Idle EXCEPT !.pc = "create", !.p = p]
    <2>1. t.pc = "create" /\ t.p = p
      BY DEF Idle
    <2>2. /\ task' = [task EXCEPT ![s] = t] /\ UNCHANGED <<provider, status, writes>>
          /\ provider[p] = "none" /\ \A r \in Sessions : task[r].p # p
      BY <1>4 DEF FindPendingPayment, database, outside
    <2>3. ASSUME NEW r \in Sessions
          PROVE  TaskAgrees(r)'
      <3>1. CASE r = s
        BY <2>1, <2>2, <3>1 DEF TaskAgrees, IInv, TypeOK
      <3>2. CASE r # s
        <4>1. TaskAgrees(r)
          BY DEF IInv, SessionsAgree
        <4> QED
          BY <2>1, <2>2, <3>2, <4>1 DEF TaskAgrees, IInv, TypeOK
      <3> QED
        BY <3>1, <3>2
    <2> QED
      BY <1>0, <2>2, <2>3, QuietStep
  <1> QED
    BY <1>2, <1>3, <1>4 DEF Enter

(* The provider's answer is what the session goes on with.                 *)
LEMMA ReadAgrees ==
    ASSUME IInv, NEW s \in Sessions,
           \/ ProviderCreates(s) \/ PeekSucceeded(s) \/ PeekCanceled(s)
           \/ PeekNothing(s) \/ VerifyOk(s) \/ VerifyRefused(s)
           \/ LookupSubscription(s) \/ TierNotFound(s) \/ ReadUsedCount(s)
           \/ SkipNotification(s)
    PROVE  SessionsAgree' /\ AgreesWithProvider'
  <1>0. /\ task[s] \in Task /\ Assigned' /\ TaskAgrees(s)
        /\ TypeOK' /\ Assigned
    BY ReadType DEF IInv, TypeOK, SessionsAgree
  <1> USE <1>0
  <1>1. CASE ProviderCreates(s)
    <2> DEFINE p == task[s].p
               t == [task[s] EXCEPT !.pc = "insert"]
    <2>1. p \in Payments /\ provider[p] = "none"
      BY <1>1 DEF ProviderCreates, Assigned, TaskAgrees
    <2>2. /\ task' = [task EXCEPT ![s] = t] /\ t.pc = "insert" /\ t.p = p
          /\ provider' = [provider EXCEPT ![p] = "pending"]
          /\ UNCHANGED <<status, writes>>
      BY <1>1 DEF ProviderCreates, GoTo, database, IInv, TypeOK, Task
    <2>3. provider'[p] = "pending" /\ \A q \in Payments \ {p} : provider'[q] = provider[q]
      BY <2>2 DEF IInv, TypeOK
    <2>4. ASSUME NEW r \in Sessions
          PROVE  TaskAgrees(r)'
      <3>1. CASE r = s
        BY <2>2, <2>3, <3>1 DEF TaskAgrees, IInv, TypeOK
      <3>2. CASE r # s
        <4>1. TaskAgrees(r) /\ task'[r] = task[r]
          BY <2>2, <3>2 DEF IInv, TypeOK, SessionsAgree
        <4>2. task[r].pc = "create" => task[r].p # p
          BY <1>1, <3>2 DEF ProviderCreates, TaskAgrees
        <4>3. \A q \in Sessions : task'[q].pc = "create" => task'[q] = task[q]
          BY <2>2 DEF IInv, TypeOK
        <4> QED
          BY <2>1, <2>3, <4>1, <4>2, <4>3 DEF TaskAgrees, Assigned
      <3> QED
        BY <3>1, <3>2
    <2>5. \A r \in Sessions : WritesAgree(r)'
      BY <2>1, <2>2, <2>3 DEF WritesAgree, IInv, SessionsAgree
    <2>6. AgreesWithProvider'
      BY <2>1, <2>2, <2>3 DEF AgreesWithProvider, IInv
    <2> QED
      BY <2>4, <2>5, <2>6 DEF SessionsAgree
  <1>2. ASSUME NEW p \in task[s].todo, NEW pc \in {"verify", "cancel"},
               Take(s, p, pc), UNCHANGED provider,
               pc = "cancel" => provider[p] = "canceled"
        PROVE  \A r \in Sessions : TaskAgrees(r)'
    <2> DEFINE t == [task[s] EXCEPT !.pc = pc, !.p = p, !.todo = @ \ {p}]
    <2>1. t \in Task /\ t.pc = pc /\ t.p = p
      BY DEF Task
    <2>2. task' = [task EXCEPT ![s] = t]
      BY <1>2 DEF Take, IInv, TypeOK
    <2> QED
      BY <1>2, <2>1, <2>2, TaskStepAgrees
  <1>3. CASE PeekSucceeded(s)
    BY <1>2, <1>3, QuietStep DEF PeekSucceeded, database, outside
  <1>4. CASE PeekCanceled(s)
    BY <1>2, <1>4, QuietStep DEF PeekCanceled, database, outside
  <1>5. CASE PeekNothing(s)
    <2>1. PICK p \in task[s].todo :
             task' = [task EXCEPT ![s] =
                        Rest([task[s] EXCEPT !.todo = task[s].todo \ {p}])]
      BY <1>5 DEF PeekNothing
    <2>2. [task[s] EXCEPT !.todo = task[s].todo \ {p}] \in Task
      BY DEF Task
    <2>3. \A r \in Sessions : TaskAgrees(r)'
      BY <1>5, <2>1, <2>2, RestType, TaskStepAgrees DEF PeekNothing, outside
    <2> QED
      BY <1>5, <2>3, QuietStep DEF PeekNothing, database, outside
  <1>6. CASE VerifyOk(s)
    <2>1. \A r \in Sessions : TaskAgrees(r)'
      BY <1>6, GoToAgrees DEF VerifyOk, Verified, outside
    <2> QED
      BY <1>6, <2>1, QuietStep DEF VerifyOk, database, outside
  <1>7. CASE VerifyRefused(s) \/ SkipNotification(s)
    BY <1>7, DoneAgrees, QuietStep
       DEF VerifyRefused, SkipNotification, database, outside
  <1>8. CASE LookupSubscription(s)
    <2>1. PICK i \in GetActiveSubscription(View(s), UserOf[task[s].p]) :
             task' = [task EXCEPT ![s].pc = "activate", ![s].active = i,
                        ![s].base = IF i = None THEN NoBag ELSE View(s)[i].paid]
      BY <1>8 DEF LookupSubscription
    <2> DEFINE base == IF i = None THEN NoBag ELSE View(s)[i].paid
               t == [task[s] EXCEPT !.pc = "activate", !.active = i, !.base = base]
    <2>2. task' = [task EXCEPT ![s] = t]
      BY <2>1 DEF IInv, TypeOK
    <2>3. t.pc = "activate" /\ t.p = task[s].p
      BY DEF Task
    <2>4. t \in Task
      BY <2>2 DEF TypeOK, IInv
    <2>5. provider[t.p] = "succeeded"
      BY <1>8, <2>3 DEF LookupSubscription, TaskAgrees
    <2> HIDE DEF t
    <2>6. \A r \in Sessions : TaskAgrees(r)'
      BY <1>8, <2>2, <2>3, <2>4, <2>5, TaskStepAgrees
         DEF LookupSubscription, outside
    <2> QED
      BY <1>8, <2>6, QuietStep DEF LookupSubscription, database, outside
  <1>9. CASE TierNotFound(s)
    <2>1. \A r \in Sessions : TaskAgrees(r)'
      BY <1>9, GoToAgrees DEF TierNotFound, TaskAgrees, outside
    <2> QED
      BY <1>9, <2>1, QuietStep DEF TierNotFound, database, outside
  <1>10. CASE ReadUsedCount(s)
    <2> DEFINE t == [task[s] EXCEPT !.pc = "count",
                                    !.count = Or(writes[s].count, usedCount)]
    <2>1. task' = [task EXCEPT ![s] = t]
      BY <1>10 DEF ReadUsedCount, IInv, TypeOK
    <2>2. t \in Task
      BY <2>1 DEF TypeOK, IInv
    <2>3. t.pc = "count" /\ t.p = task[s].p
      BY DEF Task
    <2>4. \A r \in Sessions : TaskAgrees(r)'
      BY <1>10, <2>1, <2>2, <2>3, TaskStepAgrees
         DEF ReadUsedCount, TaskAgrees, outside
    <2> QED
      BY <1>10, <2>4, QuietStep DEF ReadUsedCount, database, outside
  <1> QED
    BY <1>1, <1>3, <1>4, <1>5, <1>6, <1>7, <1>8, <1>9, <1>10

(* A status is flushed only after the provider's answer that backs it.     *)
LEMMA WriteStepAgrees ==
    ASSUME IInv, NEW s \in Sessions, NEW w \in Writes,
           writes' = [writes EXCEPT ![s] = w], UNCHANGED <<provider, status>>,
           Assigned', \A r \in Sessions : TaskAgrees(r)',
           \A p \in Payments :
              \/ w.status[p] = writes[s].status[p]
              \/ w.status[p] \in {"SUCCEEDED", "FAILED"} /\ provider[p] = "succeeded"
              \/ w.status[p] = "CANCELLED" /\ provider[p] = "canceled"
              \/ w.status[p] = "PENDING" /\ provider[p] # "none"
    PROVE  SessionsAgree' /\ AgreesWithProvider'
  <1>1. ASSUME NEW r \in Sessions
        PROVE  WritesAgree(r)'
    <2>1. WritesAgree(r) /\ WritesAgree(s)
      BY DEF IInv, SessionsAgree
    <2>2. CASE r = s
      BY <2>1, <2>2 DEF WritesAgree, IInv, TypeOK
    <2>3. CASE r # s
      BY <2>1, <2>3 DEF WritesAgree, IInv, TypeOK
    <2> QED
      BY <2>2, <2>3
  <1>2. AgreesWithProvider'
    BY DEF IInv, AgreesWithProvider
  <1> QED
    BY <1>1, <1>2 DEF SessionsAgree

LEMMA FlushAgrees ==
    ASSUME IInv, NEW s \in Sessions,
           \/ InsertPayment(s) \/ MarkActivationFailed(s) \/ MarkCancelled(s)
           \/ ConfirmUsage(s) \/ SendSuccessNotification(s)
    PROVE  SessionsAgree' /\ AgreesWithProvider'
  <1>0. /\ writes[s] \in Writes /\ task[s] \in Task /\ writes'[s] \in Writes
        /\ Assigned /\ Assigned' /\ TaskAgrees(s)
    BY FlushType DEF IInv, TypeOK, SessionsAgree
  <1> USE <1>0
  <1> DEFINE p == task[s].p
             w == writes[s]
             v == writes'[s]
  <1>1. UNCHANGED <<provider, status>>
    BY DEF InsertPayment, MarkActivationFailed, MarkCancelled, ConfirmUsage,
           SendSuccessNotification, database, outside
  <1>2. writes' = [writes EXCEPT ![s] = v]
    BY DEF InsertPayment, MarkActivationFailed, MarkCancelled, ConfirmUsage,
           SendSuccessNotification, IInv, TypeOK
  <1>3. \A r \in Sessions : TaskAgrees(r)'
    <2>1. CASE ConfirmUsage(s)
      BY <1>1, <2>1, GoToAgrees DEF ConfirmUsage, TaskAgrees
    <2>2. CASE ~ConfirmUsage(s)
      BY <1>1, <2>2, DoneAgrees DEF InsertPayment, MarkActivationFailed,
         MarkCancelled, SendSuccessNotification
    <2> QED
      BY <2>1, <2>2
  <1>4. ASSUME NEW q \in Payments
        PROVE  \/ v.status[q] = w.status[q]
               \/ v.status[q] = "FAILED" /\ provider[q] = "succeeded"
               \/ v.status[q] = "CANCELLED" /\ provider[q] = "canceled"
               \/ v.status[q] = "PENDING" /\ provider[q] # "none"
    <2>1. CASE InsertPayment(s)
      BY <2>1 DEF InsertPayment, TaskAgrees, Writes, IInv, TypeOK
    <2>2. CASE MarkActivationFailed(s)
      BY <2>2 DEF MarkActivationFailed, TaskAgrees, Writes, IInv, TypeOK
    <2>3. CASE MarkCancelled(s)
      BY <2>3 DEF MarkCancelled, TaskAgrees, Writes, IInv, TypeOK
    <2>4. CASE ConfirmUsage(s) \/ SendSuccessNotification(s)
      BY <2>4 DEF ConfirmUsage, SendSuccessNotification, Writes, IInv, TypeOK
    <2> QED
      BY <2>1, <2>2, <2>3, <2>4
  <1> HIDE DEF v
  <1> QED
    BY <1>1, <1>2, <1>3, <1>4, WriteStepAgrees DEF v

LEMMA ActivateAgrees ==
    ASSUME IInv, NEW s \in Sessions,
           RenewSubscription(s) \/ CreateSubscription(s)
    PROVE  SessionsAgree' /\ AgreesWithProvider'
  <1>0. /\ writes[s] \in Writes /\ writes'[s] \in Writes
        /\ Assigned' /\ TaskAgrees(s)
    BY ActivateType DEF IInv, TypeOK, SessionsAgree
  <1> USE <1>0
  <1> DEFINE p == task[s].p
             w == writes[s]
             v == writes'[s]
  <1>1. UNCHANGED <<provider, status>> /\ provider[p] = "succeeded"
    BY DEF RenewSubscription, CreateSubscription, TaskAgrees, database, outside
  <1>2. writes' = [writes EXCEPT ![s] = v]
    BY DEF RenewSubscription, CreateSubscription, IInv, TypeOK
  <1>3. \A r \in Sessions : TaskAgrees(r)'
    BY <1>1, GoToAgrees DEF RenewSubscription, CreateSubscription, Activated
  <1>4. ASSUME NEW q \in Payments
        PROVE  \/ v.status[q] = w.status[q]
               \/ v.status[q] = "SUCCEEDED" /\ provider[q] = "succeeded"
    <2>1. v.status = [w.status EXCEPT ![p] = "SUCCEEDED"]
      <3>1. ASSUME NEW j
            PROVE  MarkPaid(w, p, j).status = [w.status EXCEPT ![p] = "SUCCEEDED"]
        BY DEF MarkPaid, Writes
      <3>2. CASE RenewSubscription(s)
        <4>1. v = [MarkPaid(w, p, task[s].active) EXCEPT !.paid[task[s].active] =
                     [task[s].base EXCEPT ![p] = task[s].base[p] + 1]]
          BY <3>2 DEF RenewSubscription, IInv, TypeOK
        <4> QED
          BY <3>1, <4>1 DEF MarkPaid, Writes
      <3>3. CASE CreateSubscription(s)
        <4> DEFINE row == [user |-> UserOf[p], tier |-> TierOf[p],
                           status |-> "ACTIVE", live |-> TRUE,
                           paid |-> [NoBag EXCEPT ![p] = 1]]
                   gone == w.replaced \cup ({task[s].active} \ {None})
        <4>1. PICK new \in NextId :
                 writes' = [writes EXCEPT ![s] =
                    [MarkPaid(w, p, new) EXCEPT !.insert[new] = row,
                                                !.replaced = gone]]
          BY <3>3 DEF CreateSubscription
        <4> HIDE DEF row, gone
        <4>2. v = [MarkPaid(w, p, new) EXCEPT !.insert[new] = row, !.replaced = gone]
          BY <4>1 DEF IInv, TypeOK
        <4> QED
          BY <3>1, <4>2 DEF MarkPaid, Writes
      <3> QED
        BY <3>2, <3>3
    <2> QED
      BY <1>1, <2>1 DEF Writes
  <1> HIDE DEF v
  <1> QED
    BY <1>1, <1>2, <1>3, <1>4, WriteStepAgrees DEF v

LEMMA CloseAgrees ==
    ASSUME IInv, NEW s \in Sessions, Commit(s) \/ Rollback(s)
    PROVE  SessionsAgree' /\ AgreesWithProvider'
  <1>0. Assigned'
    BY CloseType DEF IInv, SessionsAgree
  <1>1. Close(s) /\ UNCHANGED provider
    BY DEF Commit, Rollback, Close, outside
  <1>2. \A r \in Sessions : TaskAgrees(r)'
    <2>1. Idle.pc = "idle"
      BY DEF Idle
    <2> QED
      BY <1>1, <2>1, IdleType, TaskStepAgrees DEF Close
  <1>3. ASSUME NEW r \in Sessions
        PROVE  WritesAgree(r)'
    <2>1. WritesAgree(r)
      BY DEF IInv, SessionsAgree
    <2>2. CASE r = s
      BY <1>1, <2>2, NoneAssumption
         DEF Close, WritesAgree, NoWrites, IInv, TypeOK, PaymentStatus
    <2>3. CASE r # s
      BY <1>1, <2>1, <2>3 DEF Close, WritesAgree, IInv, TypeOK
    <2> QED
      BY <2>2, <2>3
  <1>4. AgreesWithProvider'
    <2>1. CASE Rollback(s)
      BY <1>1, <2>1 DEF Rollback, database, IInv, AgreesWithProvider
    <2>2. CASE Commit(s)
      <3>1. WritesAgree(s)
        BY DEF IInv, SessionsAgree
      <3> QED
        BY <1>1, <2>2, <3>1
           DEF Commit, Or, WritesAgree, IInv, AgreesWithProvider
    <2> QED
      BY <2>1, <2>2
  <1> QED
    BY <1>0, <1>2, <1>3, <1>4 DEF SessionsAgree

LEMMA AgreeNext == IInv /\ [Next]_vars => IInv'
  <1> SUFFICES ASSUME IInv, [Next]_vars PROVE SessionsAgree' /\ AgreesWithProvider'
    BY TypeNext DEF IInv, SessionsAgree
  <1>1. CASE Environment
    BY <1>1, EnvironmentAgrees
  <1>2. ASSUME NEW s \in Sessions, Enter(s)
        PROVE  SessionsAgree' /\ AgreesWithProvider'
    BY <1>2, EnterAgrees
  <1>3. ASSUME NEW s \in Sessions, Work(s)
        PROVE  SessionsAgree' /\ AgreesWithProvider'
    BY <1>3, ReadAgrees, FlushAgrees, ActivateAgrees, CloseAgrees DEF Work
  <1>4. CASE UNCHANGED vars
    BY <1>4 DEF vars, IInv, SessionsAgree, Assigned, TaskAgrees, WritesAgree,
                AgreesWithProvider
  <1> QED
    BY <1>1, <1>2, <1>3, <1>4 DEF Next

(* However webhooks, pages and jobs interleave, no payment is booked as    *)
(* paid, failed or cancelled against the provider's word.                  *)
THEOREM BooksAgree == Spec => [](SessionsAgree /\ AgreesWithProvider)
  <1>1. Init => IInv
    BY TypeInit, AgreeInit DEF IInv
  <1>2. IInv => SessionsAgree /\ AgreesWithProvider
    BY DEF IInv
  <1> QED
    BY <1>1, <1>2, AgreeNext, PTL DEF Spec

(* A session's own step leaves the tasks and writes of the others alone.   *)
LEMMA OthersKeep ==
    ASSUME TypeOK, NEW s \in Sessions, Enter(s) \/ Work(s),
           NEW r \in Sessions, r # s
    PROVE  task'[r] = task[r] /\ writes'[r] = writes[r]
  <1>1. CASE Enter(s)
    BY <1>1 DEF Enter, ReconcilePendingPayments, FindPendingPayment, OpenReturnPage,
       HandlePaymentSuccess, HandlePaymentCancel, Begin, TypeOK
  <1>2. CASE ProviderCreates(s) \/ VerifyOk(s) \/ TierNotFound(s)
    BY <1>2 DEF ProviderCreates, VerifyOk, TierNotFound, GoTo, TypeOK
  <1>3. CASE PeekSucceeded(s) \/ PeekCanceled(s)
    BY <1>3 DEF PeekSucceeded, PeekCanceled, Take, TypeOK
  <1>4. CASE PeekNothing(s) \/ LookupSubscription(s) \/ ReadUsedCount(s)
    BY <1>4 DEF PeekNothing, LookupSubscription, ReadUsedCount, TypeOK
  <1>5. CASE InsertPayment(s) \/ MarkActivationFailed(s) \/ MarkCancelled(s)
             \/ VerifyRefused(s) \/ SendSuccessNotification(s) \/ SkipNotification(s)
    BY <1>5 DEF InsertPayment, MarkActivationFailed, MarkCancelled, VerifyRefused,
       SendSuccessNotification, SkipNotification, Done, TypeOK
  <1>6. CASE ConfirmUsage(s) \/ RenewSubscription(s)
    BY <1>6 DEF ConfirmUsage, RenewSubscription, Activated, GoTo, TypeOK
  <1>7. CASE CreateSubscription(s)
    BY <1>7 DEF CreateSubscription, Activated, GoTo, TypeOK
  <1>8. CASE Commit(s) \/ Rollback(s)
    BY <1>8 DEF Commit, Rollback, Close, TypeOK
  <1> QED
    BY <1>1, <1>2, <1>3, <1>4, <1>5, <1>6, <1>7, <1>8 DEF Work

(* The provider's verdict is final.                                        *)
LEMMA VerdictIsFinal ==
    ASSUME IInv, [Next]_vars, NEW p \in Payments
    PROVE  /\ provider[p] = "succeeded" => provider'[p] = "succeeded"
           /\ provider[p] # "none" => provider'[p] # "none"
  <1> USE DEF IInv, TypeOK
  <1>1. CASE UNCHANGED provider
    BY <1>1
  <1>2. ASSUME NEW q \in Payments, Pay(q) \/ ProviderCancels(q)
        PROVE  /\ provider[p] = "succeeded" => provider'[p] = "succeeded"
               /\ provider[p] # "none" => provider'[p] # "none"
    BY <1>2 DEF Pay, ProviderCancels
  <1>3. CASE Environment /\ ~\E q \in Payments : Pay(q) \/ ProviderCancels(q)
    BY <1>1, <1>3 DEF Environment, RenameTier, RestoreTier, Lapse,
                      CancelSubscription, outside
  <1>4. ASSUME NEW s \in Sessions, ProviderCreates(s)
        PROVE  /\ provider[p] = "succeeded" => provider'[p] = "succeeded"
               /\ provider[p] # "none" => provider'[p] # "none"
    BY <1>4 DEF ProviderCreates, SessionsAgree, TaskAgrees
  <1>5. ASSUME NEW s \in Sessions, Enter(s)
        PROVE  UNCHANGED provider
    BY <1>5 DEF Enter, ReconcilePendingPayments, FindPendingPayment, OpenReturnPage,
       HandlePaymentSuccess, HandlePaymentCancel, Begin, outside
  <1>6. ASSUME NEW s \in Sessions, Work(s), ~ProviderCreates(s)
        PROVE  UNCHANGED provider
    BY <1>6 DEF Work, InsertPayment, PeekSucceeded, PeekCanceled, PeekNothing,
       VerifyOk, VerifyRefused, LookupSubscription, TierNotFound,
       MarkActivationFailed, RenewSubscription, CreateSubscription, ReadUsedCount,
       ConfirmUsage, SendSuccessNotification, SkipNotification, MarkCancelled,
       Commit, Rollback, Close, outside
  <1>7. CASE UNCHANGED vars
    BY <1>1, <1>7 DEF vars
  <1> QED
    BY <1>1, <1>2, <1>3, <1>4, <1>5, <1>6, <1>7 DEF Next

(* A message is sent only by SendSuccessNotification.                      *)
LEMMA MessageSteps ==
    ASSUME TypeOK, [Next]_vars
    PROVE  \/ UNCHANGED messages
           \/ \E s \in Sessions : SendSuccessNotification(s)
  BY DEF Next, vars, Environment, Pay, ProviderCancels, RenameTier, RestoreTier,
     Lapse, CancelSubscription, Enter, ReconcilePendingPayments,
     FindPendingPayment, OpenReturnPage, HandlePaymentSuccess, HandlePaymentCancel,
     Begin, Work, ProviderCreates, InsertPayment, PeekSucceeded, PeekCanceled, PeekNothing,
     VerifyOk, VerifyRefused, LookupSubscription, TierNotFound,
     MarkActivationFailed, RenewSubscription, CreateSubscription, ReadUsedCount,
     ConfirmUsage, SkipNotification, MarkCancelled, Commit, Rollback, Close, outside

(* Nobody is told that a payment succeeded which the provider did not      *)
(* collect: whoever sends the message has the provider's own answer.       *)
THEOREM NoFalseMessage == Spec => []MessagesAreTrue
  <1>1. Init => IInv /\ MessagesAreTrue
    BY TypeInit, AgreeInit DEF IInv, Init, MessagesAreTrue
  <1>2. IInv /\ MessagesAreTrue /\ [Next]_vars => IInv' /\ MessagesAreTrue'
    <2> SUFFICES ASSUME IInv, MessagesAreTrue, [Next]_vars
                 PROVE  MessagesAreTrue'
      BY AgreeNext
    <2>1. CASE UNCHANGED messages
      BY <2>1, VerdictIsFinal DEF MessagesAreTrue
    <2>2. ASSUME NEW s \in Sessions, SendSuccessNotification(s)
          PROVE  MessagesAreTrue'
      <3>1. provider[task[s].p] = "succeeded"
        BY <2>2 DEF SendSuccessNotification, IInv, SessionsAgree, TaskAgrees
      <3>2. \A p \in Payments : p # task[s].p => messages'[p] = messages[p]
        BY <2>2 DEF SendSuccessNotification, IInv, TypeOK
      <3> QED
        BY <3>1, <3>2, VerdictIsFinal DEF MessagesAreTrue
    <2> QED
      BY <2>1, <2>2, MessageSteps DEF IInv
  <1> QED
    BY <1>1, <1>2, PTL DEF Spec

(***************************************************************************)
(* Why no day is free, whatever the sessions do to each other: a row's     *)
(* user and tier never change once it exists, so a bag of payments that    *)
(* fits the row when it is read still fits when it is written back.        *)
(***************************************************************************)
Collected == {p \in Payments : provider[p] = "succeeded"}
PaidFor(money, bag, user, tier) ==
    \A p \in Payments : bag[p] > 0 =>
        p \in money /\ user = UserOf[p] /\ tier = TierOf[p]
RowPaid(money, row) == row # None => PaidFor(money, row.paid, row.user, row.tier)

(* The row session s would write to: its own insertion, or the committed.  *)
Row(s, i) == Or(writes[s].insert[i], subs[i])

(* Ids come from a sequence: no two sessions insert the same row.          *)
InsertsApart ==
    \A s \in Sessions, i \in SubIds : writes[s].insert[i] # None =>
        subs[i] = None /\ \A r \in Sessions \ {s} : writes[r].insert[i] = None
WritesPaid(s) ==
    \A i \in SubIds :
        /\ RowPaid(Collected, writes[s].insert[i])
        /\ writes[s].paid[i] # None =>
              /\ Row(s, i) # None
              /\ PaidFor(Collected, writes[s].paid[i], Row(s, i).user, Row(s, i).tier)
BasePaid(s) ==
    LET t == task[s]
        row == Row(s, t.active)
    IN  t.pc = "activate" /\ t.active # None =>
            /\ row # None /\ row.user = UserOf[t.p]
            /\ PaidFor(Collected, t.base, row.user, row.tier)
PeriodsInv ==
    /\ \A i \in SubIds : RowPaid(Collected, subs[i])
    /\ InsertsApart
    /\ \A s \in Sessions : WritesPaid(s) /\ BasePaid(s)

(* A row that exists keeps its user and its tier.                          *)
SameOwner(old, new) ==
    old # None => new # None /\ new.user = old.user /\ new.tier = old.tier
SamePaid(old, new) ==
    new # None => old # None /\ new.paid = old.paid /\ new.user = old.user /\ new.tier = old.tier

LEMMA PaidForGrows ==
    ASSUME IInv, [Next]_vars, NEW bag, NEW user, NEW tier,
           PaidFor(Collected, bag, user, tier)
    PROVE  PaidFor(Collected', bag, user, tier)
  BY VerdictIsFinal DEF PaidFor, Collected

LEMMA RowType ==
    ASSUME TypeOK, NEW s \in Sessions, NEW i \in SubIds
    PROVE  /\ Row(s, i) \in UserSubscription \cup {None}
           /\ subs[i] \in UserSubscription \cup {None}
           /\ writes[s].insert[i] \in UserSubscription \cup {None}
           /\ writes[s].paid[i] \in Bag \cup {None}
  BY DEF TypeOK, Row, Or, Writes

LEMMA ActiveType ==
    ASSUME TypeOK, NEW s \in Sessions
    PROVE  task[s].active \in SubIds \cup {None} /\ task[s].base \in Bag
  BY DEF TypeOK, Task

(* Session r keeps what it flushed and where it stands, the table keeps    *)
(* its rows.                                                               *)
LEMMA SessionKeepsPeriods ==
    ASSUME IInv, PeriodsInv, [Next]_vars, NEW r \in Sessions,
           writes'[r].insert = writes[r].insert, writes'[r].paid = writes[r].paid,
           \A i \in SubIds : SameOwner(Row(r, i), Row(r, i)')
    PROVE  /\ WritesPaid(r)'
           /\ task'[r] = task[r] => BasePaid(r)'
  <1>0. TypeOK /\ WritesPaid(r) /\ BasePaid(r)
    BY DEF IInv, PeriodsInv
  <1>2. ASSUME NEW i \in SubIds
        PROVE  RowPaid(Collected, writes[r].insert[i])'
    <2>1. RowPaid(Collected, writes[r].insert[i])
      BY <1>0 DEF WritesPaid
    <2> QED
      BY <2>1, PaidForGrows DEF RowPaid
  <1>3. ASSUME NEW i \in SubIds, writes[r].paid[i] # None
        PROVE  /\ Row(r, i)' # None
               /\ PaidFor(Collected, writes[r].paid[i], Row(r, i).user, Row(r, i).tier)'
    <2>1. /\ Row(r, i) # None
          /\ PaidFor(Collected, writes[r].paid[i], Row(r, i).user, Row(r, i).tier)
      BY <1>0, <1>3 DEF WritesPaid
    <2>2. /\ Row(r, i)' # None /\ Row(r, i)'.user = Row(r, i).user
          /\ Row(r, i)'.tier = Row(r, i).tier
          /\ writes'[r].paid[i] = writes[r].paid[i]
      BY <2>1 DEF SameOwner
    <2> QED
      BY <2>1, <2>2, PaidForGrows
  <1>4. WritesPaid(r)'
    BY <1>2, <1>3 DEF WritesPaid
  <1>5. ASSUME task'[r] = task[r], task[r].pc = "activate", task[r].active # None
        PROVE  BasePaid(r)'
    <2>1. PICK i \in SubIds : task[r].active = i
      BY <1>0, <1>5, ActiveType
    <2>2. /\ Row(r, i) # None /\ Row(r, i).user = UserOf[task[r].p]
          /\ PaidFor(Collected, task[r].base, Row(r, i).user, Row(r, i).tier)
      BY <1>0, <1>5, <2>1 DEF BasePaid
    <2>3. /\ Row(r, i)' # None /\ Row(r, i)'.user = Row(r, i).user
          /\ Row(r, i)'.tier = Row(r, i).tier
      BY <2>2 DEF SameOwner
    <2>4. PaidFor(Collected', task[r].base, Row(r, i).user, Row(r, i).tier)
      BY <2>2, PaidForGrows
    <2> QED
      BY <1>5, <2>1, <2>2, <2>3, <2>4 DEF BasePaid, Row
  <1> QED
    BY <1>4, <1>5 DEF BasePaid

(* The rows of the table keep what was paid for.                           *)
LEMMA TableKeepsPeriods ==
    ASSUME IInv, PeriodsInv, [Next]_vars, NEW i \in SubIds,
           SamePaid(subs[i], subs'[i])
    PROVE  RowPaid(Collected, subs[i])'
  <1>1. CASE subs'[i] = None
    BY <1>1 DEF RowPaid
  <1>2. CASE subs'[i] # None
    <2>1. PaidFor(Collected, subs[i].paid, subs[i].user, subs[i].tier)
      BY <1>2 DEF SamePaid, PeriodsInv, RowPaid
    <2>2. /\ subs'[i].paid = subs[i].paid /\ subs'[i].user = subs[i].user
          /\ subs'[i].tier = subs[i].tier
      BY <1>2 DEF SamePaid
    <2> QED
      BY <2>1, <2>2, PaidForGrows DEF RowPaid
  <1> QED
    BY <1>1, <1>2

(* A step of session s that touches no row of user_subscriptions.          *)
LEMMA QuietPeriods ==
    ASSUME IInv, PeriodsInv, [Next]_vars, NEW s \in Sessions,
           \A r \in Sessions \ {s} : task'[r] = task[r] /\ writes'[r] = writes[r],
           subs' = subs, writes'[s].insert = writes[s].insert,
           writes'[s].paid = writes[s].paid,
           task'[s].pc = "activate" => BasePaid(s)'
    PROVE  PeriodsInv'
  <1>0. BasePaid(s)'
    BY DEF BasePaid
  <1>1. \A r \in Sessions : writes'[r].insert = writes[r].insert
                            /\ writes'[r].paid = writes[r].paid
    OBVIOUS
  <1>2. \A i \in SubIds : SamePaid(subs[i], subs'[i])
    BY DEF SamePaid
  <1>3. \A i \in SubIds : RowPaid(Collected, subs[i])'
    BY <1>2, TableKeepsPeriods
  <1>4. InsertsApart'
    BY <1>1 DEF PeriodsInv, InsertsApart
  <1>5. ASSUME NEW r \in Sessions
        PROVE  WritesPaid(r)' /\ BasePaid(r)'
    <2>1. \A i \in SubIds : SameOwner(Row(r, i), Row(r, i)')
      BY <1>1 DEF SameOwner, Row
    <2>2. WritesPaid(r)'
      BY <1>1, <2>1, SessionKeepsPeriods
    <2>3. CASE r # s
      BY <1>1, <2>1, <2>2, <2>3, SessionKeepsPeriods
    <2>4. CASE r = s
      BY <1>0, <2>2, <2>4
    <2> QED
      BY <2>2, <2>3, <2>4
  <1> QED
    BY <1>3, <1>4, <1>5 DEF PeriodsInv

LEMMA RestNotActivating == \A t : Rest(t).pc # "activate" 
  BY DEF Rest, Idle

(* Steps of the session that leave the table and its own rows alone.       *)
LEMMA QuietSteps ==
    ASSUME IInv, NEW s \in Sessions,
           \/ Enter(s)
           \/ ProviderCreates(s) \/ InsertPayment(s)
           \/ PeekSucceeded(s) \/ PeekCanceled(s) \/ PeekNothing(s)
           \/ VerifyOk(s) \/ VerifyRefused(s)
           \/ TierNotFound(s) \/ MarkActivationFailed(s)
           \/ ReadUsedCount(s) \/ ConfirmUsage(s)
           \/ SendSuccessNotification(s) \/ SkipNotification(s)
           \/ MarkCancelled(s)
    PROVE  /\ subs' = subs /\ task'[s].pc # "activate"
           /\ writes'[s].insert = writes[s].insert
           /\ writes'[s].paid = writes[s].paid
  <1>0. task[s] \in Task /\ writes[s] \in Writes /\ task \in [Sessions -> Task]
        /\ writes \in [Sessions -> Writes]
    BY DEF IInv, TypeOK
  <1>1. CASE Enter(s)
    <2>1. ASSUME NEW p \in Payments, FindPendingPayment(s, p)
          PROVE  subs' = subs /\ writes' = writes /\ task'[s].pc = "create"
      BY <1>0, <2>1 DEF FindPendingPayment, database, Idle
    <2>2. ASSUME NEW p, NEW pc \in {"peek", "verify"}, NEW kind, NEW todo,
                 Begin(s, pc, kind, p, todo)
          PROVE  subs' = subs /\ writes' = writes /\ task'[s].pc = pc
      BY <1>0, <2>2 DEF Begin, database, Idle
    <2> QED
      BY <1>1, <2>1, <2>2 DEF Enter, ReconcilePendingPayments, OpenReturnPage,
         HandlePaymentSuccess, HandlePaymentCancel
  <1>2. CASE ProviderCreates(s) \/ VerifyOk(s) \/ TierNotFound(s)
    BY <1>0, <1>2 DEF ProviderCreates, VerifyOk, TierNotFound, GoTo, database, Task
  <1>3. CASE PeekSucceeded(s) \/ PeekCanceled(s)
    <2>1. ASSUME NEW p, NEW pc \in {"verify", "cancel"}, Take(s, p, pc)
          PROVE  task'[s].pc = pc
      BY <1>0, <2>1 DEF Take, Task
    <2> QED
      BY <1>3, <2>1 DEF PeekSucceeded, PeekCanceled, database
  <1>4. CASE PeekNothing(s)
    <2>1. PICK p \in task[s].todo :
             task' = [task EXCEPT ![s] =
                        Rest([task[s] EXCEPT !.todo = task[s].todo \ {p}])]
      BY <1>4 DEF PeekNothing
    <2>2. task'[s] = Rest([task[s] EXCEPT !.todo = task[s].todo \ {p}])
      BY <1>0, <2>1
    <2> QED
      BY <1>4, <2>2, RestNotActivating DEF PeekNothing, database
  <1>9. CASE ReadUsedCount(s)
    BY <1>0, <1>9 DEF ReadUsedCount, database, Task
  <1>5. CASE VerifyRefused(s) \/ SkipNotification(s)
    BY <1>0, <1>5, RestNotActivating
       DEF VerifyRefused, SkipNotification, Done, database
  <1>6. CASE InsertPayment(s) \/ MarkActivationFailed(s) \/ MarkCancelled(s)
    BY <1>0, <1>6, RestNotActivating
       DEF InsertPayment, MarkActivationFailed, MarkCancelled, Done, database, Writes
  <1>7. CASE SendSuccessNotification(s)
    BY <1>0, <1>7, RestNotActivating
       DEF SendSuccessNotification, Done, database, Writes
  <1>8. CASE ConfirmUsage(s)
    BY <1>0, <1>8 DEF ConfirmUsage, GoTo, database, Writes, Task
  <1> QED
    BY <1>1, <1>2, <1>3, <1>4, <1>5, <1>6, <1>7, <1>8, <1>9

(* The clock, the user and the admin change no row's payments.             *)
LEMMA EnvironmentRows ==
    ASSUME TypeOK, Environment, NEW i \in SubIds
    PROVE  SamePaid(subs[i], subs'[i]) /\ SameOwner(subs[i], subs'[i])
  <1>1. CASE subs' = subs
    BY <1>1 DEF SamePaid, SameOwner
  <1>2. ASSUME NEW j \in SubIds, Lapse(j)
        PROVE  SamePaid(subs[i], subs'[i]) /\ SameOwner(subs[i], subs'[i])
    BY <1>2, NoneAssumption DEF Lapse, SamePaid, SameOwner, TypeOK, UserSubscription
  <1>3. ASSUME NEW u \in Users, CancelSubscription(u)
        PROVE  SamePaid(subs[i], subs'[i]) /\ SameOwner(subs[i], subs'[i])
    <2>1. PICK j \in GetActiveSubscription(subs, u) \ {None} :
             subs' = [subs EXCEPT ![j].status = "CANCELLED"]
      BY <1>3 DEF CancelSubscription
    <2>2. j \in SubIds /\ subs[j] # None
      BY DEF GetActiveSubscription, ActiveRows
    <2> QED
      BY <2>1, <2>2, NoneAssumption DEF SamePaid, SameOwner, TypeOK, UserSubscription
  <1> QED
    BY <1>1, <1>2, <1>3 DEF Environment, Pay, ProviderCancels, RenameTier,
       RestoreTier, database

LEMMA EnvironmentPeriods ==
    ASSUME IInv, PeriodsInv, Environment
    PROVE  PeriodsInv'
  <1>0. [Next]_vars /\ UNCHANGED <<task, writes>>
    BY EnvironmentType DEF Next, IInv
  <1>1. \A i \in SubIds : SamePaid(subs[i], subs'[i]) /\ SameOwner(subs[i], subs'[i])
    BY EnvironmentRows DEF IInv
  <1>2. \A i \in SubIds : RowPaid(Collected, subs[i])'
    BY <1>0, <1>1, TableKeepsPeriods
  <1>3. InsertsApart'
    BY <1>0, <1>1 DEF PeriodsInv, InsertsApart, SamePaid
  <1>4. ASSUME NEW r \in Sessions
        PROVE  WritesPaid(r)' /\ BasePaid(r)'
    <2>1. \A i \in SubIds : SameOwner(Row(r, i), Row(r, i)')
      BY <1>0, <1>1 DEF SameOwner, Row, Or
    <2> QED
      BY <1>0, <2>1, SessionKeepsPeriods DEF BasePaid
  <1> QED
    BY <1>2, <1>3, <1>4 DEF PeriodsInv

(* A session sees the row it would write to under what it has flushed.     *)
LEMMA ViewRow ==
    ASSUME TypeOK, NEW s \in Sessions, NEW i \in SubIds
    PROVE  /\ View(s)[i] # None <=> Row(s, i) # None
           /\ Row(s, i) # None =>
                 /\ View(s)[i].user = Row(s, i).user
                 /\ View(s)[i].tier = Row(s, i).tier
                 /\ View(s)[i].paid = Or(writes[s].paid[i], Row(s, i).paid)
  <1> DEFINE w == writes[s]
             row == Row(s, i)
             seen == [row EXCEPT !.paid = Or(w.paid[i], @),
                                 !.live = @ \/ w.paid[i] # None,
                                 !.status = IF i \in w.replaced THEN "REPLACED" ELSE @]
  <1>1. View(s)[i] = IF row = None THEN None ELSE seen
    BY DEF View, Row
  <1>2. View(s)[i] \in UserSubscription \cup {None} /\ row \in UserSubscription \cup {None}
    BY ViewType, RowType
  <1>3. CASE row # None
    <2>1. /\ seen.user = row.user /\ seen.tier = row.tier
          /\ seen.paid = Or(w.paid[i], row.paid)
      <3>1. row \in UserSubscription
        BY <1>2, <1>3
      <3> HIDE DEF row
      <3> QED
        BY <3>1 DEF UserSubscription
    <2>2. seen \in UserSubscription
      <3>1. Or(w.paid[i], row.paid) \in Bag
        BY <1>2, <1>3, RowType DEF Or, UserSubscription
      <3>2. row \in UserSubscription
        BY <1>2, <1>3
      <3> HIDE DEF row
      <3> QED
        BY <3>1, <3>2 DEF UserSubscription
    <2> HIDE DEF row, seen
    <2> QED
      BY <1>1, <1>3, <2>1, <2>2, NoneAssumption DEF row
  <1>4. CASE row = None
    BY <1>1, <1>4
  <1> QED
    BY <1>3, <1>4

(* What the session sees was paid for.                                     *)
LEMMA ViewPaid ==
    ASSUME IInv, PeriodsInv, NEW s \in Sessions, NEW i \in SubIds, Row(s, i) # None
    PROVE  /\ Row(s, i) \in UserSubscription /\ View(s)[i].paid \in Bag
           /\ PaidFor(Collected, View(s)[i].paid, Row(s, i).user, Row(s, i).tier)
  <1>1. TypeOK /\ WritesPaid(s) /\ RowPaid(Collected, subs[i])
    BY DEF IInv, PeriodsInv
  <1>2. Row(s, i) \in UserSubscription
    BY <1>1, RowType
  <1>3. PaidFor(Collected, Row(s, i).paid, Row(s, i).user, Row(s, i).tier)
    BY <1>1 DEF WritesPaid, RowPaid, Row, Or
  <1>4. View(s)[i].paid = Or(writes[s].paid[i], Row(s, i).paid)
    BY <1>1, ViewRow
  <1>5. CASE writes[s].paid[i] = None
    BY <1>2, <1>3, <1>4, <1>5 DEF Or, UserSubscription
  <1>6. CASE writes[s].paid[i] # None
    BY <1>1, <1>2, <1>4, <1>6, RowType DEF Or, WritesPaid
  <1> QED
    BY <1>5, <1>6, <1>2

LEMMA LookupPeriods ==
    ASSUME IInv, PeriodsInv, NEW s \in Sessions, LookupSubscription(s)
    PROVE  PeriodsInv'
  <1>0. [Next]_vars /\ TypeOK /\ TypeOK' /\ task \in [Sessions -> Task]
    BY ReadType DEF Next, Work, IInv, SessionsAgree, TypeOK
  <1>1. UNCHANGED <<provider, subs, writes>>
    BY DEF LookupSubscription, database, outside
  <1>2. \A r \in Sessions \ {s} : task'[r] = task[r] /\ writes'[r] = writes[r]
    BY <1>0, OthersKeep DEF Work
  <1>3. PICK j \in GetActiveSubscription(View(s), UserOf[task[s].p]) :
           task' = [task EXCEPT ![s].pc = "activate", ![s].active = j,
                      ![s].base = IF j = None THEN NoBag ELSE View(s)[j].paid]
    BY DEF LookupSubscription
  <1>4. /\ task'[s].active = j /\ task'[s].p = task[s].p
        /\ j # None => task'[s].base = View(s)[j].paid
    BY <1>0, <1>3 DEF Task
  <1>5. j # None => /\ j \in SubIds /\ View(s)[j] # None
                    /\ View(s)[j].user = UserOf[task[s].p]
    BY DEF GetActiveSubscription, ActiveRows
  <1>6. CASE j = None
    <2>1. BasePaid(s)'
      BY <1>4, <1>6 DEF BasePaid
    <2> QED
      BY <1>0, <1>1, <1>2, <2>1, QuietPeriods
  <1>7. CASE j # None
    <2>1. /\ Row(s, j) # None /\ Row(s, j).user = UserOf[task[s].p]
          /\ PaidFor(Collected, View(s)[j].paid, Row(s, j).user, Row(s, j).tier)
      BY <1>0, <1>5, <1>7, ViewRow, ViewPaid
    <2>2. BasePaid(s)'
      BY <1>1, <1>4, <1>7, <2>1 DEF BasePaid, Collected, Row
    <2> QED
      BY <1>0, <1>1, <1>2, <2>2, QuietPeriods
  <1> QED
    BY <1>6, <1>7

(* What the two activations flush.                                         *)
LEMMA RenewEffect ==
    ASSUME TypeOK, NEW s \in Sessions, RenewSubscription(s)
    PROVE  LET p == task[s].p
               i == task[s].active
               bag == [task[s].base EXCEPT ![p] = task[s].base[p] + 1]
           IN  /\ i \in SubIds /\ task[s].pc = "activate" /\ i # None
               /\ View(s)[i].tier = TierOf[p]
               /\ writes'[s].status = [writes[s].status EXCEPT ![p] = "SUCCEEDED"]
               /\ writes'[s].insert = writes[s].insert
               /\ writes'[s].paid = [writes[s].paid EXCEPT ![i] = bag]
               /\ writes'[s].applied = writes[s].applied
               /\ writes'[s].released = writes[s].released
               /\ writes'[s].count = writes[s].count
               /\ UNCHANGED <<database, outside>>
               /\ task' = [task EXCEPT ![s].pc = IF p \in Promo THEN "promo" ELSE "notify"]
               /\ task'[s].pc = IF p \in Promo THEN "promo" ELSE "notify"
  <1> DEFINE p == task[s].p
             i == task[s].active
             w == writes[s]
             bag == [task[s].base EXCEPT ![p] = task[s].base[p] + 1]
             m == MarkPaid(w, p, i)
  <1>0. w \in Writes /\ task[s] \in Task
    BY DEF TypeOK
  <1>1. writes'[s] = [m EXCEPT !.paid[i] = bag]
    BY DEF RenewSubscription, TypeOK
  <1>2. m = [w EXCEPT !.status[p] = "SUCCEEDED", !.link[p] = i]
    BY DEF MarkPaid
  <1>3. /\ m.status = [w.status EXCEPT ![p] = "SUCCEEDED"]
        /\ m.insert = w.insert /\ m.paid = w.paid /\ m.applied = w.applied
        /\ m.released = w.released /\ m.count = w.count
        /\ m = [status |-> m.status, link |-> m.link, insert |-> m.insert,
                paid |-> m.paid, replaced |-> m.replaced, notified |-> m.notified,
                applied |-> m.applied, released |-> m.released, count |-> m.count]
    <2> HIDE DEF w
    <2> QED
      BY <1>0, <1>2 DEF Writes
  <1>4. /\ task[s].pc = "activate" /\ i # None /\ i \in SubIds
        /\ View(s)[i].tier = TierOf[p] /\ UNCHANGED <<database, outside>>
        /\ task' = [task EXCEPT ![s].pc = IF p \in Promo THEN "promo" ELSE "notify"]
    BY <1>0 DEF RenewSubscription, Activated, GoTo, Task
  <1>7. task'[s].pc = IF p \in Promo THEN "promo" ELSE "notify"
    BY <1>0, <1>4 DEF Task, TypeOK
  <1> HIDE DEF m, bag, w
  <1>5. /\ writes'[s].status = m.status /\ writes'[s].insert = m.insert
        /\ writes'[s].paid = [m.paid EXCEPT ![i] = bag]
        /\ writes'[s].applied = m.applied /\ writes'[s].released = m.released
        /\ writes'[s].count = m.count
    BY <1>1, <1>3
  <1> QED
    BY <1>3, <1>4, <1>5, <1>7 DEF w, bag

LEMMA CreateEffect ==
    ASSUME TypeOK, Assigned, NEW s \in Sessions, CreateSubscription(s)
    PROVE  LET p == task[s].p
               i == task[s].active
               row == [user |-> UserOf[p], tier |-> TierOf[p],
                       status |-> "ACTIVE", live |-> TRUE,
                       paid |-> [NoBag EXCEPT ![p] = 1]]
           IN  /\ task[s].pc = "activate"
               /\ writes'[s].status = [writes[s].status EXCEPT ![p] = "SUCCEEDED"]
               /\ \E new \in SubIds :
                     /\ subs[new] = None
                     /\ \A r \in Sessions : writes[r].insert[new] = None
                     /\ writes'[s].insert = [writes[s].insert EXCEPT ![new] = row]
               /\ row \in UserSubscription
               /\ writes'[s].paid = writes[s].paid
               /\ writes'[s].applied = writes[s].applied
               /\ writes'[s].released = writes[s].released
               /\ writes'[s].count = writes[s].count
               /\ UNCHANGED <<database, outside>>
               /\ task' = [task EXCEPT ![s].pc = IF p \in Promo THEN "promo" ELSE "notify"]
               /\ task'[s].pc = IF p \in Promo THEN "promo" ELSE "notify"
  <1> DEFINE p == task[s].p
             i == task[s].active
             w == writes[s]
             row == [user |-> UserOf[p], tier |-> TierOf[p],
                     status |-> "ACTIVE", live |-> TRUE,
                     paid |-> [NoBag EXCEPT ![p] = 1]]
             gone == w.replaced \cup ({i} \ {None})
  <1>0. w \in Writes /\ task[s] \in Task
    BY DEF TypeOK
  <1>1. PICK new \in NextId :
           writes' = [writes EXCEPT ![s] =
             [MarkPaid(w, p, new) EXCEPT !.insert[new] = row, !.replaced = gone]]
    BY DEF CreateSubscription
  <1> DEFINE m == MarkPaid(w, p, new)
  <1>2. /\ m = [w EXCEPT !.status[p] = "SUCCEEDED", !.link[p] = new]
        /\ writes'[s] = [m EXCEPT !.insert[new] = row, !.replaced = gone]
    BY <1>1 DEF MarkPaid, TypeOK
  <1>3. /\ m.status = [w.status EXCEPT ![p] = "SUCCEEDED"]
        /\ m.insert = w.insert /\ m.paid = w.paid /\ m.applied = w.applied
        /\ m.released = w.released /\ m.count = w.count
        /\ m = [status |-> m.status, link |-> m.link, insert |-> m.insert,
                paid |-> m.paid, replaced |-> m.replaced, notified |-> m.notified,
                applied |-> m.applied, released |-> m.released, count |-> m.count]
    <2> HIDE DEF w
    <2> QED
      BY <1>0, <1>2 DEF Writes
  <1>4. /\ task[s].pc = "activate" /\ UNCHANGED <<database, outside>>
        /\ task' = [task EXCEPT ![s].pc = IF p \in Promo THEN "promo" ELSE "notify"]
    BY DEF CreateSubscription, Activated, GoTo
  <1>8. task'[s].pc = IF p \in Promo THEN "promo" ELSE "notify"
    BY <1>0, <1>4 DEF Task, TypeOK
  <1>5. new \in SubIds /\ subs[new] = None /\ \A r \in Sessions : writes[r].insert[new] = None
    BY DEF NextId, FreeIds
  <1>7. row \in UserSubscription
    <2>1. 0 \in 0..MaxGrants /\ 1 \in 0..MaxGrants
      BY BoundsAssumption
    <2>2. [NoBag EXCEPT ![p] = 1] \in Bag
      BY <2>1 DEF NoBag, Bag
    <2>3. p \in Payments
      BY DEF CreateSubscription, Assigned
    <2> QED
      BY <2>2, <2>3, OrdersAssumption DEF UserSubscription
  <1> HIDE DEF m, row, w, gone
  <1>6. /\ writes'[s].status = m.status /\ writes'[s].paid = m.paid
        /\ writes'[s].insert = [m.insert EXCEPT ![new] = row]
        /\ writes'[s].applied = m.applied /\ writes'[s].released = m.released
        /\ writes'[s].count = m.count
    BY <1>2, <1>3
  <1> QED
    BY <1>3, <1>4, <1>5, <1>6, <1>7, <1>8 DEF w, row

(* A step of session s that keeps the table and every owner of a row.      *)
LEMMA OthersKeepPeriods ==
    ASSUME IInv, PeriodsInv, NEW s \in Sessions, Work(s), subs' = subs,
           NEW r \in Sessions \ {s}
    PROVE  WritesPaid(r)' /\ BasePaid(r)'
  <1>1. [Next]_vars /\ TypeOK
    BY DEF Next, IInv
  <1>2. task'[r] = task[r] /\ writes'[r] = writes[r]
    BY <1>1, OthersKeep
  <1>3. \A i \in SubIds : SameOwner(Row(r, i), Row(r, i)')
    BY <1>2 DEF SameOwner, Row
  <1> QED
    BY <1>1, <1>2, <1>3, SessionKeepsPeriods

LEMMA RenewPeriods ==
    ASSUME IInv, PeriodsInv, NEW s \in Sessions, RenewSubscription(s)
    PROVE  PeriodsInv'
  <1>0. /\ [Next]_vars /\ TypeOK /\ Work(s) /\ WritesPaid(s) /\ BasePaid(s)
        /\ Assigned /\ TaskAgrees(s) /\ task[s] \in Task /\ writes[s] \in Writes
    BY DEF Next, Work, IInv, PeriodsInv, SessionsAgree, TypeOK
  <1> DEFINE p == task[s].p
             bag == [task[s].base EXCEPT ![p] = task[s].base[p] + 1]
  <1>1. PICK i \in SubIds : i = task[s].active
    BY <1>0, RenewEffect
  <1>2. /\ i # None /\ task[s].pc = "activate" /\ View(s)[i].tier = TierOf[p]
        /\ writes'[s].insert = writes[s].insert
        /\ writes'[s].paid = [writes[s].paid EXCEPT ![i] = bag]
        /\ subs' = subs /\ provider' = provider
        /\ task'[s].pc # "activate"
    BY <1>0, <1>1, RenewEffect DEF database, outside
  <1>3. /\ Row(s, i) # None /\ Row(s, i).user = UserOf[p] /\ Row(s, i).tier = TierOf[p]
        /\ PaidFor(Collected, task[s].base, Row(s, i).user, Row(s, i).tier)
    BY <1>0, <1>1, <1>2, ViewRow DEF BasePaid
  <1>4. provider[p] = "succeeded" /\ p \in Payments
    BY <1>0, <1>2 DEF TaskAgrees, Assigned
  <1>5. PaidFor(Collected, bag, Row(s, i).user, Row(s, i).tier)
    <2>1. task[s].base \in Bag
      BY <1>0, ActiveType
    <2> SUFFICES ASSUME NEW q \in Payments, bag[q] > 0
                 PROVE  /\ q \in Collected
                        /\ Row(s, i).user = UserOf[q] /\ Row(s, i).tier = TierOf[q]
      BY DEF PaidFor
    <2>2. CASE q = p
      BY <1>3, <1>4, <2>2 DEF Collected
    <2>3. CASE q # p
      BY <1>3, <2>1, <2>3 DEF PaidFor, Bag
    <2> QED
      BY <2>2, <2>3
  <1> HIDE DEF bag, p
  <1>6. ASSUME NEW j \in SubIds
        PROVE  /\ Row(s, j)' = Row(s, j) /\ writes'[s].insert[j] = writes[s].insert[j]
               /\ writes'[s].paid[j] = IF j = i THEN bag ELSE writes[s].paid[j]
    <2>1. writes[s].paid \in [SubIds -> Bag \cup {None}]
      BY <1>0 DEF Writes
    <2> QED
      BY <1>2, <2>1 DEF Row
  <1>7. WritesPaid(s)'
    <2> SUFFICES ASSUME NEW j \in SubIds
                 PROVE  /\ RowPaid(Collected, writes[s].insert[j])'
                        /\ (writes[s].paid[j] # None)' =>
                              /\ Row(s, j)' # None
                              /\ PaidFor(Collected, writes[s].paid[j], Row(s, j).user, Row(s, j).tier)'
      BY DEF WritesPaid
    <2>1. RowPaid(Collected, writes[s].insert[j])'
      BY <1>0, <1>2, <1>6 DEF WritesPaid, Collected
    <2>2. CASE j = i
      BY <1>2, <1>3, <1>5, <1>6, <2>1, <2>2 DEF Collected
    <2>3. CASE j # i
      BY <1>0, <1>2, <1>6, <2>3 DEF WritesPaid, Collected
    <2> QED
      BY <2>1, <2>2, <2>3
  <1>8. \A r \in Sessions : WritesPaid(r)' /\ BasePaid(r)'
    <2>1. BasePaid(s)'
      BY <1>2 DEF BasePaid
    <2> QED
      BY <1>0, <1>2, <1>7, <2>1, OthersKeepPeriods
  <1>9. \A j \in SubIds : RowPaid(Collected, subs[j])'
    BY <1>2 DEF PeriodsInv, RowPaid, Collected
  <1>10. InsertsApart'
    <2>1. \A r \in Sessions : writes'[r].insert = writes[r].insert
      BY <1>0, <1>2, OthersKeep
    <2> QED
      BY <1>2, <2>1 DEF PeriodsInv, InsertsApart
  <1> QED
    BY <1>8, <1>9, <1>10 DEF PeriodsInv

LEMMA CreatePeriods ==
    ASSUME IInv, PeriodsInv, NEW s \in Sessions, CreateSubscription(s)
    PROVE  PeriodsInv'
  <1>0. /\ [Next]_vars /\ TypeOK /\ Work(s) /\ WritesPaid(s) /\ InsertsApart
        /\ Assigned /\ TaskAgrees(s) /\ task[s] \in Task /\ writes[s] \in Writes
    BY DEF Next, Work, IInv, PeriodsInv, SessionsAgree, TypeOK
  <1> DEFINE p == task[s].p
             row == [user |-> UserOf[p], tier |-> TierOf[p],
                     status |-> "ACTIVE", live |-> TRUE,
                     paid |-> [NoBag EXCEPT ![p] = 1]]
  <1>1. PICK new \in SubIds :
           /\ subs[new] = None
           /\ \A r \in Sessions : writes[r].insert[new] = None
           /\ writes'[s].insert = [writes[s].insert EXCEPT ![new] = row]
    BY <1>0, CreateEffect
  <1>2. /\ task[s].pc = "activate" /\ writes'[s].paid = writes[s].paid
        /\ subs' = subs /\ provider' = provider /\ row \in UserSubscription
        /\ task'[s].pc # "activate"
    BY <1>0, CreateEffect DEF database, outside
  <1>3. provider[p] = "succeeded" /\ p \in Payments
    BY <1>0, <1>2 DEF TaskAgrees, Assigned
  <1>4. PaidFor(Collected, row.paid, row.user, row.tier)
    BY <1>3 DEF PaidFor, NoBag, Collected
  <1> HIDE DEF row, p
  <1>5. ASSUME NEW j \in SubIds
        PROVE  /\ writes'[s].insert[j] = IF j = new THEN row ELSE writes[s].insert[j]
               /\ writes'[s].paid[j] = writes[s].paid[j]
               /\ j # new => Row(s, j)' = Row(s, j)
               /\ j = new => writes[s].paid[j] = None
    <2>1. writes[s].insert \in [SubIds -> UserSubscription \cup {None}]
      BY <1>0 DEF Writes
    <2>2. writes'[s].insert[j] = IF j = new THEN row ELSE writes[s].insert[j]
      BY <1>1, <2>1
    <2>3. Row(s, new) = None
      BY <1>1 DEF Row, Or
    <2> QED
      BY <1>0, <1>2, <2>2, <2>3 DEF Row, WritesPaid
  <1>6. WritesPaid(s)'
    <2> SUFFICES ASSUME NEW j \in SubIds
                 PROVE  /\ RowPaid(Collected, writes[s].insert[j])'
                        /\ (writes[s].paid[j] # None)' =>
                              /\ Row(s, j)' # None
                              /\ PaidFor(Collected, writes[s].paid[j], Row(s, j).user, Row(s, j).tier)'
      BY DEF WritesPaid
    <2>1. CASE j = new
      BY <1>2, <1>4, <1>5, <2>1 DEF RowPaid, Collected
    <2>2. CASE j # new
      <3>1. RowPaid(Collected, writes[s].insert[j])'
        BY <1>0, <1>2, <1>5, <2>2 DEF WritesPaid, Collected
      <3>2. (writes[s].paid[j] # None)' =>
               /\ Row(s, j)' # None
               /\ PaidFor(Collected, writes[s].paid[j], Row(s, j).user, Row(s, j).tier)'
        BY <1>0, <1>2, <1>5, <2>2 DEF WritesPaid, Collected
      <3> QED
        BY <3>1, <3>2
    <2> QED
      BY <2>1, <2>2
  <1>7. \A r \in Sessions : WritesPaid(r)' /\ BasePaid(r)'
    <2>1. BasePaid(s)'
      BY <1>2 DEF BasePaid
    <2> QED
      BY <1>0, <1>2, <1>6, <2>1, OthersKeepPeriods
  <1>8. \A j \in SubIds : RowPaid(Collected, subs[j])'
    BY <1>2 DEF PeriodsInv, RowPaid, Collected
  <1>9. InsertsApart'
    <2>1. \A r \in Sessions \ {s} : writes'[r] = writes[r]
      BY <1>0, OthersKeep
    <2> SUFFICES ASSUME NEW r \in Sessions, NEW j \in SubIds,
                        writes'[r].insert[j] # None
                 PROVE  /\ subs'[j] = None
                        /\ \A q \in Sessions \ {r} : writes'[q].insert[j] = None
      BY DEF InsertsApart
    <2>2. CASE j = new
      <3>1. r = s
        BY <1>1, <2>1, <2>2
      <3> QED
        BY <1>1, <1>2, <2>1, <2>2, <3>1
    <2>3. CASE j # new
      <3>1. \A q \in Sessions : writes'[q].insert[j] = writes[q].insert[j]
        BY <1>5, <2>1, <2>3
      <3> QED
        BY <1>0, <1>2, <3>1 DEF InsertsApart
    <2> QED
      BY <2>2, <2>3
  <1> QED
    BY <1>7, <1>8, <1>9 DEF PeriodsInv

(* The end of a session: its rows reach the table, or nobody sees them.    *)
LEMMA ClosePeriods ==
    ASSUME IInv, PeriodsInv, NEW s \in Sessions, Commit(s) \/ Rollback(s)
    PROVE  PeriodsInv'
  <1>0. /\ [Next]_vars /\ TypeOK /\ Work(s) /\ InsertsApart /\ provider' = provider
        /\ task \in [Sessions -> Task] /\ writes \in [Sessions -> Writes]
    BY DEF Next, Work, IInv, PeriodsInv, SessionsAgree, TypeOK, Commit, Rollback, Close, outside
  <1>1. writes'[s] = NoWrites /\ task'[s] = Idle
    BY <1>0 DEF Commit, Rollback, Close
  <1>2. \A r \in Sessions \ {s} : writes'[r] = writes[r] /\ task'[r] = task[r]
    BY <1>0, OthersKeep
  <1>3. ASSUME NEW i \in SubIds
        PROVE  /\ RowPaid(Collected, subs[i])' /\ SameOwner(subs[i], subs'[i])
               /\ subs'[i] # None => subs[i] # None \/ writes[s].insert[i] # None
    <2>1. CASE Rollback(s)
      BY <1>0, <2>1 DEF Rollback, database, Collected, SameOwner, PeriodsInv
    <2>2. CASE Commit(s)
      <3>1. subs'[i] = View(s)[i]
        BY <2>2 DEF Commit
      <3>2. RowPaid(Collected, subs[i])'
        <4>1. CASE Row(s, i) = None
          BY <1>0, <3>1, <4>1, ViewRow DEF RowPaid
        <4>2. CASE Row(s, i) # None
          <5>1. /\ PaidFor(Collected, View(s)[i].paid, Row(s, i).user, Row(s, i).tier)
                /\ View(s)[i].user = Row(s, i).user /\ View(s)[i].tier = Row(s, i).tier
            BY <1>0, <4>2, ViewPaid, ViewRow
          <5> QED
            BY <1>0, <3>1, <5>1 DEF RowPaid, Collected
        <4> QED
          BY <4>1, <4>2
      <3>3. SameOwner(subs[i], subs'[i])
        <4>1. subs[i] # None => Row(s, i) = subs[i]
          BY <1>0 DEF InsertsApart, Row, Or
        <4> QED
          BY <1>0, <3>1, <4>1, ViewRow DEF SameOwner
      <3>4. subs'[i] # None => subs[i] # None \/ writes[s].insert[i] # None
        BY <1>0, <3>1, ViewRow DEF Row, Or
      <3> QED
        BY <3>2, <3>3, <3>4
    <2> QED
      BY <2>1, <2>2
  <1>4. \A i \in SubIds : writes'[s].insert[i] = None /\ writes'[s].paid[i] = None
    BY <1>1 DEF NoWrites
  <1>5. WritesPaid(s)' /\ BasePaid(s)'
    BY <1>1, <1>4 DEF WritesPaid, BasePaid, RowPaid, Idle
  <1>6. ASSUME NEW r \in Sessions \ {s}
        PROVE  WritesPaid(r)' /\ BasePaid(r)'
    <2>1. ASSUME NEW i \in SubIds
          PROVE  SameOwner(Row(r, i), Row(r, i)')
      <3>1. writes'[r].insert[i] = writes[r].insert[i]
        BY <1>2
      <3>2. SameOwner(subs[i], subs'[i])
        BY <1>3
      <3> QED
        BY <3>1, <3>2 DEF SameOwner, Row, Or
    <2> QED
      BY <1>0, <1>2, <2>1, SessionKeepsPeriods
  <1>7. InsertsApart'
    BY <1>0, <1>2, <1>3, <1>4 DEF InsertsApart
  <1> QED
    BY <1>3, <1>5, <1>6, <1>7 DEF PeriodsInv

LEMMA PeriodsNext == IInv /\ PeriodsInv /\ [Next]_vars => PeriodsInv'
  <1> SUFFICES ASSUME IInv, PeriodsInv, [Next]_vars PROVE PeriodsInv'
    OBVIOUS
  <1>1. CASE Environment
    BY <1>1, EnvironmentPeriods
  <1>2. ASSUME NEW s \in Sessions, Enter(s)
        PROVE  PeriodsInv'
    BY <1>2, OthersKeep, QuietSteps, QuietPeriods DEF IInv
  <1>3. ASSUME NEW s \in Sessions, Work(s)
        PROVE  PeriodsInv'
    <2>1. CASE \/ ProviderCreates(s) \/ InsertPayment(s)
               \/ PeekSucceeded(s) \/ PeekCanceled(s) \/ PeekNothing(s)
               \/ VerifyOk(s) \/ VerifyRefused(s)
               \/ TierNotFound(s) \/ MarkActivationFailed(s)
               \/ ReadUsedCount(s) \/ ConfirmUsage(s)
               \/ SendSuccessNotification(s) \/ SkipNotification(s)
               \/ MarkCancelled(s)
      BY <1>3, <2>1, OthersKeep, QuietSteps, QuietPeriods DEF IInv
    <2> QED
      BY <1>3, <2>1, LookupPeriods, RenewPeriods, CreatePeriods, ClosePeriods DEF Work
  <1>4. CASE UNCHANGED vars
    BY <1>4 DEF vars, PeriodsInv, RowPaid, Collected, InsertsApart, WritesPaid,
       BasePaid, Row
  <1> QED
    BY <1>1, <1>2, <1>3, <1>4 DEF Next

LEMMA PeriodsInit == Init => PeriodsInv
  BY DEF Init, PeriodsInv, RowPaid, InsertsApart, WritesPaid, BasePaid, NoWrites, Idle

(* No free days: every period in a subscription row was paid for by its    *)
(* own user, for its own tier, with money the provider has, however many   *)
(* sessions overlap.                                                       *)
THEOREM NoFreeDays == Spec => []PeriodsArePaid
  <1>1. Init => IInv /\ PeriodsInv
    BY TypeInit, AgreeInit, PeriodsInit DEF IInv
  <1>2. IInv /\ PeriodsInv => PeriodsArePaid
    BY DEF PeriodsInv, RowPaid, PaidFor, Collected, PeriodsArePaid
  <1> QED
    BY <1>1, <1>2, AgreeNext, PeriodsNext, PTL DEF Spec

-----------------------------------------------------------------------------
(* What each step does to its session, column by column.                   *)
LEMMA RestEffect ==
    ASSUME NEW t \in Task
    PROVE  /\ Rest(t).pc = IF t.todo = {} THEN "commit" ELSE "peek"
           /\ Rest(t).todo = t.todo /\ Rest(t).p = None
  <1> DEFINE pc == IF t.todo = {} THEN "commit" ELSE "peek"
  <1>1. Rest(t) = [Idle EXCEPT !.pc = pc, !.kind = t.kind,
                               !.todo = t.todo, !.told = t.told]
    BY DEF Rest
  <1> HIDE DEF pc
  <1>2. Rest(t).pc = pc /\ Rest(t).todo = t.todo /\ Rest(t).p = None
    BY <1>1 DEF Idle
  <1> QED
    BY <1>2 DEF pc

LEMMA DoneEffect ==
    ASSUME TypeOK, NEW s \in Sessions, Done(s)
    PROVE  /\ task'[s].pc = IF task[s].todo = {} THEN "commit" ELSE "peek"
           /\ task'[s].todo = task[s].todo /\ task'[s].p = None
  <1>1. task'[s] = Rest(task[s]) /\ task[s] \in Task
    BY DEF Done, TypeOK
  <1> QED
    BY <1>1, RestEffect

LEMMA GoToEffect ==
    ASSUME TypeOK, NEW s \in Sessions, NEW pc, GoTo(s, pc)
    PROVE  /\ task'[s].pc = pc /\ task'[s].p = task[s].p
           /\ task'[s].todo = task[s].todo /\ task'[s].active = task[s].active
           /\ task'[s].base = task[s].base /\ task'[s].count = task[s].count
  <1>1. task[s] \in Task /\ task'[s] = [task[s] EXCEPT !.pc = pc]
    BY DEF GoTo, TypeOK
  <1> QED
    BY <1>1 DEF Task

LEMMA BeginEffect ==
    ASSUME TypeOK, NEW s \in Sessions, NEW pc, NEW kind, NEW p, NEW todo,
           Begin(s, pc, kind, p, todo)
    PROVE  /\ task[s].pc = "idle"
           /\ task'[s].pc = pc /\ task'[s].p = p /\ task'[s].todo = todo
           /\ writes' = writes /\ UNCHANGED <<database, provider>>
  <1> DEFINE late == p # None /\ status[p] = "FAILED"
  <1>1. task'[s] = [Idle EXCEPT !.pc = pc, !.kind = kind, !.p = p, !.todo = todo,
                                !.told = notified, !.failed = late]
    BY DEF Begin, TypeOK
  <1> HIDE DEF late
  <1>2. task'[s].pc = pc /\ task'[s].p = p /\ task'[s].todo = todo
    BY <1>1 DEF Idle
  <1> QED
    BY <1>2 DEF Begin, outside

LEMMA FindEffect ==
    ASSUME TypeOK, NEW s \in Sessions, NEW p \in Payments, FindPendingPayment(s, p)
    PROVE  /\ task[s].pc = "idle" /\ provider[p] = "none" /\ ~Reusable(p)
           /\ task'[s].pc = "create" /\ task'[s].p = p /\ task'[s].todo = {}
           /\ writes' = writes /\ UNCHANGED <<database, provider>>
  BY DEF FindPendingPayment, TypeOK, Idle, outside

LEMMA TakeEffect ==
    ASSUME TypeOK, NEW s \in Sessions, NEW p, NEW pc, Take(s, p, pc)
    PROVE  /\ task'[s].pc = pc /\ task'[s].p = p
           /\ task'[s].todo = task[s].todo \ {p}
  <1>1. /\ task[s] \in Task
        /\ task'[s] = [task[s] EXCEPT !.pc = pc, !.p = p, !.todo = task[s].todo \ {p}]
    BY DEF Take, TypeOK
  <1> QED
    BY <1>1 DEF Task

LEMMA PeekEffect ==
    ASSUME TypeOK, NEW s \in Sessions,
           PeekSucceeded(s) \/ PeekCanceled(s) \/ PeekNothing(s)
    PROVE  /\ task[s].pc = "peek" /\ writes' = writes
           /\ UNCHANGED <<database, provider>>
           /\ \E p \in task[s].todo :
                 /\ task'[s].todo = task[s].todo \ {p}
                 /\ \/ task'[s].pc \in {"verify", "cancel"} /\ task'[s].p = p
                    \/ task'[s].pc \in {"peek", "commit"} /\ task'[s].p = None
  <1>1. CASE PeekSucceeded(s)
    <2>1. PICK p \in task[s].todo : Take(s, p, "verify")
      BY <1>1 DEF PeekSucceeded
    <2> QED
      BY <1>1, <2>1, TakeEffect DEF PeekSucceeded, outside
  <1>2. CASE PeekCanceled(s)
    <2>1. PICK p \in task[s].todo : Take(s, p, "cancel")
      BY <1>2 DEF PeekCanceled
    <2> QED
      BY <1>2, <2>1, TakeEffect DEF PeekCanceled, outside
  <1>3. CASE PeekNothing(s)
    <2>1. PICK p \in task[s].todo :
             task' = [task EXCEPT ![s] =
                        Rest([task[s] EXCEPT !.todo = task[s].todo \ {p}])]
      BY <1>3 DEF PeekNothing
    <2> DEFINE t == [task[s] EXCEPT !.todo = task[s].todo \ {p}]
    <2>2. t \in Task /\ t.todo = task[s].todo \ {p} /\ task'[s] = Rest(t)
      BY <2>1 DEF TypeOK, Task
    <2> HIDE DEF t
    <2>3. /\ task'[s].pc \in {"peek", "commit"} /\ task'[s].p = None
          /\ task'[s].todo = task[s].todo \ {p}
      BY <2>2, RestEffect
    <2> QED
      BY <1>3, <2>3 DEF PeekNothing, outside
  <1> QED
    BY <1>1, <1>2, <1>3

LEMMA LookupEffect ==
    ASSUME TypeOK, NEW s \in Sessions, LookupSubscription(s)
    PROVE  /\ task[s].pc = "lookup" /\ writes' = writes
           /\ UNCHANGED <<database, provider>>
           /\ task'[s].pc = "activate" /\ task'[s].p = task[s].p
           /\ task'[s].todo = task[s].todo
           /\ task'[s].active # None =>
                 /\ task'[s].active \in SubIds /\ View(s)[task'[s].active] # None
                 /\ View(s)[task'[s].active].user = UserOf[task[s].p]
                 /\ task'[s].base = View(s)[task'[s].active].paid
  <1>1. PICK j \in GetActiveSubscription(View(s), UserOf[task[s].p]) :
           task' = [task EXCEPT ![s].pc = "activate", ![s].active = j,
                      ![s].base = IF j = None THEN NoBag ELSE View(s)[j].paid]
    BY DEF LookupSubscription
  <1>2. /\ task'[s].pc = "activate" /\ task'[s].active = j
        /\ task'[s].p = task[s].p /\ task'[s].todo = task[s].todo
        /\ j # None => task'[s].base = View(s)[j].paid
    BY <1>1 DEF TypeOK, Task
  <1>3. j # None => /\ j \in SubIds /\ View(s)[j] # None
                    /\ View(s)[j].user = UserOf[task[s].p]
    BY DEF GetActiveSubscription, ActiveRows
  <1> QED
    BY <1>2, <1>3 DEF LookupSubscription, outside

LEMMA CountEffect ==
    ASSUME TypeOK, NEW s \in Sessions, ReadUsedCount(s)
    PROVE  /\ task[s].pc = "promo" /\ task'[s].pc = "count"
           /\ task'[s].p = task[s].p /\ task'[s].todo = task[s].todo
           /\ task'[s].count = Or(writes[s].count, usedCount)
           /\ writes' = writes /\ UNCHANGED <<database, provider>>
  BY DEF ReadUsedCount, TypeOK, Task, outside

(* The UPDATE of one payment.                                              *)
SameButStatus(v, w) ==
    /\ v.insert = w.insert /\ v.paid = w.paid
    /\ v.applied = w.applied /\ v.count = w.count

LEMMA InsertEffect ==
    ASSUME TypeOK, NEW s \in Sessions, InsertPayment(s)
    PROVE  /\ task[s].pc = "insert"
           /\ writes'[s].status = [writes[s].status EXCEPT ![task[s].p] = "PENDING"]
           /\ SameButStatus(writes'[s], writes[s])
           /\ writes'[s].released = writes[s].released
           /\ UNCHANGED <<database, provider>>
           /\ task'[s].pc = IF task[s].todo = {} THEN "commit" ELSE "peek"
           /\ task'[s].todo = task[s].todo /\ task'[s].p = None
  <1>1. /\ writes[s] \in Writes
        /\ writes'[s] = [writes[s] EXCEPT !.status[task[s].p] = "PENDING"]
    BY DEF InsertPayment, TypeOK
  <1> QED
    BY <1>1, DoneEffect DEF InsertPayment, Writes, SameButStatus, outside

LEMMA FailEffect ==
    ASSUME TypeOK, NEW s \in Sessions, MarkActivationFailed(s)
    PROVE  /\ task[s].pc = "fail"
           /\ \/ writes'[s].status = writes[s].status
              \/ writes'[s].status = [writes[s].status EXCEPT ![task[s].p] = "FAILED"]
           /\ SameButStatus(writes'[s], writes[s])
           /\ writes'[s].released = writes[s].released
           /\ UNCHANGED <<database, provider>>
           /\ task'[s].pc = IF task[s].todo = {} THEN "commit" ELSE "peek"
           /\ task'[s].todo = task[s].todo /\ task'[s].p = None
  <1>1. /\ writes[s] \in Writes
        /\ \/ writes'[s] = writes[s]
           \/ writes'[s] = [writes[s] EXCEPT !.status[task[s].p] = "FAILED"]
    BY DEF MarkActivationFailed, TypeOK
  <1> QED
    BY <1>1, DoneEffect DEF MarkActivationFailed, Writes, SameButStatus, outside

LEMMA CancelEffect ==
    ASSUME TypeOK, NEW s \in Sessions, MarkCancelled(s)
    PROVE  /\ task[s].pc = "cancel"
           /\ writes'[s].status = [writes[s].status EXCEPT ![task[s].p] = "CANCELLED"]
           /\ SameButStatus(writes'[s], writes[s])
           /\ writes'[s].released \subseteq writes[s].released \cup {task[s].p}
           /\ UNCHANGED <<database, provider>>
           /\ task'[s].pc = IF task[s].todo = {} THEN "commit" ELSE "peek"
           /\ task'[s].todo = task[s].todo /\ task'[s].p = None
  <1> DEFINE p == task[s].p
             bound == {q \in Promo \cap {p} :
                         usage[q].bound /\ usage[q].state = "RESERVED"}
             rel == IF task[s].kind = "cancel" THEN writes[s].released \cup bound
                    ELSE writes[s].released
  <1>1. /\ writes[s] \in Writes
        /\ writes'[s] = [writes[s] EXCEPT !.status[p] = "CANCELLED", !.released = rel]
    BY DEF MarkCancelled, TypeOK
  <1>2. rel \subseteq writes[s].released \cup {p}
    OBVIOUS
  <1> HIDE DEF rel
  <1>3. /\ writes'[s].status = [writes[s].status EXCEPT ![p] = "CANCELLED"]
        /\ SameButStatus(writes'[s], writes[s])
        /\ writes'[s].released = rel
    BY <1>1 DEF Writes, SameButStatus
  <1>4. Done(s) /\ task[s].pc = "cancel" /\ UNCHANGED <<database, provider>>
    BY DEF MarkCancelled, outside
  <1> QED
    BY <1>2, <1>3, <1>4, DoneEffect

LEMMA ConfirmEffect ==
    ASSUME TypeOK, NEW s \in Sessions, ConfirmUsage(s)
    PROVE  /\ task[s].pc = "count"
           /\ writes'[s].status = writes[s].status
           /\ writes'[s].insert = writes[s].insert /\ writes'[s].paid = writes[s].paid
           /\ writes'[s].released = writes[s].released
           /\ writes'[s].applied = writes[s].applied \cup {task[s].p}
           /\ writes'[s].count = task[s].count + 1
           /\ UNCHANGED <<database, provider>>
           /\ task'[s].pc = "notify" /\ task'[s].p = task[s].p
           /\ task'[s].todo = task[s].todo
  <1>1. /\ writes[s] \in Writes
        /\ writes'[s] = [writes[s] EXCEPT !.applied = @ \cup {task[s].p},
                                          !.count = task[s].count + 1]
    BY DEF ConfirmUsage, Increment, TypeOK
  <1>2. /\ writes'[s].status = writes[s].status
        /\ writes'[s].insert = writes[s].insert /\ writes'[s].paid = writes[s].paid
        /\ writes'[s].released = writes[s].released
        /\ writes'[s].applied = writes[s].applied \cup {task[s].p}
        /\ writes'[s].count = task[s].count + 1
    BY <1>1 DEF Writes
  <1>3. GoTo(s, "notify") /\ task[s].pc = "count" /\ UNCHANGED <<database, provider>>
    BY DEF ConfirmUsage, outside
  <1> QED
    BY <1>2, <1>3, GoToEffect

(* Telling the buyer, or not: no books are touched.                        *)
LEMMA NotifyEffect ==
    ASSUME TypeOK, NEW s \in Sessions,
           SendSuccessNotification(s) \/ SkipNotification(s)
    PROVE  /\ task[s].pc = "notify"
           /\ writes'[s].status = writes[s].status
           /\ SameButStatus(writes'[s], writes[s])
           /\ writes'[s].released = writes[s].released
           /\ UNCHANGED <<database, provider>>
           /\ task'[s].pc = IF task[s].todo = {} THEN "commit" ELSE "peek"
           /\ task'[s].todo = task[s].todo /\ task'[s].p = None
  <1>1. /\ writes[s] \in Writes
        /\ \/ writes'[s] = writes[s]
           \/ writes'[s] = [writes[s] EXCEPT !.notified = @ \cup {task[s].p}]
    BY DEF SendSuccessNotification, SkipNotification, TypeOK
  <1>2. /\ writes'[s].status = writes[s].status
        /\ SameButStatus(writes'[s], writes[s])
        /\ writes'[s].released = writes[s].released
    BY <1>1 DEF Writes, SameButStatus
  <1>3. /\ Done(s) /\ task[s].pc = "notify" /\ UNCHANGED <<database, provider>>
    BY DEF SendSuccessNotification, SkipNotification, outside
  <1> QED
    BY <1>2, <1>3, DoneEffect

LEMMA CloseEffect ==
    ASSUME TypeOK, NEW s \in Sessions, Commit(s) \/ Rollback(s)
    PROVE  task'[s] = Idle /\ writes'[s] = NoWrites /\ provider' = provider
  BY DEF Commit, Rollback, Close, TypeOK, outside

-----------------------------------------------------------------------------
(***************************************************************************)
(* The history.  What has been in hand of two sessions is never forgotten. *)
(***************************************************************************)
MeetInv == /\ Meeting \subseteq overlaps
           /\ \A p, q \in Payments : Overlapped(p, q) => Overlapped(q, p)

LEMMA Meets ==
    ASSUME MeetInv, NEW r \in Sessions, NEW s \in Sessions, r # s,
           NEW p \in Payments, NEW q \in Payments, InHand(r, p), InHand(s, q)
    PROVE  Overlapped(p, q) /\ Overlapped(q, p)
  BY DEF MeetInv, Meeting, Overlapped

LEMMA HistoryGrows ==
    ASSUME [HNext]_historyVars
    PROVE  /\ [Next]_vars
           /\ \A p, q \in Payments : Overlapped(p, q) => Overlapped(p, q)'
           /\ \A p \in Payments : /\ Undisputed(p)' => Undisputed(p)
                                  /\ Alone(p)' => Alone(p)
                                  /\ Alone(p) => Undisputed(p)
  <1>1. [Next]_vars /\ overlaps \subseteq overlaps'
    BY DEF HNext, historyVars
  <1> QED
    BY <1>1 DEF Overlapped, Undisputed, Alone

LEMMA MeetNext == ASSUME MeetInv, [HNext]_historyVars PROVE MeetInv'
  <1>1. CASE HNext
    <2>1. /\ Meeting' \subseteq overlaps'
          /\ \A p, q \in Payments : <<p, q>> \in Meeting' => <<q, p>> \in Meeting'
      BY <1>1 DEF HNext, Meeting
    <2> QED
      BY <1>1, <2>1 DEF HNext, MeetInv, Overlapped
  <1>2. CASE UNCHANGED historyVars
    BY <1>2 DEF historyVars, vars, MeetInv, Meeting, Overlapped, InHand
  <1> QED
    BY <1>1, <1>2

-----------------------------------------------------------------------------
(***************************************************************************)
(* What a session keeps in order by itself, whatever the others do: it     *)
(* settles each payment it serves once, and usages follow what it settles. *)
(***************************************************************************)
Serving(s) ==
    IF task[s].pc \in {"create", "insert", "verify", "lookup", "activate", "fail", "cancel"}
    THEN {task[s].p} ELSE {}
Clean(s) == task[s].pc \in {"idle", "create", "insert"} => writes[s] = NoWrites
Unsettled(s) ==
    /\ Serving(s) \cap task[s].todo = {}
    /\ \A p \in Serving(s) \cup task[s].todo : writes[s].status[p] = None
    /\ task[s].pc \in {"create", "insert"} => task[s].todo = {}
    /\ task[s].pc \in {"promo", "count"} =>
          /\ writes[s].status[task[s].p] = "SUCCEEDED"
          /\ task[s].p \notin writes[s].applied \cup task[s].todo
UsagesFollow(s) ==
    LET w == writes[s]
    IN  /\ \A p \in w.applied : w.status[p] = "SUCCEEDED"
        /\ \A p \in w.released : w.status[p] = "CANCELLED"
        /\ \A p \in Promo : w.status[p] = "SUCCEEDED" =>
              p \in w.applied \/ (task[s].p = p /\ task[s].pc \in {"promo", "count"})
        /\ \A p \in Payments : w.status[p] # "NONE"
InOrder(s) == Clean(s) /\ Unsettled(s) /\ UsagesFollow(s)

(* It makes a payment PENDING only if it is its checkout.                  *)
Claims(s, p) ==
    \/ task[s].pc \in {"create", "insert"} /\ task[s].p = p
    \/ writes[s].status[p] = "PENDING"
(* What is in hand after a step was in hand before, for the same purpose.  *)
HandsKept(s) ==
    \A p \in Payments : InHand(s, p)' =>
        InHand(s, p) /\ (Claims(s, p)' <=> Claims(s, p))

LEMMA OrderFacts ==
    ASSUME IInv, NEW s \in Sessions, InOrder(s)
    PROVE  /\ TypeOK /\ Assigned /\ AgreesWithProvider /\ TaskAgrees(s)
           /\ writes[s].status \in [Payments -> PaymentStatus \cup {None}]
           /\ task[s].todo \subseteq Payments
           /\ writes[s].applied \subseteq Promo
           /\ writes[s].released \subseteq Payments
  BY OrdersAssumption DEF IInv, SessionsAgree, TypeOK, Writes, Task

(* Nothing is flushed: the payments ahead only get fewer.                  *)
LEMMA QuietOrder ==
    ASSUME IInv, NEW s \in Sessions, InOrder(s), writes' = writes,
           task[s].pc \notin {"idle", "create", "insert"},
           task'[s].pc \notin {"idle", "create", "insert"},
           Serving(s)' \cup task'[s].todo \subseteq Serving(s) \cup task[s].todo,
           Serving(s)' \cap task'[s].todo = {},
           task'[s].pc \in {"promo", "count"} <=> task[s].pc \in {"promo", "count"},
           task[s].pc \in {"promo", "count"} =>
              task'[s].p = task[s].p /\ task'[s].todo = task[s].todo,
           task'[s].p \in {None, task[s].p} \cup task[s].todo,
           task'[s].todo \subseteq task[s].todo
    PROVE  InOrder(s)' /\ HandsKept(s)
  <1>2. Clean(s)'
    BY DEF Clean
  <1>3. Unsettled(s)'
    BY DEF InOrder, Unsettled
  <1>5. UsagesFollow(s)'
    BY DEF InOrder, UsagesFollow
  <1>6. HandsKept(s)
    BY NoneAssumption DEF HandsKept, InHand, Claims
  <1> QED
    BY <1>2, <1>3, <1>5, <1>6 DEF InOrder

(* The session settles the payment it has in hand.                         *)
LEMMA SettleOrder ==
    ASSUME IInv, NEW s \in Sessions, InOrder(s),
           NEW p \in Payments, p = task[s].p,
           task[s].pc \notin {"create", "insert"}, Serving(s) = {p}, Serving(s)' = {},
           NEW st \in {"SUCCEEDED", "FAILED", "CANCELLED"},
           writes'[s].status = [writes[s].status EXCEPT ![p] = st],
           writes'[s].applied = writes[s].applied,
           writes'[s].released \subseteq
              writes[s].released \cup (IF st = "CANCELLED" THEN {p} ELSE {}),
           task'[s].pc # "idle",
           task'[s].todo = task[s].todo, task'[s].p \in {None, p},
           task'[s].pc \in {"promo", "count"} => st = "SUCCEEDED" /\ task'[s].p = p,
           st = "SUCCEEDED" /\ p \in Promo => task'[s].pc = "promo" /\ task'[s].p = p
    PROVE  InOrder(s)' /\ HandsKept(s)
  <1>1. /\ InOrder(s) /\ task[s].todo \subseteq Payments
        /\ writes[s].status \in [Payments -> PaymentStatus \cup {None}]
        /\ writes[s].applied \subseteq Promo /\ writes[s].released \subseteq Payments
    BY OrderFacts
  <1>2. writes[s].status[p] = None /\ p \notin task[s].todo
    BY <1>1 DEF InOrder, Unsettled
  <1>3. \A q \in Payments : writes'[s].status[q] = IF q = p THEN st ELSE writes[s].status[q]
    BY <1>1
  <1>4. /\ task[s].pc \notin {"promo", "count", "idle", "create", "insert"}
        /\ task'[s].pc \notin {"create", "insert"}
    BY DEF Serving
  <1>5. Clean(s)'
    BY <1>4 DEF Clean
  <1>6. p \notin writes[s].applied
    BY <1>1, <1>2, NoneAssumption DEF InOrder, UsagesFollow, PaymentStatus
  <1>7. Unsettled(s)'
    <2>1. \A q \in task[s].todo : q # p /\ writes'[s].status[q] = writes[s].status[q]
      BY <1>1, <1>2, <1>3
    <2>2. task'[s].pc \in {"promo", "count"} =>
             /\ writes'[s].status[task'[s].p] = "SUCCEEDED"
             /\ task'[s].p \notin writes'[s].applied \cup task'[s].todo
      BY <1>2, <1>3, <1>6
    <2> QED
      BY <1>1, <1>4, <2>1, <2>2 DEF InOrder, Unsettled
  <1>9. UsagesFollow(s)'
    <2>1. \A q \in writes'[s].applied : writes'[s].status[q] = "SUCCEEDED"
      BY <1>1, <1>3, <1>6, OrdersAssumption DEF InOrder, UsagesFollow
    <2>3. \A q \in writes'[s].released : writes'[s].status[q] = "CANCELLED"
      BY <1>1, <1>2, <1>3, NoneAssumption DEF InOrder, UsagesFollow, PaymentStatus
    <2>4. \A q \in Promo : writes'[s].status[q] = "SUCCEEDED" =>
             q \in writes'[s].applied \/ (task'[s].p = q /\ task'[s].pc \in {"promo", "count"})
      BY <1>1, <1>3, <1>4, OrdersAssumption DEF InOrder, UsagesFollow
    <2>5. \A q \in Payments : writes'[s].status[q] # "NONE"
      BY <1>1, <1>3 DEF InOrder, UsagesFollow
    <2> QED
      BY <2>1, <2>3, <2>4, <2>5 DEF UsagesFollow
  <1>10. HandsKept(s)
    <2> SUFFICES ASSUME NEW q \in Payments, InHand(s, q)'
                 PROVE  InHand(s, q) /\ (Claims(s, q)' <=> Claims(s, q))
      BY DEF HandsKept
    <2>1. CASE q = p
      BY <1>2, <1>3, <1>4, <2>1, NoneAssumption DEF InHand, Claims, PaymentStatus
    <2>2. CASE q # p
      BY <1>3, <1>4, <2>2, NoneAssumption DEF InHand, Claims
    <2> QED
      BY <2>1, <2>2
  <1> QED
    BY <1>5, <1>7, <1>9, <1>10 DEF InOrder

(* The usual end of a step: the status columns stay.                       *)
LEMMA SameStatus ==
    ASSUME IInv, NEW s \in Sessions, InOrder(s),
           task[s].pc \notin {"idle", "create", "insert"},
           task'[s].pc \in {"peek", "commit"}, task'[s].p = None,
           task'[s].todo = task[s].todo, writes'[s].status = writes[s].status,
           writes'[s].applied = writes[s].applied,
           writes'[s].released = writes[s].released,
           task[s].pc \notin {"promo", "count"}
    PROVE  InOrder(s)' /\ HandsKept(s)
  <1>1. Clean(s)' /\ Unsettled(s)'
    BY DEF InOrder, Clean, Unsettled, Serving
  <1>2. UsagesFollow(s)'
    BY DEF InOrder, UsagesFollow
  <1>3. HandsKept(s)
    BY NoneAssumption DEF HandsKept, InHand, Claims
  <1> QED
    BY <1>1, <1>2, <1>3 DEF InOrder

LEMMA WorkOrder ==
    ASSUME IInv, NEW s \in Sessions, InOrder(s), Work(s), ~Commit(s), ~Rollback(s)
    PROVE  InOrder(s)' /\ HandsKept(s)
  <1>0. /\ TypeOK /\ Assigned /\ TaskAgrees(s)
        /\ AgreesWithProvider /\ task[s].todo \subseteq Payments
        /\ writes[s].status \in [Payments -> PaymentStatus \cup {None}]
    BY OrderFacts
  <1> USE <1>0
  <1>1. CASE ProviderCreates(s)
    <2>1. /\ task[s].pc = "create" /\ task'[s].pc = "insert" /\ task'[s].p = task[s].p
          /\ task'[s].todo = task[s].todo /\ writes' = writes
      BY <1>1, GoToEffect DEF ProviderCreates
    <2>2. Clean(s)' /\ Unsettled(s)'
      BY <2>1 DEF InOrder, Clean, Unsettled, Serving
    <2>3. HandsKept(s)
      BY <2>1 DEF HandsKept, InHand, Claims
    <2>4. UsagesFollow(s)'
      BY <2>1 DEF InOrder, UsagesFollow
    <2> QED
      BY <2>2, <2>3, <2>4 DEF InOrder
  <1>2. CASE InsertPayment(s)
    <2> DEFINE p == task[s].p
    <2>1. /\ task[s].pc = "insert" /\ task'[s].pc \in {"commit", "peek"}
          /\ writes'[s].status = [writes[s].status EXCEPT ![p] = "PENDING"]
          /\ writes'[s].applied = writes[s].applied
          /\ writes'[s].released = writes[s].released
          /\ task'[s].todo = task[s].todo /\ task'[s].p = None
      BY <1>2, InsertEffect DEF SameButStatus
    <2>2. writes[s] = NoWrites /\ task[s].todo = {} /\ p \in Payments
      BY <2>1 DEF InOrder, Clean, Unsettled, Assigned
    <2>3. \A q \in Payments : /\ writes'[s].status[q] = IF q = p THEN "PENDING" ELSE None
                              /\ writes[s].status[q] = None
      BY <2>1, <2>2 DEF NoWrites
    <2>4. writes'[s].applied = {} /\ writes'[s].released = {}
      BY <2>1, <2>2 DEF NoWrites
    <2>8. HandsKept(s)
      BY <2>1, <2>2, <2>3, NoneAssumption DEF HandsKept, InHand, Claims
    <2> HIDE DEF p
    <2>5. Clean(s)' /\ Unsettled(s)'
      BY <2>1, <2>2 DEF Clean, Unsettled, Serving
    <2>7. UsagesFollow(s)'
      BY <2>3, <2>4, NoneAssumption, OrdersAssumption DEF UsagesFollow, PaymentStatus
    <2> QED
      BY <2>5, <2>7, <2>8 DEF InOrder
  <1>3. CASE PeekSucceeded(s) \/ PeekCanceled(s) \/ PeekNothing(s)
    <2>1. /\ task[s].pc = "peek" /\ writes' = writes
          /\ \E p \in task[s].todo :
                /\ task'[s].todo = task[s].todo \ {p}
                /\ \/ task'[s].pc \in {"verify", "cancel"} /\ task'[s].p = p
                   \/ task'[s].pc \in {"peek", "commit"} /\ task'[s].p = None
      BY <1>3, PeekEffect
    <2> QED
      BY <2>1, QuietOrder DEF Serving
  <1>4. CASE VerifyOk(s)
    <2>1. /\ task[s].pc = "verify" /\ writes' = writes
          /\ task'[s].pc \in {"lookup", "cancel"}
          /\ task'[s].p = task[s].p /\ task'[s].todo = task[s].todo
      BY <1>4, GoToEffect DEF VerifyOk
    <2> QED
      BY <2>1, QuietOrder DEF Serving, InOrder, Unsettled
  <1>5. CASE VerifyRefused(s) \/ SkipNotification(s)
    <2>1. /\ task[s].pc \in {"verify", "notify"} /\ writes' = writes
          /\ task'[s].pc \in {"peek", "commit"} /\ task'[s].todo = task[s].todo
          /\ task'[s].p = None
      BY <1>5, DoneEffect DEF VerifyRefused, SkipNotification
    <2> QED
      BY <2>1, SameStatus
  <1>6. CASE LookupSubscription(s)
    <2>1. /\ task[s].pc = "lookup" /\ writes' = writes
          /\ task'[s].pc = "activate"
          /\ task'[s].p = task[s].p /\ task'[s].todo = task[s].todo
      BY <1>6, LookupEffect
    <2> QED
      BY <2>1, QuietOrder DEF Serving, InOrder, Unsettled
  <1>7. CASE TierNotFound(s)
    <2>1. /\ task[s].pc = "lookup" /\ writes' = writes
          /\ task'[s].pc = "fail"
          /\ task'[s].p = task[s].p /\ task'[s].todo = task[s].todo
      BY <1>7, GoToEffect DEF TierNotFound
    <2> QED
      BY <2>1, QuietOrder DEF Serving, InOrder, Unsettled
  <1>8. CASE ReadUsedCount(s)
    <2>1. /\ task[s].pc = "promo" /\ writes' = writes
          /\ task'[s].pc = "count"
          /\ task'[s].p = task[s].p /\ task'[s].todo = task[s].todo
      BY <1>8, CountEffect
    <2> QED
      BY <2>1, QuietOrder DEF Serving
  <1>9. CASE MarkActivationFailed(s)
    <2>1. /\ task[s].pc = "fail" /\ task[s].p \in Payments
          /\ \/ writes'[s].status = writes[s].status
             \/ writes'[s].status = [writes[s].status EXCEPT ![task[s].p] = "FAILED"]
          /\ writes'[s].applied = writes[s].applied
          /\ writes'[s].released = writes[s].released
          /\ task'[s].p = None
          /\ task'[s].pc \in {"peek", "commit"} /\ task'[s].todo = task[s].todo
      BY <1>9, FailEffect DEF SameButStatus, Assigned
    <2>2. CASE writes'[s].status = [writes[s].status EXCEPT ![task[s].p] = "FAILED"]
      BY <2>1, <2>2, SettleOrder DEF Serving
    <2>3. CASE writes'[s].status = writes[s].status
      BY <2>1, <2>3, SameStatus
    <2> QED
      BY <2>1, <2>2, <2>3
  <1>10. CASE MarkCancelled(s)
    <2>1. /\ task[s].pc = "cancel" /\ task[s].p \in Payments
          /\ writes'[s].status = [writes[s].status EXCEPT ![task[s].p] = "CANCELLED"]
          /\ writes'[s].applied = writes[s].applied
          /\ writes'[s].released \subseteq writes[s].released \cup {task[s].p}
          /\ task'[s].p = None
          /\ task'[s].pc \in {"peek", "commit"} /\ task'[s].todo = task[s].todo
      BY <1>10, CancelEffect DEF SameButStatus, Assigned
    <2> QED
      BY <2>1, SettleOrder DEF Serving
  <1>11. CASE RenewSubscription(s) \/ CreateSubscription(s)
    <2>1. /\ task[s].pc = "activate" /\ task[s].p \in Payments
          /\ writes'[s].status = [writes[s].status EXCEPT ![task[s].p] = "SUCCEEDED"]
          /\ writes'[s].applied = writes[s].applied
          /\ writes'[s].released = writes[s].released
          /\ task'[s].pc = (IF task[s].p \in Promo THEN "promo" ELSE "notify")
          /\ task'[s].p = task[s].p /\ task'[s].todo = task[s].todo
      <3>1. GoTo(s, IF task[s].p \in Promo THEN "promo" ELSE "notify")
        BY <1>11 DEF RenewSubscription, CreateSubscription, Activated
      <3> QED
        BY <1>11, <3>1, GoToEffect, RenewEffect, CreateEffect DEF Assigned
    <2> QED
      BY <2>1, SettleOrder DEF Serving
  <1>12. CASE ConfirmUsage(s)
    <2>1. /\ task[s].pc = "count"
          /\ writes'[s].status = writes[s].status
          /\ writes'[s].released = writes[s].released
          /\ writes'[s].applied = writes[s].applied \cup {task[s].p}
          /\ task'[s].p = task[s].p
          /\ task'[s].pc = "notify" /\ task'[s].todo = task[s].todo
      BY <1>12, ConfirmEffect
    <2>2. writes[s].status[task[s].p] = "SUCCEEDED"
      BY <2>1 DEF InOrder, Unsettled
    <2>3. Clean(s)' /\ Unsettled(s)'
      BY <2>1 DEF InOrder, Clean, Unsettled, Serving
    <2>4. HandsKept(s)
      BY <2>1 DEF HandsKept, InHand, Claims
    <2>5. UsagesFollow(s)'
      BY <2>1, <2>2 DEF InOrder, UsagesFollow
    <2> QED
      BY <2>3, <2>4, <2>5 DEF InOrder
  <1>13. CASE SendSuccessNotification(s)
    <2>1. /\ task[s].pc = "notify"
          /\ writes'[s].status = writes[s].status
          /\ writes'[s].released = writes[s].released
          /\ writes'[s].applied = writes[s].applied
          /\ task'[s].p = None
          /\ task'[s].pc \in {"peek", "commit"} /\ task'[s].todo = task[s].todo
      BY <1>13, NotifyEffect DEF SameButStatus
    <2> QED
      BY <2>1, SameStatus
  <1> QED
    BY <1>1, <1>2, <1>3, <1>4, <1>5, <1>6, <1>7, <1>8, <1>9, <1>10, <1>11, <1>12,
       <1>13 DEF Work

(* A session begins with nothing flushed, and with payments that are open, *)
(* or with one that it has yet to make.                                    *)
LEMMA EnterOrder ==
    ASSUME IInv, NEW s \in Sessions, InOrder(s), Enter(s)
    PROVE  /\ InOrder(s)' /\ status' = status
           /\ \A p \in Payments : InHand(s, p)' =>
                 IF Claims(s, p)'
                 THEN status[p] = "NONE" /\ task'[s].p = p /\ ~Reusable(p)
                 ELSE status[p] \in {"PENDING", "FAILED"}
  <1>1. TypeOK /\ AgreesWithProvider
    BY OrderFacts
  <1> DEFINE Begun == \A p \in Payments : InHand(s, p)' =>
                        IF Claims(s, p)'
                        THEN status[p] = "NONE" /\ task'[s].p = p /\ ~Reusable(p)
                        ELSE status[p] \in {"PENDING", "FAILED"}
  <1>0. ASSUME task[s].pc = "idle", writes' = writes
        PROVE  /\ writes'[s] = NoWrites
               /\ \A q \in Payments : writes'[s].status[q] = None
               /\ \A q \in Promo : writes'[s].status[q] # "SUCCEEDED"
               /\ \A q \in Payments : writes'[s].status[q] # "NONE"
               /\ UsagesFollow(s)'
    <2>1. writes'[s] = NoWrites
      BY <1>0 DEF InOrder, Clean
    <2>2. \A q \in Payments : writes'[s].status[q] = None
      BY <2>1 DEF NoWrites
    <2>3. \A q \in Promo : writes'[s].status[q] # "SUCCEEDED"
      BY <2>2, NoneAssumption, OrdersAssumption DEF PaymentStatus
    <2>4. \A q \in Payments : writes'[s].status[q] # "NONE"
      BY <2>2, NoneAssumption DEF PaymentStatus
    <2> QED
      BY <2>1, <2>2, <2>3, <2>4 DEF UsagesFollow, NoWrites
  <1>2. ASSUME NEW pc \in {"peek", "verify"}, NEW kind, NEW p, NEW todo,
               Begin(s, pc, kind, p, todo), p \in Payments \/ p = None,
               pc = "verify" => todo = {} /\ status[p] \in {"PENDING", "FAILED"}
                                /\ p \in Payments,
               pc = "peek" => p = None,
               \A q \in todo : q \in Payments /\ status[q] = "PENDING"
        PROVE  InOrder(s)' /\ status' = status /\ Begun
    <2>1. /\ task'[s].pc = pc /\ task'[s].p = p /\ task'[s].todo = todo
          /\ writes' = writes /\ status' = status /\ task[s].pc = "idle"
      BY <1>1, <1>2, BeginEffect DEF database
    <2>2. \A q \in Payments : writes'[s].status[q] = None
      BY <1>0, <2>1
    <2>4. Clean(s)' /\ Unsettled(s)'
      BY <1>2, <2>1, <2>2 DEF Clean, Unsettled, Serving
    <2>5. Begun
      BY <1>2, <2>1, <2>2, NoneAssumption DEF InHand, Claims, PaymentStatus
    <2> QED
      BY <1>0, <2>1, <2>4, <2>5 DEF InOrder
  <1>3. ASSUME NEW p \in Payments, FindPendingPayment(s, p)
        PROVE  InOrder(s)' /\ status' = status /\ Begun
    <2>1. /\ task'[s].pc = "create" /\ task'[s].p = p /\ task'[s].todo = {}
          /\ writes' = writes /\ status' = status /\ task[s].pc = "idle"
          /\ provider[p] = "none" /\ ~Reusable(p)
      BY <1>1, <1>3, FindEffect DEF database
    <2>2. writes'[s] = NoWrites /\ \A q \in Payments : writes'[s].status[q] = None
      BY <1>0, <2>1
    <2>4. status[p] = "NONE"
      BY <1>1, <2>1 DEF AgreesWithProvider, TypeOK, PaymentStatus
    <2>5. Clean(s)' /\ Unsettled(s)'
      BY <2>1, <2>2 DEF Clean, Unsettled, Serving
    <2>6. Begun
      BY <2>1, <2>2, <2>4, NoneAssumption DEF InHand, Claims, PaymentStatus
    <2> QED
      BY <1>0, <2>1, <2>5, <2>6 DEF InOrder
  <1>4. CASE ReconcilePendingPayments(s)
    BY <1>2, <1>4 DEF ReconcilePendingPayments, PendingPayments
  <1>5. ASSUME NEW p \in Payments, OpenReturnPage(s, p)
        PROVE  InOrder(s)' /\ status' = status /\ Begun
    BY <1>2, <1>5 DEF OpenReturnPage
  <1>6. ASSUME NEW p \in Payments, HandlePaymentSuccess(s, p) \/ HandlePaymentCancel(s, p)
        PROVE  InOrder(s)' /\ status' = status /\ Begun
    BY <1>2, <1>6 DEF HandlePaymentSuccess, HandlePaymentCancel
  <1> QED
    BY <1>3, <1>4, <1>5, <1>6, Zenon DEF Enter

-----------------------------------------------------------------------------
(***************************************************************************)
(* The sessions against each other: what a session has in hand is still    *)
(* open as long as no second session had it in hand too.                   *)
(***************************************************************************)
HandsOpen(s) ==
    \A p \in Payments : Undisputed(p) /\ InHand(s, p) =>
        IF Claims(s, p) THEN status[p] = "NONE" ELSE status[p] \in {"PENDING", "FAILED"}
HandsInv == MeetInv /\ \A s \in Sessions : InOrder(s) /\ HandsOpen(s)

(* Only a commit changes the tables.                                       *)
LEMMA WorkKeepsBooks ==
    ASSUME TypeOK, Assigned, NEW s \in Sessions, Enter(s) \/ Work(s), ~Commit(s)
    PROVE  UNCHANGED database
  <1>1. CASE Enter(s)
    BY <1>1 DEF Enter, ReconcilePendingPayments, FindPendingPayment, OpenReturnPage,
       HandlePaymentSuccess, HandlePaymentCancel, Begin, database
  <1>2. CASE Work(s)
    BY <1>2 DEF Work, ProviderCreates, InsertPayment, PeekSucceeded, PeekCanceled,
       PeekNothing, VerifyOk, VerifyRefused, LookupSubscription, TierNotFound,
       MarkActivationFailed, RenewSubscription, CreateSubscription, ReadUsedCount,
       ConfirmUsage, SendSuccessNotification, SkipNotification, MarkCancelled,
       Rollback, database
  <1> QED
    BY <1>1, <1>2

LEMMA EnvironmentKeeps ==
    ASSUME Environment
    PROVE  UNCHANGED <<status, usage, usedCount, task, writes>>
  BY DEF Environment, Pay, ProviderCancels, RenameTier, RestoreTier, Lapse,
     CancelSubscription, database

(* A closed session has nothing in hand and is in order.                   *)
LEMMA CleanOrder ==
    ASSUME NEW s \in Sessions, task[s] = Idle, writes[s] = NoWrites
    PROVE  /\ InOrder(s)
           /\ \A p \in Payments : ~InHand(s, p) /\ ~Claims(s, p)
  <1>1. /\ task[s].pc = "idle" /\ task[s].p = None /\ task[s].todo = {}
        /\ writes[s].applied = {} /\ writes[s].released = {}
        /\ \A p \in Payments : writes[s].status[p] = None
    BY DEF Idle, NoWrites
  <1>2. /\ \A p \in Promo : writes[s].status[p] # "SUCCEEDED"
        /\ \A p \in Payments : writes[s].status[p] \notin {"NONE", "PENDING"} /\ p # None
    BY <1>1, NoneAssumption, OrdersAssumption DEF PaymentStatus
  <1>3. InOrder(s)
    BY <1>1, <1>2 DEF InOrder, Clean, Unsettled, Serving, UsagesFollow
  <1> QED
    BY <1>1, <1>2, <1>3 DEF InHand, Claims

LEMMA CleanOrderNext ==
    ASSUME NEW s \in Sessions, task'[s] = Idle, writes'[s] = NoWrites
    PROVE  /\ InOrder(s)'
           /\ \A p \in Payments : ~InHand(s, p)' /\ ~Claims(s, p)'
  <1>1. /\ task'[s].pc = "idle" /\ task'[s].p = None /\ task'[s].todo = {}
        /\ writes'[s].applied = {} /\ writes'[s].released = {}
        /\ \A p \in Payments : writes'[s].status[p] = None
    BY DEF Idle, NoWrites
  <1>2. /\ \A p \in Promo : writes'[s].status[p] # "SUCCEEDED"
        /\ \A p \in Payments : writes'[s].status[p] \notin {"NONE", "PENDING"} /\ p # None
    BY <1>1, NoneAssumption, OrdersAssumption DEF PaymentStatus
  <1>3. InOrder(s)'
    BY <1>1, <1>2 DEF InOrder, Clean, Unsettled, Serving, UsagesFollow
  <1> QED
    BY <1>1, <1>2, <1>3 DEF InHand, Claims

(* Whatever a session commits of a payment, it had the payment in hand; if *)
(* nobody else had, the payment was still open.                            *)
LEMMA CommitOpen ==
    ASSUME IInv, HandsInv, NEW s \in Sessions, NEW p \in Payments, Undisputed(p),
           writes[s].status[p] # None
    PROVE  /\ InHand(s, p) /\ status[p] \in {"NONE", "PENDING", "FAILED"}
           /\ \A r \in Sessions \ {s} : ~InHand(r, p)
  <1>1. InHand(s, p)
    BY DEF InHand
  <1>2. status[p] \in {"NONE", "PENDING", "FAILED"}
    BY <1>1 DEF HandsInv, HandsOpen
  <1> QED
    BY <1>1, <1>2, Meets DEF HandsInv, Undisputed

LEMMA OtherHands ==
    ASSUME IInv, NEW s \in Sessions, Enter(s) \/ Work(s), NEW r \in Sessions, r # s
    PROVE  /\ InOrder(r) => InOrder(r)'
           /\ \A p \in Payments : /\ InHand(r, p)' <=> InHand(r, p)
                                  /\ Claims(r, p)' <=> Claims(r, p)
  <1>1. task'[r] = task[r] /\ writes'[r] = writes[r]
    BY OthersKeep DEF IInv
  <1> QED
    BY <1>1 DEF InOrder, Clean, Unsettled, Serving, UsagesFollow, InHand, Claims

LEMMA HandsNext ==
    ASSUME IInv, HandsInv, [HNext]_historyVars
    PROVE  HandsInv'
  <1>0. /\ [Next]_vars /\ TypeOK /\ Assigned
        /\ \A p \in Payments : Undisputed(p)' => Undisputed(p)
    BY HistoryGrows DEF IInv, SessionsAgree
  <1>9. MeetInv'
    BY MeetNext DEF HandsInv
  <1> SUFFICES ASSUME NEW r \in Sessions
               PROVE  InOrder(r)' /\ HandsOpen(r)'
    BY <1>9 DEF HandsInv
  <1>r. InOrder(r) /\ HandsOpen(r)
    BY DEF HandsInv
  <1>1. ASSUME UNCHANGED <<status, task, writes>>
        PROVE  InOrder(r)' /\ HandsOpen(r)'
    <2>1. InOrder(r)'
      BY <1>1, <1>r DEF InOrder, Clean, Unsettled, Serving, UsagesFollow
    <2>2. \A p \in Payments : (InHand(r, p)' <=> InHand(r, p)) /\ (Claims(r, p)' <=> Claims(r, p))
      BY <1>1 DEF InHand, Claims
    <2> QED
      BY <1>0, <1>1, <1>r, <2>1, <2>2 DEF HandsOpen
  <1>2. ASSUME NEW s \in Sessions, Enter(s) \/ Work(s)
        PROVE  InOrder(r)' /\ HandsOpen(r)'
    <2>1. CASE r = s /\ Enter(s)
      BY <1>0, <1>r, <2>1, EnterOrder DEF HandsOpen
    <2>2. CASE r = s /\ Work(s) /\ ~Commit(s) /\ ~Rollback(s)
      <3>1. InOrder(s)' /\ HandsKept(s) /\ status' = status
        BY <1>0, <1>r, <2>2, WorkOrder, WorkKeepsBooks DEF database
      <3> QED
        BY <1>0, <1>r, <2>2, <3>1 DEF HandsOpen, HandsKept
    <2>3. CASE r = s /\ (Commit(s) \/ Rollback(s))
      BY <1>0, <2>3, CloseEffect, CleanOrderNext DEF HandsOpen
    <2>4. CASE r # s
      <3>1. /\ InOrder(r)'
            /\ \A p \in Payments : /\ InHand(r, p)' <=> InHand(r, p)
                                   /\ Claims(r, p)' <=> Claims(r, p)
        BY <1>2, <1>r, <2>4, OtherHands
      <3>2. ASSUME NEW p \in Payments, Undisputed(p), InHand(r, p)
            PROVE  status'[p] = status[p]
        <4>1. CASE ~Commit(s)
          BY <1>0, <1>2, <4>1, WorkKeepsBooks DEF database
        <4>2. CASE Commit(s)
          <5>1. writes[s].status[p] = None
            BY <2>4, <3>2, CommitOpen
          <5> QED
            BY <4>2, <5>1 DEF Commit, Or
        <4> QED
          BY <4>1, <4>2
      <3> QED
        BY <1>0, <1>r, <3>1, <3>2 DEF HandsOpen
    <2> QED
      BY <1>2, <2>1, <2>2, <2>3, <2>4
  <1>3. CASE Environment
    BY <1>1, <1>3, EnvironmentKeeps
  <1>4. CASE UNCHANGED vars
    BY <1>1, <1>4 DEF vars
  <1> QED
    BY <1>0, <1>2, <1>3, <1>4 DEF Next

LEMMA HandsInit == HInit => HandsInv
  <1> SUFFICES ASSUME HInit PROVE HandsInv
    OBVIOUS
  <1>1. ASSUME NEW s \in Sessions
        PROVE  InOrder(s) /\ \A p \in Payments : ~InHand(s, p)
    BY CleanOrder DEF HInit, Init
  <1>2. MeetInv
    BY <1>1 DEF HInit, MeetInv, Meeting, Overlapped
  <1> QED
    BY <1>1, <1>2 DEF HandsInv, HandsOpen

LEMMA HandsAlways == HSpec => [](IInv /\ PeriodsInv /\ HandsInv)
  <1>1. HInit => IInv /\ PeriodsInv /\ HandsInv
    BY TypeInit, AgreeInit, PeriodsInit, HandsInit DEF IInv, HInit
  <1>2. IInv /\ PeriodsInv /\ HandsInv /\ [HNext]_historyVars
           => IInv' /\ PeriodsInv' /\ HandsInv'
    BY AgreeNext, PeriodsNext, HandsNext, HistoryGrows
  <1> QED
    BY <1>1, <1>2, PTL DEF HSpec

-----------------------------------------------------------------------------
(***************************************************************************)
(* Two open payments of one order: a checkout has looked for one before it *)
(* had its own payment made, so the second must have come in between.      *)
(***************************************************************************)
ClaimsMet(s) ==
    \A p, q \in Payments \ Promo :
        /\ Claims(s, p) /\ p # q /\ SameOrder(p, q) /\ status[q] = "PENDING"
        => Overlapped(p, q)
OneClaim(s) == \A p, q \in Payments : Claims(s, p) /\ Claims(s, q) => p = q
CheckoutInv ==
    /\ \A s \in Sessions : OneClaim(s) /\ ClaimsMet(s)
    /\ OneOpenPerOrder

LEMMA CheckoutQuiet ==
    ASSUME CheckoutInv, [HNext]_historyVars, status' = status,
           \A s \in Sessions, p \in Payments : Claims(s, p)' => Claims(s, p)
    PROVE  CheckoutInv'
  <1>1. \A p, q \in Payments : Overlapped(p, q) => Overlapped(p, q)'
    BY HistoryGrows
  <1>2. OneOpenPerOrder'
    BY <1>1 DEF CheckoutInv, OneOpenPerOrder
  <1>3. \A s \in Sessions : OneClaim(s)' /\ ClaimsMet(s)'
    BY <1>1 DEF CheckoutInv, OneClaim, ClaimsMet
  <1> QED
    BY <1>2, <1>3 DEF CheckoutInv

LEMMA CheckoutEnter ==
    ASSUME IInv, HandsInv, CheckoutInv, [HNext]_historyVars,
           NEW s \in Sessions, Enter(s)
    PROVE  CheckoutInv'
  <1>1. /\ status' = status
        /\ \A p, q \in Payments : Overlapped(p, q) => Overlapped(p, q)'
        /\ \A p \in Payments : Claims(s, p)' => task'[s].p = p /\ ~Reusable(p)
    <2>1. \A p \in Payments : Claims(s, p)' => InHand(s, p)'
      BY NoneAssumption DEF Claims, InHand, PaymentStatus
    <2> QED
      BY <2>1, EnterOrder, HistoryGrows DEF HandsInv
  <1>2. OneClaim(s)' /\ ClaimsMet(s)'
    BY <1>1 DEF OneClaim, ClaimsMet, Reusable
  <1>3. ASSUME NEW r \in Sessions, r # s
        PROVE  OneClaim(r)' /\ ClaimsMet(r)'
    <2>1. OneClaim(r) /\ ClaimsMet(r) /\ \A p \in Payments : Claims(r, p)' <=> Claims(r, p)
      BY <1>3, OtherHands DEF CheckoutInv
    <2> QED
      BY <1>1, <2>1 DEF OneClaim, ClaimsMet
  <1>4. OneOpenPerOrder'
    BY <1>1 DEF CheckoutInv, OneOpenPerOrder
  <1> QED
    BY <1>2, <1>3, <1>4 DEF CheckoutInv

(* A payment becomes PENDING when the checkout that claimed it commits.    *)
LEMMA CheckoutCommit ==
    ASSUME IInv, HandsInv, CheckoutInv, [HNext]_historyVars,
           NEW s \in Sessions, Commit(s)
    PROVE  CheckoutInv'
  <1>1. /\ MeetInv
        /\ \A p, q \in Payments : Overlapped(p, q) => Overlapped(p, q)' /\ Overlapped(q, p)'
    BY HistoryGrows DEF HandsInv, MeetInv
  <1>2. task'[s] = Idle /\ writes'[s] = NoWrites
    BY CloseEffect DEF IInv
  <1>3. ASSUME NEW p \in Payments, status'[p] = "PENDING"
        PROVE  status[p] = "PENDING" \/ (Claims(s, p) /\ InHand(s, p))
    BY <1>3, NoneAssumption DEF Commit, Or, Claims, InHand, PaymentStatus
  <1>4. ASSUME NEW r \in Sessions
        PROVE  OneClaim(r)' /\ ClaimsMet(r)'
    <2>1. CASE r = s
      BY <1>2, <2>1, CleanOrderNext DEF OneClaim, ClaimsMet
    <2>2. CASE r # s
      <3>1. OneClaim(r) /\ ClaimsMet(r) /\ \A p \in Payments : Claims(r, p)' <=> Claims(r, p)
        BY <2>2, OtherHands DEF CheckoutInv, Work
      <3>2. \A p \in Payments : Claims(r, p) => InHand(r, p)
        BY NoneAssumption DEF Claims, InHand, PaymentStatus
      <3>3. ASSUME NEW p \in Payments \ Promo, NEW q \in Payments \ Promo,
                   Claims(r, p), p # q, SameOrder(p, q), status'[q] = "PENDING"
            PROVE  Overlapped(p, q)
        <4>1. CASE status[q] = "PENDING"
          BY <3>1, <3>3, <4>1 DEF ClaimsMet
        <4>2. CASE InHand(s, q)
          BY <1>1, <2>2, <3>2, <3>3, <4>2, Meets
        <4> QED
          BY <1>3, <3>3, <4>1, <4>2
      <3> QED
        BY <1>1, <3>1, <3>3 DEF OneClaim, ClaimsMet, SameOrder
    <2> QED
      BY <2>1, <2>2
  <1>5. OneOpenPerOrder'
    <2> SUFFICES ASSUME NEW p \in Payments \ Promo, NEW q \in Payments \ Promo,
                        p # q, SameOrder(p, q),
                        status'[p] = "PENDING", status'[q] = "PENDING"
                 PROVE  Overlapped(p, q)'
      BY DEF OneOpenPerOrder, SameOrder
    <2>1. /\ OneClaim(s) /\ ClaimsMet(s) /\ OneOpenPerOrder
          /\ SameOrder(q, p)
      BY DEF CheckoutInv, SameOrder
    <2>2. CASE status[p] = "PENDING" /\ status[q] = "PENDING"
      BY <1>1, <2>1, <2>2 DEF OneOpenPerOrder
    <2>3. CASE Claims(s, p) /\ status[q] = "PENDING"
      BY <1>1, <2>1, <2>3 DEF ClaimsMet
    <2>4. CASE Claims(s, q) /\ status[p] = "PENDING"
      BY <1>1, <2>1, <2>4 DEF ClaimsMet
    <2>5. CASE Claims(s, p) /\ Claims(s, q)
      BY <2>1, <2>5 DEF OneClaim
    <2> QED
      BY <1>3, <2>2, <2>3, <2>4, <2>5
  <1> QED
    BY <1>4, <1>5 DEF CheckoutInv

LEMMA CheckoutNext ==
    ASSUME IInv, HandsInv, CheckoutInv, [HNext]_historyVars
    PROVE  CheckoutInv'
  <1>0. [Next]_vars /\ TypeOK /\ Assigned
    BY HistoryGrows DEF IInv, SessionsAgree
  <1>1. CASE UNCHANGED <<status, task, writes>>
    BY <1>1, CheckoutQuiet DEF Claims
  <1>2. ASSUME NEW s \in Sessions, Work(s), ~Commit(s)
        PROVE  CheckoutInv'
    <2>1. status' = status
      BY <1>0, <1>2, WorkKeepsBooks DEF database
    <2>2. ASSUME NEW p \in Payments, Claims(s, p)'
          PROVE  Claims(s, p)
      <3>1. CASE Rollback(s)
        BY <1>0, <2>2, <3>1, CloseEffect, CleanOrderNext
      <3>2. CASE ~Rollback(s)
        <4>1. InHand(s, p)'
          BY <2>2, NoneAssumption DEF Claims, InHand, PaymentStatus
        <4> QED
          BY <1>2, <2>2, <3>2, <4>1, WorkOrder DEF HandsInv, HandsKept
      <3> QED
        BY <3>1, <3>2
    <2>3. \A r \in Sessions, p \in Payments : Claims(r, p)' => Claims(r, p)
      BY <1>2, <2>2, OtherHands
    <2> QED
      BY <2>1, <2>3, CheckoutQuiet
  <1>3. CASE Environment
    BY <1>1, <1>3, EnvironmentKeeps
  <1>4. CASE UNCHANGED vars
    BY <1>1, <1>4 DEF vars
  <1> QED
    BY <1>0, <1>2, <1>3, <1>4, CheckoutEnter, CheckoutCommit DEF Next

(* A buyer has two open payments of one order only out of two checkouts    *)
(* that were under way at the same time, for any number of sessions.       *)
THEOREM OneOpenPayment == HSpec => []OneOpenPerOrder
  <1>1. HInit => CheckoutInv
    <2> SUFFICES ASSUME HInit PROVE CheckoutInv
      OBVIOUS
    <2>1. \A s \in Sessions, p \in Payments : ~Claims(s, p)
      BY CleanOrder DEF HInit, Init
    <2>2. \A p \in Payments : status[p] # "PENDING"
      BY DEF HInit, Init
    <2> QED
      BY <2>1, <2>2 DEF CheckoutInv, OneClaim, ClaimsMet, OneOpenPerOrder
  <1>2. IInv /\ HandsInv /\ CheckoutInv /\ [HNext]_historyVars => CheckoutInv'
    BY CheckoutNext
  <1>3. CheckoutInv => OneOpenPerOrder
    BY DEF CheckoutInv
  <1> QED
    BY <1>1, <1>2, <1>3, HandsAlways, PTL DEF HSpec

-----------------------------------------------------------------------------
(***************************************************************************)
(* Usages and counter.  used_count is read, incremented and written back:  *)
(* what a session has read stays right while no other session has a        *)
(* payment with a code in hand.                                            *)
(***************************************************************************)
Applied == {p \in Promo : usage[p].state = "APPLIED"}
NoPromoMet == \A p, q \in Promo : ~Overlapped(p, q)

CountsUsages(s) ==
    /\ IsFiniteSet(writes[s].applied)
    /\ writes[s].count # None <=> writes[s].applied # {}
CounterRead(s) ==
    LET count == Or(writes[s].count, usedCount)
    IN  /\ count = usedCount + Cardinality(writes[s].applied)
        /\ task[s].pc = "count" => task[s].count = count
UsageSettled == \A p \in Promo : Undisputed(p) =>
                  (usage[p].state = "APPLIED" <=> status[p] = "SUCCEEDED")
PromoInv ==
    /\ UsageSettled /\ IsFiniteSet(Applied)
    /\ \A s \in Sessions : CountsUsages(s)
    /\ NoPromoMet => /\ usedCount = Cardinality(Applied)
                     /\ \A s \in Sessions : CounterRead(s)

LEMMA WorkCounter ==
    ASSUME IInv, NEW s \in Sessions, InOrder(s), CountsUsages(s),
           Enter(s) \/ Work(s), ~Commit(s), ~Rollback(s)
    PROVE  CountsUsages(s)' /\ (CounterRead(s) => CounterRead(s)')
  <1>0. TypeOK /\ Assigned /\ writes[s].applied \subseteq Promo
    BY OrderFacts
  <1>1. CASE ReadUsedCount(s)
    <2>1. /\ writes' = writes /\ usedCount' = usedCount
          /\ task'[s].count = Or(writes[s].count, usedCount)
      BY <1>0, <1>1, CountEffect DEF database
    <2> QED
      BY <2>1 DEF CountsUsages, CounterRead
  <1>2. CASE ConfirmUsage(s)
    <2>1. /\ task[s].pc = "count" /\ task'[s].pc = "notify" /\ usedCount' = usedCount
          /\ writes'[s].applied = writes[s].applied \cup {task[s].p}
          /\ writes'[s].count = task[s].count + 1
      BY <1>0, <1>2, ConfirmEffect DEF database
    <2>2. task[s].p \notin writes[s].applied
      BY <2>1 DEF InOrder, Unsettled
    <2>3. /\ IsFiniteSet(writes'[s].applied)
          /\ Cardinality(writes'[s].applied) = Cardinality(writes[s].applied) + 1
      <3>1. IsFiniteSet(writes[s].applied)
        BY DEF CountsUsages
      <3>2. /\ IsFiniteSet(writes[s].applied \cup {task[s].p})
            /\ Cardinality(writes[s].applied \cup {task[s].p}) =
                  Cardinality(writes[s].applied) + 1
        BY <2>2, <3>1, FS_AddElement
      <3> QED
        BY <2>1, <3>2
    <2>4. task[s].count + 1 # None
      <3>1. task[s].count \in 0..MaxUsed
        BY <1>0 DEF TypeOK, Task
      <3>2. task[s].count + 1 \in Int
        BY <3>1, BoundsAssumption
      <3> QED
        BY <3>2, NoneAssumption
    <2>5. CountsUsages(s)'
      BY <2>1, <2>3, <2>4 DEF CountsUsages
    <2>6. ASSUME CounterRead(s)
          PROVE  CounterRead(s)'
      <3>1. task[s].count = usedCount + Cardinality(writes[s].applied)
        BY <2>1, <2>6 DEF CounterRead
      <3>2. usedCount \in Int /\ Cardinality(writes[s].applied) \in Int
        BY <1>0, FS_CardinalityType, BoundsAssumption DEF CountsUsages, TypeOK
      <3> QED
        BY <2>1, <2>3, <2>4, <3>1, <3>2 DEF CounterRead, Or
    <2> QED
      BY <2>5, <2>6
  <1>3. CASE ~ReadUsedCount(s) /\ ~ConfirmUsage(s)
    <2>1. /\ writes'[s].applied = writes[s].applied /\ writes'[s].count = writes[s].count
          /\ usedCount' = usedCount /\ task'[s].pc # "count"
      <3>1. CASE Enter(s)
        <4>1. ASSUME NEW p, NEW pc \in {"peek", "verify"}, NEW kind, NEW todo,
                     Begin(s, pc, kind, p, todo)
              PROVE  writes' = writes /\ UNCHANGED database /\ task'[s].pc # "count"
          BY <1>0, <4>1, BeginEffect
        <4> QED
          BY <1>0, <3>1, <4>1, FindEffect DEF Enter, ReconcilePendingPayments,
             OpenReturnPage, HandlePaymentSuccess, HandlePaymentCancel, database
      <3>2. CASE ProviderCreates(s) \/ VerifyOk(s) \/ TierNotFound(s)
        BY <1>0, <3>2, GoToEffect DEF ProviderCreates, VerifyOk, TierNotFound, database
      <3>3. CASE VerifyRefused(s)
        BY <1>0, <3>3, DoneEffect DEF VerifyRefused, database
      <3>4. CASE PeekSucceeded(s) \/ PeekCanceled(s) \/ PeekNothing(s)
        BY <1>0, <3>4, PeekEffect DEF database
      <3>5. CASE InsertPayment(s) \/ MarkActivationFailed(s) \/ MarkCancelled(s)
        BY <1>0, <3>5, InsertEffect, FailEffect, CancelEffect DEF database, SameButStatus
      <3>6. CASE SendSuccessNotification(s) \/ SkipNotification(s)
        BY <1>0, <3>6, NotifyEffect DEF database, SameButStatus
      <3>7. CASE LookupSubscription(s)
        BY <1>0, <3>7, LookupEffect DEF database
      <3>8. CASE RenewSubscription(s) \/ CreateSubscription(s)
        BY <1>0, <3>8, RenewEffect, CreateEffect DEF database
      <3> QED
        BY <1>3, <3>1, <3>2, <3>3, <3>4, <3>5, <3>6, <3>7, <3>8 DEF Work
    <2> QED
      BY <2>1 DEF CountsUsages, CounterRead
  <1> QED
    BY <1>1, <1>2, <1>3

(* A counter another session has in hand, or has counted, is not touched.  *)
LEMMA CounterApart ==
    ASSUME IInv, HandsInv, PromoInv, NoPromoMet, NEW s \in Sessions,
           NEW r \in Sessions, r # s, CounterRead(r), writes[s].count # None,
           NEW n \in Nat
    PROVE  /\ Or(writes[r].count, n) = n + Cardinality(writes[r].applied)
           /\ task[r].pc # "count"
  <1>1. PICK p \in Promo : InHand(s, p)
    <2>1. PICK p : p \in writes[s].applied
      BY DEF PromoInv, CountsUsages
    <2>2. p \in Promo /\ writes[s].status[p] = "SUCCEEDED"
      BY <2>1, OrderFacts DEF HandsInv, InOrder, UsagesFollow
    <2> QED
      BY <2>2, NoneAssumption DEF InHand, PaymentStatus
  <1>2. \A q \in Promo : ~InHand(r, q)
    BY <1>1, Meets, OrdersAssumption DEF HandsInv, NoPromoMet
  <1>3. writes[r].applied = {}
    <2>1. ASSUME NEW q \in writes[r].applied
          PROVE  FALSE
      <3>1. q \in Promo /\ writes[r].status[q] = "SUCCEEDED"
        BY <2>1, OrderFacts DEF HandsInv, InOrder, UsagesFollow
      <3> QED
        BY <1>2, <3>1, NoneAssumption DEF InHand, PaymentStatus
    <2> QED
      BY <2>1
  <1>4. writes[r].count = None
    BY <1>3 DEF PromoInv, CountsUsages
  <1>5. task[r].pc # "count"
    BY <1>2 DEF InHand, IInv, SessionsAgree, Assigned
  <1> QED
    BY <1>3, <1>4, <1>5, FS_EmptySet DEF Or

LEMMA CommitBooks ==
    ASSUME IInv, HandsInv, PromoInv, [HNext]_historyVars,
           NEW s \in Sessions, Commit(s)
    PROVE  PromoInv'
  <1> DEFINE w == writes[s]
  <1>0. /\ TypeOK /\ InOrder(s) /\ w.applied \subseteq Promo
        /\ \A p \in Payments : Undisputed(p)' => Undisputed(p)
        /\ NoPromoMet' => NoPromoMet
    BY OrderFacts, HistoryGrows, OrdersAssumption DEF HandsInv, NoPromoMet
  <1>1. /\ task[s].pc = "commit" /\ usedCount' = Or(w.count, usedCount)
        /\ task'[s] = Idle /\ writes'[s] = NoWrites
    BY <1>0, CloseEffect DEF Commit
  <1>2. \A p \in Promo : w.status[p] = "SUCCEEDED" <=> p \in w.applied
    BY <1>0, <1>1 DEF InOrder, UsagesFollow
  <1>3. ASSUME NEW p \in Promo
        PROVE  /\ p \in Payments /\ status'[p] = Or(w.status[p], status[p])
               /\ usage'[p] = IF p \in w.applied THEN [state |-> "APPLIED", bound |-> TRUE]
                              ELSE IF p \in w.released
                                   THEN [usage[p] EXCEPT !.state = "CANCELLED"]
                                   ELSE usage[p]
    BY OrdersAssumption DEF Commit
  <1>4. ASSUME NEW p \in Promo, Undisputed(p)
        PROVE  /\ usage'[p].state = "APPLIED" <=> status'[p] = "SUCCEEDED"
               /\ usage'[p].state = "APPLIED" <=> usage[p].state = "APPLIED" \/ p \in w.applied
               /\ ~(usage[p].state = "APPLIED" /\ p \in w.applied)
    <2>1. usage[p].state = "APPLIED" <=> status[p] = "SUCCEEDED"
      BY <1>4 DEF PromoInv, UsageSettled
    <2>2. w.status[p] # None => status[p] # "SUCCEEDED"
      BY <1>3, <1>4, CommitOpen
    <2>3. CASE p \in w.applied
      <3>1. /\ w.status[p] = "SUCCEEDED" /\ w.status[p] # None
            /\ usage'[p] = [state |-> "APPLIED", bound |-> TRUE]
        BY <1>2, <1>3, <2>3, NoneAssumption DEF PaymentStatus
      <3>2. usage'[p].state = "APPLIED"
        BY <3>1
      <3>3. status'[p] = w.status[p]
        BY <1>3, <3>1 DEF Or
      <3> QED
        BY <2>1, <2>2, <2>3, <3>1, <3>2, <3>3
    <2>4. CASE p \notin w.applied /\ p \in w.released
      <3>1. w.status[p] = "CANCELLED"
        BY <1>0, <2>4 DEF InOrder, UsagesFollow
      <3>2. usage'[p].state = "CANCELLED"
        BY <1>0, <1>3, <2>4 DEF TypeOK, PromoCodeUsage
      <3> QED
        BY <1>3, <2>1, <2>2, <2>4, <3>1, <3>2, NoneAssumption DEF Or, PaymentStatus
    <2>5. CASE p \notin w.applied /\ p \notin w.released
      BY <1>2, <1>3, <2>1, <2>2, <2>5 DEF Or
    <2> QED
      BY <2>3, <2>4, <2>5
  <1>5. UsageSettled'
    BY <1>0, <1>3, <1>4 DEF UsageSettled
  <1>6. IsFiniteSet(Applied')
    <2>1. ASSUME NEW p \in Applied'
          PROVE  p \in Applied \cup w.applied
      <3>1. p \in Promo /\ usage'[p].state = "APPLIED"
        BY DEF Applied
      <3>2. CASE p \in w.released /\ p \notin w.applied
        BY <1>0, <1>3, <3>1, <3>2 DEF TypeOK, PromoCodeUsage
      <3> QED
        BY <1>3, <3>1, <3>2 DEF Applied
    <2>2. IsFiniteSet(Applied) /\ IsFiniteSet(w.applied)
      BY DEF PromoInv, CountsUsages
    <2>3. IsFiniteSet(Applied \cup w.applied)
      BY <2>2, FS_Union
    <2>4. Applied' \in SUBSET (Applied \cup w.applied)
      BY <2>1
    <2> QED
      BY <2>3, <2>4, FS_Subset
  <1>7. ASSUME NEW r \in Sessions
        PROVE  CountsUsages(r)'
    <2>1. CASE r = s
      BY <1>1, <2>1, FS_EmptySet DEF CountsUsages, NoWrites
    <2>2. CASE r # s
      BY <1>0, <2>2, OthersKeep DEF Work, CountsUsages, PromoInv
    <2> QED
      BY <2>1, <2>2
  <1>8. ASSUME NoPromoMet'
        PROVE  usedCount' = Cardinality(Applied') /\ usedCount' \in Nat
    <2>0. NoPromoMet /\ \A p \in Promo : Undisputed(p)
      BY <1>0, <1>8 DEF NoPromoMet, Undisputed
    <2>1. /\ Applied' = Applied \cup w.applied /\ Applied \cap w.applied = {}
      BY <1>0, <1>4, <2>0 DEF Applied
    <2>2. IsFiniteSet(Applied) /\ IsFiniteSet(w.applied)
      BY DEF PromoInv, CountsUsages
    <2>3. Cardinality(Applied') = Cardinality(Applied) + Cardinality(w.applied)
      <3>1. /\ IsFiniteSet(Applied \cup w.applied)
            /\ Cardinality(Applied \cup w.applied) =
                  Cardinality(Applied) + Cardinality(w.applied) - Cardinality({})
        BY <2>1, <2>2, FS_Union
      <3> QED
        BY <2>1, <2>2, <3>1, FS_EmptySet, FS_CardinalityType
    <2>4. usedCount = Cardinality(Applied) /\ CounterRead(s)
      BY <2>0 DEF PromoInv
    <2>5. Cardinality(Applied') \in Nat
      BY <1>6, FS_CardinalityType
    <2> QED
      BY <1>1, <2>3, <2>4, <2>5 DEF CounterRead
  <1>9. ASSUME NoPromoMet', NEW r \in Sessions
        PROVE  CounterRead(r)'
    <2>1. CASE r = s
      <3>1. writes'[s].count = None /\ writes'[s].applied = {} /\ task'[s].pc = "idle"
        BY <1>1 DEF NoWrites, Idle
      <3> QED
        BY <1>8, <1>9, <2>1, <3>1, FS_EmptySet DEF CounterRead, Or
    <2>2. CASE r # s
      <3>1. task'[r] = task[r] /\ writes'[r] = writes[r] /\ CounterRead(r) /\ NoPromoMet
        BY <1>0, <1>9, <2>2, OthersKeep DEF Work, PromoInv
      <3>2. CASE w.count = None
        BY <1>1, <3>1, <3>2 DEF CounterRead, Or
      <3>3. CASE w.count # None
        <4> DEFINE n == usedCount'
        <4>1. n \in Nat
          BY <1>8, <1>9
        <4> HIDE DEF n
        <4>2. /\ Or(writes[r].count, n) = n + Cardinality(writes[r].applied)
              /\ task[r].pc # "count"
          BY <2>2, <3>1, <3>3, <4>1, CounterApart
        <4> QED
          BY <3>1, <4>2 DEF CounterRead, n
      <3> QED
        BY <3>2, <3>3
    <2> QED
      BY <2>1, <2>2
  <1> QED
    BY <1>5, <1>6, <1>7, <1>8, <1>9 DEF PromoInv

(* Between commits each session only adds to its own count.                *)
LEMMA PromoQuiet ==
    ASSUME PromoInv, [HNext]_historyVars, UNCHANGED <<status, usage, usedCount>>,
           \A s \in Sessions : CountsUsages(s)' /\ (CounterRead(s) => CounterRead(s)')
    PROVE  PromoInv'
  <1>1. /\ \A p \in Payments : Undisputed(p)' => Undisputed(p)
        /\ NoPromoMet' => NoPromoMet
    BY HistoryGrows, OrdersAssumption DEF NoPromoMet
  <1>2. UsageSettled' /\ Applied' = Applied
    BY <1>1, OrdersAssumption DEF PromoInv, UsageSettled, Applied
  <1> QED
    BY <1>1, <1>2 DEF PromoInv

LEMMA PromoNext ==
    ASSUME IInv, HandsInv, PromoInv, [HNext]_historyVars
    PROVE  PromoInv'
  <1>0. [Next]_vars /\ TypeOK /\ Assigned
    BY HistoryGrows DEF IInv, SessionsAgree
  <1>1. CASE UNCHANGED <<status, usage, usedCount, task, writes>>
    BY <1>1, PromoQuiet DEF PromoInv, CountsUsages, CounterRead
  <1>2. ASSUME NEW s \in Sessions, Enter(s) \/ Work(s), ~Commit(s)
        PROVE  PromoInv'
    <2>1. UNCHANGED <<status, usage, usedCount>>
      BY <1>0, <1>2, WorkKeepsBooks DEF database
    <2>2. CountsUsages(s)' /\ (CounterRead(s) => CounterRead(s)')
      <3>1. CASE Rollback(s)
        <4>1. writes'[s].count = None /\ writes'[s].applied = {} /\ task'[s].pc = "idle"
          BY <1>0, <3>1, CloseEffect DEF NoWrites, Idle
        <4>2. usedCount \in Nat
          BY <1>0, BoundsAssumption DEF TypeOK
        <4> QED
          BY <2>1, <4>1, <4>2, FS_EmptySet DEF CountsUsages, CounterRead, Or
      <3>2. CASE ~Rollback(s)
        BY <1>2, <3>2, WorkCounter DEF PromoInv, HandsInv
      <3> QED
        BY <3>1, <3>2
    <2>3. ASSUME NEW r \in Sessions, r # s
          PROVE  CountsUsages(r)' /\ (CounterRead(r) => CounterRead(r)')
      BY <1>0, <1>2, <2>1, <2>3, OthersKeep DEF PromoInv, CountsUsages, CounterRead
    <2> QED
      BY <2>1, <2>2, <2>3, PromoQuiet
  <1>3. CASE Environment
    BY <1>1, <1>3, EnvironmentKeeps
  <1>4. CASE UNCHANGED vars
    BY <1>1, <1>4 DEF vars
  <1> QED
    BY <1>0, <1>2, <1>3, <1>4, CommitBooks DEF Next

(* A usage is applied exactly when its payment has succeeded, unless two   *)
(* sessions had the payment in hand; used_count is the number of applied   *)
(* usages unless two payments with a code were in hand at once.            *)
THEOREM BooksBalance == HSpec => []PromoFollows
  <1>1. HInit => PromoInv
    <2> SUFFICES ASSUME HInit PROVE PromoInv
      OBVIOUS
    <2>1. /\ usedCount = 0 /\ \A p \in Payments : status[p] = "NONE"
          /\ \A p \in Promo : usage[p].state = "RESERVED"
          /\ \A s \in Sessions : /\ writes[s].applied = {} /\ writes[s].count = None
                                 /\ task[s].pc = "idle"
      BY DEF HInit, Init, NoWrites, Idle
    <2>2. Applied = {}
      BY <2>1 DEF Applied
    <2>3. UsageSettled
      BY <2>1, OrdersAssumption DEF UsageSettled
    <2>4. ASSUME NEW s \in Sessions
          PROVE  CountsUsages(s) /\ CounterRead(s)
      <3>1. /\ writes[s].applied = {} /\ writes[s].count = None
            /\ task[s].pc # "count" /\ usedCount = 0
        BY <2>1
      <3>2. IsFiniteSet({}) /\ Cardinality({}) = 0
        BY FS_EmptySet
      <3> QED
        BY <3>1, <3>2 DEF CountsUsages, CounterRead, Or
    <2>5. IsFiniteSet(Applied) /\ usedCount = Cardinality(Applied)
      BY <2>1, <2>2, FS_EmptySet
    <2> QED
      BY <2>3, <2>4, <2>5 DEF PromoInv
  <1>2. IInv /\ HandsInv /\ PromoInv /\ [HNext]_historyVars => PromoInv'
    BY PromoNext
  <1>3. PromoInv => PromoFollows
    BY DEF PromoInv, PromoFollows, UsageSettled, NoPromoMet, Applied
  <1> QED
    BY <1>1, <1>2, <1>3, HandsAlways, PTL DEF HSpec

-----------------------------------------------------------------------------
(***************************************************************************)
(* Periods.  Bags of payments stand in the table, in what sessions have    *)
(* flushed and in what they have read before they renew.  A payment nobody *)
(* else had in hand is in bags of one row only, and no bag has it twice.   *)
(***************************************************************************)
InTable(rows, i, b) == rows[i] # None /\ b = rows[i].paid
Attached(t, w, i, b) ==
    \/ w.insert[i] # None /\ b = w.insert[i].paid
    \/ w.paid[i] # None /\ b = w.paid[i]
    \/ t.pc = "activate" /\ t.active = i /\ b = t.base
AtHand(s, i, b) == InTable(subs, i, b) \/ Attached(task[s], writes[s], i, b)
Somewhere(i, b) == InTable(subs, i, b)
                   \/ \E s \in Sessions : Attached(task[s], writes[s], i, b)

OnceFor(p) ==
    /\ \A i \in SubIds, b \in Bag : InTable(subs, i, b) /\ b[p] > 0 =>
          b[p] = 1 /\ status[p] = "SUCCEEDED"
    /\ \A s \in Sessions, i \in SubIds, b \in Bag :
          Attached(task[s], writes[s], i, b) /\ b[p] > 0 =>
             b[p] = 1 /\ "SUCCEEDED" \in {status[p], writes[s].status[p]}
    /\ \A i, j \in SubIds, b, c \in Bag :
          Somewhere(i, b) /\ Somewhere(j, c) /\ b[p] > 0 /\ c[p] > 0 => i = j

(* A payment that has met no other session of its buyer is in a row of the *)
(* table, and every bag that may be written over that row has it too.      *)
Respects(t, w, i, p) ==
    /\ w.paid[i] # None => w.paid[i][p] > 0
    /\ t.pc = "activate" /\ t.active = i => t.base[p] > 0
KeptIn(i, p) == /\ subs[i] # None /\ subs[i].paid[p] > 0
                /\ \A r \in Sessions : Respects(task[r], writes[r], i, p)
Flushed(t, w, i, p) ==
    /\ w.paid[i] # None \/ (w.insert[i] # None /\ w.insert[i].paid[p] > 0)
    /\ Respects(t, w, i, p)
KeptFor(p) ==
    /\ status[p] = "SUCCEEDED" => \E i \in SubIds : KeptIn(i, p)
    /\ \A s \in Sessions : writes[s].status[p] = "SUCCEEDED" =>
          \E i \in SubIds : Flushed(task[s], writes[s], i, p)

(* Who has flushed a renewal has settled a payment that is part of it.     *)
PaidOwned(w) ==
    \A i \in SubIds : w.paid[i] # None =>
        \E q \in Payments : w.status[q] = "SUCCEEDED" /\ w.paid[i][q] > 0

BagsInv ==
    /\ \A p \in Payments : (Undisputed(p) => OnceFor(p)) /\ (Alone(p) => KeptFor(p))
    /\ \A s \in Sessions : PaidOwned(writes[s])

LEMMA OnceInherits ==
    ASSUME NEW p \in Payments, OnceFor(p),
           status[p] = "SUCCEEDED" => status'[p] = "SUCCEEDED",
           \A i \in SubIds, b \in Bag : InTable(subs', i, b) /\ b[p] > 0 =>
              status'[p] = "SUCCEEDED" /\ \E c \in Bag : c[p] = b[p] /\ Somewhere(i, c),
           \A s \in Sessions, i \in SubIds, b \in Bag :
              Attached(task'[s], writes'[s], i, b) /\ b[p] > 0 =>
                 /\ \E c \in Bag : c[p] = b[p] /\ AtHand(s, i, c)
                 /\ writes[s].status[p] = "SUCCEEDED" => writes'[s].status[p] = "SUCCEEDED"
    PROVE  OnceFor(p)'
  <1>1. \A i \in SubIds, b \in Bag : Somewhere(i, b) /\ b[p] > 0 => b[p] = 1
    BY DEF OnceFor, Somewhere
  <1>2. ASSUME NEW i \in SubIds, NEW b \in Bag, InTable(subs', i, b), b[p] > 0
        PROVE  b[p] = 1 /\ status'[p] = "SUCCEEDED"
    BY <1>1, <1>2
  <1>3. ASSUME NEW s \in Sessions, NEW i \in SubIds, NEW b \in Bag,
               Attached(task'[s], writes'[s], i, b), b[p] > 0
        PROVE  b[p] = 1 /\ "SUCCEEDED" \in {status'[p], writes'[s].status[p]}
    <2>1. PICK c \in Bag : c[p] = b[p] /\ AtHand(s, i, c)
      BY <1>3
    <2> QED
      BY <1>3, <2>1 DEF AtHand, OnceFor
  <1>4. ASSUME NEW i \in SubIds, NEW b \in Bag, Somewhere(i, b)', b[p] > 0
        PROVE  \E c \in Bag : c[p] > 0 /\ Somewhere(i, c)
    <2>1. CASE InTable(subs', i, b)
      BY <1>4, <2>1
    <2>2. ASSUME NEW s \in Sessions, Attached(task'[s], writes'[s], i, b)
          PROVE  \E c \in Bag : c[p] > 0 /\ Somewhere(i, c)
      BY <1>4, <2>2 DEF AtHand, Somewhere
    <2> QED
      BY <1>4, <2>1, <2>2 DEF Somewhere
  <1>5. ASSUME NEW i \in SubIds, NEW j \in SubIds, NEW b \in Bag, NEW c \in Bag,
               Somewhere(i, b)', Somewhere(j, c)', b[p] > 0, c[p] > 0
        PROVE  i = j
    BY <1>4, <1>5 DEF OnceFor
  <1> QED
    BY <1>2, <1>3, <1>5 DEF OnceFor

(* The first bag that gets the payment.                                    *)
LEMMA OnceFresh ==
    ASSUME NEW p \in Payments, NEW s \in Sessions, NEW i \in SubIds,
           writes'[s].status[p] = "SUCCEEDED",
           \A j \in SubIds, b \in Bag : InTable(subs', j, b) => ~(b[p] > 0),
           \A r \in Sessions, j \in SubIds, b \in Bag :
              Attached(task'[r], writes'[r], j, b) /\ b[p] > 0 =>
                 r = s /\ j = i /\ b[p] = 1
    PROVE  OnceFor(p)'
  BY DEF OnceFor, Somewhere

(* While a session activates a payment nobody else has, no bag has it yet. *)
LEMMA NowhereYet ==
    ASSUME IInv, HandsInv, NEW s \in Sessions, task[s].pc = "activate",
           NEW p \in Payments, p = task[s].p, Undisputed(p), OnceFor(p)
    PROVE  /\ \A i \in SubIds, b \in Bag : InTable(subs, i, b) => ~(b[p] > 0)
           /\ \A r \in Sessions, i \in SubIds, b \in Bag :
                 Attached(task[r], writes[r], i, b) => ~(b[p] > 0)
  <1>1. InHand(s, p) /\ writes[s].status[p] = None
    BY DEF InHand, HandsInv, InOrder, Unsettled, Serving
  <1>2. ~Claims(s, p)
    BY <1>1, NoneAssumption DEF Claims, PaymentStatus
  <1>3. status[p] # "SUCCEEDED"
    BY <1>1, <1>2 DEF HandsInv, HandsOpen
  <1>4. ASSUME NEW r \in Sessions
        PROVE  writes[r].status[p] # "SUCCEEDED"
    <2>1. CASE r = s
      BY <1>1, <2>1, NoneAssumption DEF PaymentStatus
    <2>2. CASE r # s
      <3>1. ~InHand(r, p)
        BY <1>1, <2>2, Meets DEF HandsInv, Undisputed
      <3> QED
        BY <3>1, NoneAssumption DEF InHand, PaymentStatus
    <2> QED
      BY <2>1, <2>2
  <1> QED
    BY <1>3, <1>4 DEF OnceFor

(* What a session sees of a row is a bag of the table or one of its own.   *)
LEMMA SeenAtHand ==
    ASSUME IInv, PeriodsInv, NEW s \in Sessions, NEW i \in SubIds, View(s)[i] # None
    PROVE  /\ View(s)[i].paid \in Bag
           /\ View(s)[i].paid = Or(writes[s].paid[i], Row(s, i).paid)
           /\ Row(s, i) # None
           /\ AtHand(s, i, View(s)[i].paid)
  <1>1. /\ Row(s, i) # None /\ View(s)[i].paid \in Bag
        /\ View(s)[i].paid = Or(writes[s].paid[i], Row(s, i).paid)
    BY ViewRow, ViewPaid DEF IInv
  <1> QED
    BY <1>1 DEF Row, Or, AtHand, InTable, Attached

(* Steps that leave rows and bags alone settle no payment as SUCCEEDED.    *)
LEMMA QuietStatus ==
    ASSUME IInv, NEW s \in Sessions, InOrder(s),
           \/ Enter(s)
           \/ ProviderCreates(s) \/ InsertPayment(s)
           \/ PeekSucceeded(s) \/ PeekCanceled(s) \/ PeekNothing(s)
           \/ VerifyOk(s) \/ VerifyRefused(s)
           \/ TierNotFound(s) \/ MarkActivationFailed(s)
           \/ ReadUsedCount(s) \/ ConfirmUsage(s)
           \/ SendSuccessNotification(s) \/ SkipNotification(s)
           \/ MarkCancelled(s)
    PROVE  \A q \in Payments : writes'[s].status[q] = "SUCCEEDED"
                                  <=> writes[s].status[q] = "SUCCEEDED"
  <1>0. /\ TypeOK /\ Assigned
        /\ writes[s].status \in [Payments -> PaymentStatus \cup {None}]
    BY OrderFacts
  <1>1. CASE Enter(s)
    <2>1. writes' = writes
      <3>1. ASSUME NEW p, NEW pc \in {"peek", "verify"}, NEW kind, NEW todo,
                   Begin(s, pc, kind, p, todo)
            PROVE  writes' = writes
        BY <1>0, <3>1, BeginEffect
      <3> QED
        BY <1>0, <1>1, <3>1, FindEffect DEF Enter, ReconcilePendingPayments,
           OpenReturnPage, HandlePaymentSuccess, HandlePaymentCancel
    <2> QED
      BY <2>1
  <1>2. CASE \/ ProviderCreates(s) \/ VerifyOk(s) \/ TierNotFound(s)
             \/ VerifyRefused(s)
    BY <1>2 DEF ProviderCreates, VerifyOk, TierNotFound, VerifyRefused
  <1>3. CASE PeekSucceeded(s) \/ PeekCanceled(s) \/ PeekNothing(s)
    BY <1>0, <1>3, PeekEffect
  <1>4. CASE ReadUsedCount(s)
    BY <1>0, <1>4, CountEffect
  <1>5. CASE ConfirmUsage(s)
    BY <1>0, <1>5, ConfirmEffect
  <1>6. CASE SendSuccessNotification(s) \/ SkipNotification(s)
    BY <1>0, <1>6, NotifyEffect
  <1>7. ASSUME NEW p \in Payments, NEW st \in {"PENDING", "FAILED", "CANCELLED"},
               writes'[s].status = [writes[s].status EXCEPT ![p] = st],
               writes[s].status[p] = None
        PROVE  \A q \in Payments : writes'[s].status[q] = "SUCCEEDED"
                                      <=> writes[s].status[q] = "SUCCEEDED"
    BY <1>0, <1>7, NoneAssumption DEF PaymentStatus
  <1>8. task[s].pc \in {"insert", "fail", "cancel"} =>
           task[s].p \in Payments /\ writes[s].status[task[s].p] = None
    BY <1>0 DEF Assigned, InOrder, Unsettled, Serving
  <1>9. CASE InsertPayment(s) \/ MarkActivationFailed(s) \/ MarkCancelled(s)
    BY <1>0, <1>7, <1>8, <1>9, InsertEffect, FailEffect, CancelEffect
  <1> QED
    BY <1>1, <1>2, <1>3, <1>4, <1>5, <1>6, <1>9

(* Steps of session s that keep the tables.                                *)
LEMMA OthersBags ==
    ASSUME IInv, NEW s \in Sessions, Enter(s) \/ Work(s), ~Commit(s)
    PROVE  /\ status' = status /\ subs' = subs
           /\ \A r \in Sessions : r # s => task'[r] = task[r] /\ writes'[r] = writes[r]
  BY OthersKeep, WorkKeepsBooks DEF IInv, SessionsAgree, database

LEMMA BagsQuiet ==
    ASSUME IInv, HandsInv, BagsInv, [HNext]_historyVars, NEW s \in Sessions,
           status' = status, subs' = subs,
           \A r \in Sessions : r # s => task'[r] = task[r] /\ writes'[r] = writes[r],
           task'[s].pc # "activate",
           writes'[s].insert = writes[s].insert, writes'[s].paid = writes[s].paid,
           \A q \in Payments : writes'[s].status[q] = "SUCCEEDED"
                                  <=> writes[s].status[q] = "SUCCEEDED"
    PROVE  BagsInv'
  <1>0. \A p \in Payments : /\ Undisputed(p)' => Undisputed(p)
                            /\ Alone(p)' => Alone(p)
    BY HistoryGrows
  <1>1. ASSUME NEW p \in Payments, OnceFor(p)
        PROVE  OnceFor(p)'
    <2>1. ASSUME NEW r \in Sessions, NEW i \in SubIds, NEW b \in Bag,
                 Attached(task'[r], writes'[r], i, b)
          PROVE  AtHand(r, i, b)
      BY <2>1 DEF Attached, AtHand
    <2>2. \A i \in SubIds, b \in Bag : InTable(subs', i, b) => Somewhere(i, b)
      BY DEF Somewhere
    <2>3. \A i \in SubIds, b \in Bag : InTable(subs', i, b) /\ b[p] > 0 =>
             status'[p] = "SUCCEEDED"
      BY <1>1 DEF OnceFor
    <2>4. \A r \in Sessions : writes[r].status[p] = "SUCCEEDED"
                                 => writes'[r].status[p] = "SUCCEEDED"
      OBVIOUS
    <2> QED
      BY <1>1, <2>1, <2>2, <2>3, <2>4, OnceInherits
  <1>2. ASSUME NEW p \in Payments, KeptFor(p)
        PROVE  KeptFor(p)'
    <2>1. \A r \in Sessions, i \in SubIds :
             Respects(task[r], writes[r], i, p) => Respects(task'[r], writes'[r], i, p)
      BY DEF Respects
    <2>2. \A i \in SubIds : KeptIn(i, p) => KeptIn(i, p)'
      BY <2>1 DEF KeptIn
    <2>3. \A r \in Sessions, i \in SubIds :
             Flushed(task[r], writes[r], i, p) => Flushed(task'[r], writes'[r], i, p)
      BY <2>1 DEF Flushed
    <2> QED
      BY <1>2, <2>2, <2>3 DEF KeptFor
  <1>3. \A r \in Sessions : PaidOwned(writes[r]) => PaidOwned(writes'[r])
    BY DEF PaidOwned
  <1> QED
    BY <1>0, <1>1, <1>2, <1>3 DEF BagsInv

LEMMA BagsLookup ==
    ASSUME IInv, PeriodsInv, HandsInv, BagsInv, [HNext]_historyVars,
           NEW s \in Sessions, LookupSubscription(s)
    PROVE  BagsInv'
  <1>0. /\ TypeOK /\ \A p \in Payments : /\ Undisputed(p)' => Undisputed(p)
                                         /\ Alone(p)' => Alone(p)
    BY HistoryGrows DEF IInv
  <1>1. /\ status' = status /\ subs' = subs /\ writes' = writes
        /\ \A r \in Sessions : r # s => task'[r] = task[r]
        /\ task[s].pc = "lookup" /\ task'[s].pc = "activate"
    BY <1>0, LookupEffect, OthersBags DEF Work, Commit
  <1>2. ASSUME NEW i \in SubIds, task'[s].active = i
        PROVE  /\ task'[s].base = View(s)[i].paid /\ task'[s].base \in Bag
               /\ Row(s, i) # None /\ AtHand(s, i, task'[s].base)
               /\ task'[s].base = Or(writes[s].paid[i], Row(s, i).paid)
    <2>1. task'[s].active # None
      BY <1>2, NoneAssumption DEF SubIds
    <2>2. View(s)[i] # None /\ task'[s].base = View(s)[i].paid
      BY <1>0, <1>2, <2>1, LookupEffect
    <2> QED
      BY <2>2, SeenAtHand
  <1>3. ASSUME NEW p \in Payments, OnceFor(p)
        PROVE  OnceFor(p)'
    <2>1. ASSUME NEW r \in Sessions, NEW i \in SubIds, NEW b \in Bag,
                 Attached(task'[r], writes'[r], i, b)
          PROVE  AtHand(r, i, b)
      <3>1. CASE r = s /\ task'[s].active = i /\ b = task'[s].base
        BY <1>2, <3>1
      <3>2. CASE ~(r = s /\ task'[s].active = i /\ b = task'[s].base)
        BY <1>1, <2>1, <3>2 DEF Attached, AtHand
      <3> QED
        BY <3>1, <3>2
    <2>2. \A i \in SubIds, b \in Bag : InTable(subs', i, b) => Somewhere(i, b)
      BY <1>1 DEF Somewhere
    <2>3. \A i \in SubIds, b \in Bag : InTable(subs', i, b) /\ b[p] > 0 =>
             status'[p] = "SUCCEEDED"
      BY <1>1, <1>3 DEF OnceFor
    <2> QED
      BY <1>1, <1>3, <2>1, <2>2, <2>3, OnceInherits
  <1>4. ASSUME NEW p \in Payments, KeptFor(p)
        PROVE  KeptFor(p)'
    <2>1. ASSUME NEW r \in Sessions, NEW i \in SubIds,
                 Respects(task[r], writes[r], i, p),
                 \/ subs[i] # None /\ subs[i].paid[p] > 0
                 \/ r = s /\ writes[s].paid[i] # None
                 \/ r = s /\ writes[s].insert[i] # None /\ writes[s].insert[i].paid[p] > 0
          PROVE  Respects(task'[r], writes'[r], i, p)
      <3>1. CASE r = s /\ task'[s].active = i
        <4>1. writes[s].paid[i] = None => Row(s, i).paid[p] > 0
          <5>1. subs[i] # None => writes[s].insert[i] = None
            BY DEF PeriodsInv, InsertsApart
          <5> QED
            BY <2>1, <3>1, <5>1 DEF Row, Or
        <4> QED
          BY <1>1, <1>2, <2>1, <3>1, <4>1 DEF Respects, Or
      <3>2. CASE ~(r = s /\ task'[s].active = i)
        BY <1>1, <2>1, <3>2 DEF Respects
      <3> QED
        BY <3>1, <3>2
    <2>2. \A i \in SubIds : KeptIn(i, p) => KeptIn(i, p)'
      BY <1>1, <2>1 DEF KeptIn
    <2>3. ASSUME NEW r \in Sessions, NEW i \in SubIds, Flushed(task[r], writes[r], i, p)
          PROVE  Flushed(task'[r], writes'[r], i, p)
      <3>1. CASE r = s
        BY <1>1, <2>1, <2>3, <3>1 DEF Flushed
      <3>2. CASE r # s
        BY <1>1, <2>3, <3>2 DEF Flushed
      <3> QED
        BY <3>1, <3>2
    <2> QED
      BY <1>1, <1>4, <2>2, <2>3 DEF KeptFor
  <1> QED
    BY <1>0, <1>1, <1>3, <1>4 DEF BagsInv

LEMMA BagsRenew ==
    ASSUME IInv, PeriodsInv, HandsInv, BagsInv, [HNext]_historyVars,
           NEW s \in Sessions, RenewSubscription(s)
    PROVE  BagsInv'
  <1>3. PICK p \in Payments : p = task[s].p
    BY DEF RenewSubscription, IInv, SessionsAgree, Assigned
  <1> DEFINE w == writes[s]
             bag == [task[s].base EXCEPT ![p] = task[s].base[p] + 1]
  <1>0. /\ TypeOK /\ Assigned
        /\ \A q \in Payments : /\ Undisputed(q)' => Undisputed(q)
                               /\ Alone(q)' => Alone(q)
        /\ w.status \in [Payments -> PaymentStatus \cup {None}]
        /\ w.paid \in [SubIds -> Bag \cup {None}]
    BY HistoryGrows, OrderFacts DEF IInv, SessionsAgree, HandsInv, TypeOK, Writes
  <1>1. PICK i \in SubIds : i = task[s].active
    BY <1>0, RenewEffect
  <1>2. /\ task[s].pc = "activate"
        /\ writes'[s].status = [w.status EXCEPT ![p] = "SUCCEEDED"]
        /\ writes'[s].insert = w.insert
        /\ writes'[s].paid = [w.paid EXCEPT ![i] = bag]
        /\ task'[s].pc # "activate"
    BY <1>0, <1>1, <1>3, RenewEffect
  <1>4. /\ task[s].base \in Bag /\ bag \in Bag /\ bag # None
        /\ \A q \in Payments : bag[q] = IF q = p THEN task[s].base[q] + 1
                                        ELSE task[s].base[q]
        /\ \A q \in Payments : task[s].base[q] \in Int /\ task[s].base[q] >= 0
    <2>1. task[s].base \in Bag /\ task[s].base[p] < MaxGrants
      BY <1>0, <1>3, ActiveType DEF RenewSubscription
    <2>2. \A q \in Payments : task[s].base[q] \in 0..MaxGrants
      BY <2>1 DEF Bag
    <2>3. task[s].base[p] + 1 \in 0..MaxGrants
      BY <1>3, <2>1, <2>2, BoundsAssumption
    <2>4. bag \in Bag
      BY <2>1, <2>3 DEF Bag
    <2> QED
      BY <1>3, <2>1, <2>2, <2>4, NoneAssumption, BoundsAssumption DEF Bag
  <1>5. /\ status' = status /\ subs' = subs
        /\ \A r \in Sessions : r # s => task'[r] = task[r] /\ writes'[r] = writes[r]
    BY OthersBags DEF Work, Commit, RenewSubscription
  <1>6. /\ \A j \in SubIds : writes'[s].paid[j] = IF j = i THEN bag ELSE w.paid[j]
        /\ \A q \in Payments : writes'[s].status[q] =
              IF q = p THEN "SUCCEEDED" ELSE w.status[q]
    BY <1>0, <1>2
  <1> HIDE DEF bag, w
  <1>7. ASSUME NEW r \in Sessions, NEW j \in SubIds, NEW b \in Bag,
               Attached(task'[r], writes'[r], j, b)
        PROVE  \/ Attached(task[r], writes[r], j, b)
               \/ r = s /\ j = i /\ b = bag
    <2>1. CASE r = s
      BY <1>2, <1>6, <1>7, <2>1 DEF Attached, w
    <2>2. CASE r # s
      BY <1>5, <1>7, <2>2
    <2> QED
      BY <2>1, <2>2
  <1>8. Attached(task[s], writes[s], i, task[s].base)
    BY <1>1, <1>2 DEF Attached
  <1>9. ASSUME NEW q \in Payments, OnceFor(q), q # p
        PROVE  OnceFor(q)'
    <2>1. ASSUME NEW r \in Sessions, NEW j \in SubIds, NEW b \in Bag,
                 Attached(task'[r], writes'[r], j, b)
          PROVE  /\ \E c \in Bag : c[q] = b[q] /\ AtHand(r, j, c)
                 /\ writes[r].status[q] = "SUCCEEDED" => writes'[r].status[q] = "SUCCEEDED"
      <3>1. \E c \in Bag : c[q] = b[q] /\ AtHand(r, j, c)
        BY <1>4, <1>7, <1>8, <1>9, <2>1 DEF AtHand
      <3>2. writes[r].status[q] = writes'[r].status[q]
        BY <1>5, <1>6, <1>9 DEF w
      <3> QED
        BY <3>1, <3>2
    <2>2. \A j \in SubIds, b \in Bag : InTable(subs', j, b) => Somewhere(j, b)
      BY <1>5 DEF Somewhere
    <2>3. \A j \in SubIds, b \in Bag : InTable(subs', j, b) /\ b[q] > 0 =>
             status'[q] = "SUCCEEDED"
      BY <1>5, <1>9 DEF OnceFor
    <2> QED
      BY <1>5, <1>9, <2>1, <2>2, <2>3, OnceInherits
  <1>10. ASSUME Undisputed(p), OnceFor(p)
         PROVE  OnceFor(p)'
    <2>1. /\ \A j \in SubIds, b \in Bag : InTable(subs, j, b) => ~(b[p] > 0)
          /\ \A r \in Sessions, j \in SubIds, b \in Bag :
                Attached(task[r], writes[r], j, b) => ~(b[p] > 0)
      BY <1>2, <1>3, <1>10, NowhereYet
    <2>2. bag[p] = 1
      <3>1. ~(task[s].base[p] > 0)
        BY <1>4, <1>8, <2>1
      <3> QED
        BY <1>3, <1>4, <3>1
    <2>3. \A r \in Sessions, j \in SubIds, b \in Bag :
              Attached(task'[r], writes'[r], j, b) /\ b[p] > 0 =>
                 r = s /\ j = i /\ b[p] = 1
      BY <1>7, <2>1, <2>2
    <2> QED
      BY <1>3, <1>5, <1>6, <2>1, <2>3, OnceFresh
  <1>11. ASSUME NEW q \in Payments, KeptFor(q)
         PROVE  KeptFor(q)'
    <2>0. \A j \in SubIds : Respects(task[s], writes[s], j, q) =>
             Respects(task'[s], writes'[s], j, q)
      <3> SUFFICES ASSUME NEW j \in SubIds, Respects(task[s], writes[s], j, q)
                   PROVE  Respects(task'[s], writes'[s], j, q)
        OBVIOUS
      <3>1. CASE j = i
        <4>1. task[s].base[q] > 0
          BY <1>1, <1>2, <3>1 DEF Respects
        <4>2. bag[q] > 0
          BY <1>4, <4>1
        <4> QED
          BY <1>2, <1>6, <3>1, <4>2 DEF Respects
      <3>2. CASE j # i
        BY <1>2, <1>6, <3>2 DEF Respects, w
      <3> QED
        BY <3>1, <3>2
    <2>1. \A r \in Sessions, j \in SubIds :
             Respects(task[r], writes[r], j, q) => Respects(task'[r], writes'[r], j, q)
      BY <1>5, <2>0
    <2>2. \A j \in SubIds : KeptIn(j, q) => KeptIn(j, q)'
      BY <1>5, <2>1 DEF KeptIn
    <2>3. \A r \in Sessions, j \in SubIds :
             Flushed(task[r], writes[r], j, q) => Flushed(task'[r], writes'[r], j, q)
      <3>1. \A j \in SubIds : w.paid[j] # None => writes'[s].paid[j] # None
        BY <1>4, <1>6
      <3>2. \A j \in SubIds : Flushed(task[s], writes[s], j, q)
                                 => Flushed(task'[s], writes'[s], j, q)
        BY <1>2, <2>0, <3>1 DEF Flushed, w
      <3> QED
        BY <1>5, <3>2
    <2>4. q = p => Flushed(task'[s], writes'[s], i, q)
      <3>1. CASE q = p
        <4>1. bag[q] > 0
          BY <1>4, <3>1
        <4> QED
          BY <1>2, <1>4, <1>6, <4>1 DEF Flushed, Respects
      <3> QED
        BY <3>1
    <2>5. ASSUME NEW r \in Sessions, writes'[r].status[q] = "SUCCEEDED"
          PROVE  \E j \in SubIds : Flushed(task'[r], writes'[r], j, q)
      <3>1. CASE r = s /\ q = p
        BY <2>4, <3>1
      <3>2. CASE ~(r = s /\ q = p)
        <4>1. writes[r].status[q] = "SUCCEEDED"
          BY <1>5, <1>6, <2>5, <3>2 DEF w
        <4> QED
          BY <1>11, <2>3, <4>1 DEF KeptFor
      <3> QED
        BY <3>1, <3>2
    <2> QED
      BY <1>5, <1>11, <2>2, <2>5 DEF KeptFor
  <1>12. ASSUME NEW r \in Sessions
         PROVE  PaidOwned(writes'[r])
    <2>1. CASE r # s
      BY <1>5, <2>1 DEF BagsInv
    <2>2. CASE r = s
      <3> SUFFICES ASSUME NEW j \in SubIds, writes'[s].paid[j] # None
                   PROVE  \E q \in Payments : /\ writes'[s].status[q] = "SUCCEEDED"
                                              /\ writes'[s].paid[j][q] > 0
        BY <2>2 DEF PaidOwned
      <3>1. CASE j = i
        <4>1. bag[p] > 0
          BY <1>3, <1>4
        <4> QED
          BY <1>3, <1>6, <3>1, <4>1
      <3>2. CASE j # i
        <4>1. PICK q \in Payments : w.status[q] = "SUCCEEDED" /\ w.paid[j][q] > 0
          BY <1>6, <3>2 DEF BagsInv, PaidOwned, w
        <4> QED
          BY <1>6, <3>2, <4>1
      <3> QED
        BY <3>1, <3>2
    <2> QED
      BY <2>1, <2>2
  <1> QED
    BY <1>0, <1>9, <1>10, <1>11, <1>12 DEF BagsInv

LEMMA BagsCreate ==
    ASSUME IInv, PeriodsInv, HandsInv, BagsInv, [HNext]_historyVars,
           NEW s \in Sessions, CreateSubscription(s)
    PROVE  BagsInv'
  <1>3. PICK p \in Payments : p = task[s].p
    BY DEF CreateSubscription, IInv, SessionsAgree, Assigned
  <1> DEFINE w == writes[s]
             row == [user |-> UserOf[p], tier |-> TierOf[p],
                     status |-> "ACTIVE", live |-> TRUE,
                     paid |-> [NoBag EXCEPT ![p] = 1]]
  <1>0. /\ TypeOK /\ Assigned
        /\ \A q \in Payments : /\ Undisputed(q)' => Undisputed(q)
                               /\ Alone(q)' => Alone(q)
        /\ w.status \in [Payments -> PaymentStatus \cup {None}]
        /\ w.insert \in [SubIds -> UserSubscription \cup {None}]
    BY HistoryGrows, OrderFacts DEF IInv, SessionsAgree, HandsInv, TypeOK, Writes
  <1>1. PICK new \in SubIds :
           /\ subs[new] = None
           /\ \A r \in Sessions : writes[r].insert[new] = None
           /\ writes'[s].insert = [w.insert EXCEPT ![new] = row]
    BY <1>0, <1>3, CreateEffect
  <1>2. /\ task[s].pc = "activate"
        /\ writes'[s].status = [w.status EXCEPT ![p] = "SUCCEEDED"]
        /\ writes'[s].paid = w.paid /\ task'[s].pc # "activate"
        /\ row \in UserSubscription
    BY <1>0, <1>3, CreateEffect
  <1>4. \A q \in Payments : row.paid[q] = IF q = p THEN 1 ELSE 0
    BY <1>3 DEF NoBag
  <1>5. /\ status' = status /\ subs' = subs
        /\ \A r \in Sessions : r # s => task'[r] = task[r] /\ writes'[r] = writes[r]
    BY OthersBags DEF Work, Commit, CreateSubscription
  <1> HIDE DEF row, w
  <1>6. /\ \A j \in SubIds : writes'[s].insert[j] = IF j = new THEN row ELSE w.insert[j]
        /\ \A q \in Payments : writes'[s].status[q] =
              IF q = p THEN "SUCCEEDED" ELSE w.status[q]
        /\ row # None
    BY <1>0, <1>1, <1>2, NoneAssumption
  <1>7. ASSUME NEW r \in Sessions, NEW j \in SubIds, NEW b \in Bag,
               Attached(task'[r], writes'[r], j, b)
        PROVE  \/ Attached(task[r], writes[r], j, b)
               \/ r = s /\ j = new /\ b = row.paid
    <2>1. CASE r = s
      BY <1>2, <1>6, <1>7, <2>1 DEF Attached, w
    <2>2. CASE r # s
      BY <1>5, <1>7, <2>2
    <2> QED
      BY <2>1, <2>2
  <1>8. w.paid[new] = None
    BY <1>1 DEF PeriodsInv, WritesPaid, Row, Or, w
  <1>9. ASSUME NEW q \in Payments, OnceFor(q), q # p
        PROVE  OnceFor(q)'
    <2>1. ASSUME NEW r \in Sessions, NEW j \in SubIds, NEW b \in Bag,
                 Attached(task'[r], writes'[r], j, b), b[q] > 0
          PROVE  /\ \E c \in Bag : c[q] = b[q] /\ AtHand(r, j, c)
                 /\ writes[r].status[q] = "SUCCEEDED" => writes'[r].status[q] = "SUCCEEDED"
      <3>1. \E c \in Bag : c[q] = b[q] /\ AtHand(r, j, c)
        BY <1>4, <1>7, <1>9, <2>1 DEF AtHand
      <3>2. writes[r].status[q] = writes'[r].status[q]
        BY <1>5, <1>6, <1>9 DEF w
      <3> QED
        BY <3>1, <3>2
    <2>2. \A j \in SubIds, b \in Bag : InTable(subs', j, b) => Somewhere(j, b)
      BY <1>5 DEF Somewhere
    <2>3. \A j \in SubIds, b \in Bag : InTable(subs', j, b) /\ b[q] > 0 =>
             status'[q] = "SUCCEEDED"
      BY <1>5, <1>9 DEF OnceFor
    <2> QED
      BY <1>5, <1>9, <2>1, <2>2, <2>3, OnceInherits
  <1>10. ASSUME Undisputed(p), OnceFor(p)
         PROVE  OnceFor(p)'
    <2>1. /\ \A j \in SubIds, b \in Bag : InTable(subs, j, b) => ~(b[p] > 0)
          /\ \A r \in Sessions, j \in SubIds, b \in Bag :
                Attached(task[r], writes[r], j, b) => ~(b[p] > 0)
      BY <1>2, <1>3, <1>10, NowhereYet
    <2>2. row.paid[p] = 1
      BY <1>3, <1>4
    <2>3. \A r \in Sessions, j \in SubIds, b \in Bag :
              Attached(task'[r], writes'[r], j, b) /\ b[p] > 0 =>
                 r = s /\ j = new /\ b[p] = 1
      BY <1>7, <2>1, <2>2
    <2> QED
      BY <1>3, <1>5, <1>6, <2>1, <2>3, OnceFresh
  <1>11. ASSUME NEW q \in Payments, KeptFor(q)
         PROVE  KeptFor(q)'
    <2>1. \A r \in Sessions, j \in SubIds :
             Respects(task[r], writes[r], j, q) => Respects(task'[r], writes'[r], j, q)
      BY <1>2, <1>5 DEF Respects, w
    <2>2. \A j \in SubIds : KeptIn(j, q) => KeptIn(j, q)'
      BY <1>5, <2>1 DEF KeptIn
    <2>3. \A r \in Sessions, j \in SubIds :
             Flushed(task[r], writes[r], j, q) => Flushed(task'[r], writes'[r], j, q)
      <3>1. \A j \in SubIds : w.insert[j] # None => writes'[s].insert[j] = w.insert[j]
        BY <1>1, <1>6 DEF w
      <3>2. \A j \in SubIds : Flushed(task[s], writes[s], j, q)
                                 => Flushed(task'[s], writes'[s], j, q)
        BY <1>2, <2>1, <3>1 DEF Flushed, w
      <3> QED
        BY <1>5, <3>2
    <2>4. q = p => Flushed(task'[s], writes'[s], new, q)
      BY <1>2, <1>4, <1>6, <1>8 DEF Flushed, Respects
    <2>5. ASSUME NEW r \in Sessions, writes'[r].status[q] = "SUCCEEDED"
          PROVE  \E j \in SubIds : Flushed(task'[r], writes'[r], j, q)
      <3>1. CASE r = s /\ q = p
        BY <2>4, <3>1
      <3>2. CASE ~(r = s /\ q = p)
        <4>1. writes[r].status[q] = "SUCCEEDED"
          BY <1>5, <1>6, <2>5, <3>2 DEF w
        <4> QED
          BY <1>11, <2>3, <4>1 DEF KeptFor
      <3> QED
        BY <3>1, <3>2
    <2> QED
      BY <1>5, <1>11, <2>2, <2>5 DEF KeptFor
  <1>12. ASSUME NEW r \in Sessions
         PROVE  PaidOwned(writes'[r])
    <2>1. CASE r # s
      BY <1>5, <2>1 DEF BagsInv
    <2>2. CASE r = s
      <3>1. \A q \in Payments : w.status[q] = "SUCCEEDED" => writes'[s].status[q] = "SUCCEEDED"
        BY <1>6
      <3> QED
        BY <1>2, <2>2, <3>1 DEF BagsInv, PaidOwned, w
    <2> QED
      BY <2>1, <2>2
  <1> QED
    BY <1>0, <1>9, <1>10, <1>11, <1>12 DEF BagsInv

(* Two sessions that could both write to a row would write to the same.    *)
LEMMA RowShared ==
    ASSUME PeriodsInv, NEW r \in Sessions, NEW s \in Sessions, r # s, NEW i \in SubIds,
           Row(r, i) # None, Row(s, i) # None
    PROVE  Row(r, i) = Row(s, i)
  BY DEF PeriodsInv, InsertsApart, Row, Or

(* Whoever may write over a row of a buyer has a payment of his in hand.   *)
LEMMA WriterHasBuyer ==
    ASSUME IInv, PeriodsInv, BagsInv, NEW r \in Sessions, NEW i \in SubIds,
           \/ writes[r].paid[i] # None
           \/ task[r].pc = "activate" /\ task[r].active = i
    PROVE  /\ Row(r, i) # None
           /\ \E q \in Payments : InHand(r, q) /\ UserOf[q] = Row(r, i).user
  <1>1. CASE writes[r].paid[i] # None
    <2>1. PICK q \in Payments : writes[r].status[q] = "SUCCEEDED" /\ writes[r].paid[i][q] > 0
      BY <1>1 DEF BagsInv, PaidOwned
    <2>2. Row(r, i) # None /\ Row(r, i).user = UserOf[q]
      BY <1>1, <2>1 DEF PeriodsInv, WritesPaid, PaidFor
    <2>3. InHand(r, q)
      BY <2>1, NoneAssumption DEF InHand, PaymentStatus
    <2> QED
      BY <2>2, <2>3
  <1>2. CASE task[r].pc = "activate" /\ task[r].active = i
    <2>1. i # None
      BY NoneAssumption DEF SubIds
    <2>2. Row(r, i) # None /\ Row(r, i).user = UserOf[task[r].p]
      BY <1>2, <2>1 DEF PeriodsInv, BasePaid
    <2>3. task[r].p \in Payments /\ InHand(r, task[r].p)
      BY <1>2 DEF IInv, SessionsAgree, Assigned, InHand
    <2> QED
      BY <2>2, <2>3
  <1> QED
    BY <1>1, <1>2

LEMMA ClosedBags ==
    ASSUME NEW t, NEW w, t = Idle, w = NoWrites
    PROVE  /\ PaidOwned(w)
           /\ \A i \in SubIds, p \in Payments : Respects(t, w, i, p)
           /\ \A i \in SubIds, b \in Bag : ~Attached(t, w, i, b)
           /\ \A p \in Payments : w.status[p] # "SUCCEEDED"
  <1>1. /\ t.pc = "idle" /\ \A p \in Payments : w.status[p] = None
        /\ \A i \in SubIds : w.insert[i] = None /\ w.paid[i] = None
    BY DEF Idle, NoWrites
  <1> QED
    BY <1>1, NoneAssumption DEF PaidOwned, Respects, Attached, PaymentStatus

(* The row in which the committed payment's period lands.                  *)
LEMMA CommitKeeps ==
    ASSUME IInv, PeriodsInv, HandsInv, BagsInv, NEW s \in Sessions, Commit(s),
           NEW p \in Payments, Alone(p), KeptFor(p), writes[s].status[p] = "SUCCEEDED"
    PROVE  \E i \in SubIds : KeptIn(i, p)'
  <1>1. PICK i \in SubIds : Flushed(task[s], writes[s], i, p)
    BY DEF KeptFor
  <1>2. /\ Row(s, i) # None
        /\ writes[s].paid[i] = None => Row(s, i).paid[p] > 0
    BY <1>1 DEF Flushed, PeriodsInv, WritesPaid, Row, Or
  <1>3. /\ subs'[i] # None
        /\ subs'[i].paid = Or(writes[s].paid[i], Row(s, i).paid)
    <2>1. /\ View(s)[i] # None
          /\ View(s)[i].paid = Or(writes[s].paid[i], Row(s, i).paid)
      BY <1>2, ViewRow DEF IInv
    <2> QED
      BY <2>1 DEF Commit
  <1>4. subs'[i].paid[p] > 0
    BY <1>1, <1>2, <1>3 DEF Flushed, Respects, Or
  <1>5. Row(s, i).user = UserOf[p]
    BY <1>2, <1>3, <1>4, ViewPaid DEF PaidFor, Commit
  <1>6. ASSUME NEW r \in Sessions
        PROVE  Respects(task'[r], writes'[r], i, p)
    <2>1. CASE r = s
      BY <2>1, CloseEffect, ClosedBags DEF IInv
    <2>2. CASE r # s
      <3>1. InHand(s, p)
        BY NoneAssumption DEF InHand, PaymentStatus
      <3>2. task'[r] = task[r] /\ writes'[r] = writes[r]
        BY <2>2, OthersKeep DEF Work, IInv
      <3>3. ASSUME \/ writes[r].paid[i] # None
                   \/ task[r].pc = "activate" /\ task[r].active = i
            PROVE  FALSE
        <4>1. PICK q \in Payments : InHand(r, q) /\ UserOf[q] = UserOf[p]
          BY <1>2, <1>5, <2>2, <3>3, RowShared, WriterHasBuyer
        <4> QED
          BY <2>2, <3>1, <4>1, Meets DEF HandsInv, Alone
      <3> QED
        BY <3>2, <3>3 DEF Respects
    <2> QED
      BY <2>1, <2>2
  <1> QED
    BY <1>3, <1>4, <1>6 DEF KeptIn

LEMMA BagsCommit ==
    ASSUME IInv, PeriodsInv, HandsInv, BagsInv, [HNext]_historyVars,
           NEW s \in Sessions, Commit(s)
    PROVE  BagsInv'
  <1>0. /\ TypeOK /\ \A p \in Payments : /\ Undisputed(p)' => Undisputed(p)
                                         /\ Alone(p)' => Alone(p)
                                         /\ Alone(p) => Undisputed(p)
    BY HistoryGrows DEF IInv
  <1>1. /\ task'[s] = Idle /\ writes'[s] = NoWrites
        /\ PaidOwned(writes'[s])
        /\ \A i \in SubIds, p \in Payments : Respects(task'[s], writes'[s], i, p)
        /\ \A i \in SubIds, b \in Bag : ~Attached(task'[s], writes'[s], i, b)
        /\ \A p \in Payments : writes'[s].status[p] # "SUCCEEDED"
    BY <1>0, CloseEffect, ClosedBags
  <1>2. \A r \in Sessions : r # s => task'[r] = task[r] /\ writes'[r] = writes[r]
    BY <1>0, OthersKeep DEF Work
  <1>3. /\ \A p \in Payments : status'[p] = Or(writes[s].status[p], status[p])
        /\ subs' = View(s)
    BY DEF Commit
  <1>4. ASSUME NEW p \in Payments, Undisputed(p)
        PROVE  /\ status[p] = "SUCCEEDED" => writes[s].status[p] = None
               /\ "SUCCEEDED" \in {status[p], writes[s].status[p]} => status'[p] = "SUCCEEDED"
    <2>1. status[p] = "SUCCEEDED" => writes[s].status[p] = None
      BY <1>4, CommitOpen
    <2> QED
      BY <1>3, <2>1, NoneAssumption DEF Or, PaymentStatus
  <1>5. ASSUME NEW p \in Payments, Undisputed(p), OnceFor(p)
        PROVE  OnceFor(p)'
    <2>1. ASSUME NEW i \in SubIds, NEW b \in Bag, InTable(subs', i, b), b[p] > 0
          PROVE  status'[p] = "SUCCEEDED" /\ Somewhere(i, b)
      <3>1. AtHand(s, i, b)
        BY <1>3, <2>1, SeenAtHand DEF InTable
      <3>2. "SUCCEEDED" \in {status[p], writes[s].status[p]}
        BY <1>5, <2>1, <3>1 DEF AtHand, OnceFor
      <3> QED
        BY <1>4, <1>5, <3>1, <3>2 DEF AtHand, Somewhere
    <2>2. ASSUME NEW r \in Sessions, NEW i \in SubIds, NEW b \in Bag,
                 Attached(task'[r], writes'[r], i, b)
          PROVE  r # s /\ AtHand(r, i, b) /\ writes'[r] = writes[r]
      BY <1>1, <1>2, <2>2 DEF AtHand
    <2>3. status[p] = "SUCCEEDED" => status'[p] = "SUCCEEDED"
      BY <1>4, <1>5
    <2> QED
      BY <1>5, <2>1, <2>2, <2>3, OnceInherits
  <1>6. ASSUME NEW p \in Payments, Alone(p), KeptFor(p)
        PROVE  KeptFor(p)'
    <2>1. ASSUME status'[p] = "SUCCEEDED"
          PROVE  \E i \in SubIds : KeptIn(i, p)'
      <3>1. CASE writes[s].status[p] = "SUCCEEDED"
        BY <1>6, <3>1, CommitKeeps
      <3>2. CASE writes[s].status[p] # "SUCCEEDED"
        <4>1. status[p] = "SUCCEEDED"
          BY <1>3, <2>1, <3>2 DEF Or
        <4>2. PICK i \in SubIds : KeptIn(i, p)
          BY <1>6, <4>1 DEF KeptFor
        <4>3. Row(s, i) = subs[i] /\ Row(s, i) # None
          BY <4>2 DEF KeptIn, PeriodsInv, InsertsApart, Row, Or
        <4>4. subs'[i] # None /\ subs'[i].paid = Or(writes[s].paid[i], subs[i].paid)
          BY <1>0, <1>3, <4>3, ViewRow
        <4>5. subs'[i].paid[p] > 0
          BY <4>2, <4>4 DEF KeptIn, Respects, Or
        <4>6. \A r \in Sessions : Respects(task'[r], writes'[r], i, p)
          BY <1>1, <1>2, <4>2 DEF KeptIn
        <4> QED
          BY <4>4, <4>5, <4>6 DEF KeptIn
      <3> QED
        BY <3>1, <3>2
    <2>2. ASSUME NEW r \in Sessions, writes'[r].status[p] = "SUCCEEDED"
          PROVE  \E i \in SubIds : Flushed(task'[r], writes'[r], i, p)
      <3>1. r # s
        BY <1>1, <2>2
      <3> QED
        BY <1>2, <1>6, <2>2, <3>1 DEF KeptFor
    <2> QED
      BY <2>1, <2>2 DEF KeptFor
  <1>7. ASSUME NEW r \in Sessions
        PROVE  PaidOwned(writes'[r])
    BY <1>1, <1>2 DEF BagsInv
  <1> QED
    BY <1>0, <1>5, <1>6, <1>7 DEF BagsInv

(* Steps that settle nothing and keep or drop bags: rollbacks, the clock,  *)
(* the user, the admin and the provider.                                   *)
LEMMA BagsDrop ==
    ASSUME IInv, BagsInv, [HNext]_historyVars, status' = status,
           \A i \in SubIds : SamePaid(subs[i], subs'[i]) /\ SameOwner(subs[i], subs'[i]),
           \A r \in Sessions : \/ task'[r] = task[r] /\ writes'[r] = writes[r]
                               \/ task'[r] = Idle /\ writes'[r] = NoWrites
    PROVE  BagsInv'
  <1>0. \A p \in Payments : /\ Undisputed(p)' => Undisputed(p)
                            /\ Alone(p)' => Alone(p)
    BY HistoryGrows
  <1>1. \A i \in SubIds, b \in Bag : InTable(subs', i, b) => InTable(subs, i, b)
    BY DEF InTable, SamePaid
  <1>2. ASSUME NEW p \in Payments, OnceFor(p)
        PROVE  OnceFor(p)'
    <2>1. ASSUME NEW r \in Sessions, NEW i \in SubIds, NEW b \in Bag,
                 Attached(task'[r], writes'[r], i, b)
          PROVE  AtHand(r, i, b) /\ writes'[r] = writes[r]
      BY <2>1, ClosedBags DEF AtHand
    <2>2. \A i \in SubIds, b \in Bag : InTable(subs', i, b) /\ b[p] > 0 =>
             status'[p] = "SUCCEEDED" /\ Somewhere(i, b)
      BY <1>1, <1>2 DEF OnceFor, Somewhere
    <2> QED
      BY <1>2, <2>1, <2>2, OnceInherits
  <1>3. ASSUME NEW p \in Payments, KeptFor(p)
        PROVE  KeptFor(p)'
    <2>1. \A r \in Sessions, i \in SubIds :
             Respects(task[r], writes[r], i, p) => Respects(task'[r], writes'[r], i, p)
      BY ClosedBags
    <2>2. ASSUME NEW i \in SubIds, KeptIn(i, p)
          PROVE  KeptIn(i, p)'
      <3>1. subs'[i] # None /\ subs'[i].paid = subs[i].paid
        BY <2>2 DEF KeptIn, SameOwner, SamePaid
      <3> QED
        BY <2>1, <2>2, <3>1 DEF KeptIn
    <2>3. ASSUME NEW r \in Sessions, writes'[r].status[p] = "SUCCEEDED"
          PROVE  \E i \in SubIds : Flushed(task'[r], writes'[r], i, p)
      <3>1. task'[r] = task[r] /\ writes'[r] = writes[r]
        BY <2>3, ClosedBags
      <3> QED
        BY <1>3, <2>3, <3>1 DEF KeptFor
    <2> QED
      BY <1>3, <2>2, <2>3 DEF KeptFor
  <1>4. \A r \in Sessions : PaidOwned(writes'[r])
    BY ClosedBags DEF BagsInv
  <1> QED
    BY <1>0, <1>2, <1>3, <1>4 DEF BagsInv

LEMMA BagsNext ==
    ASSUME IInv, PeriodsInv, HandsInv, BagsInv, [HNext]_historyVars
    PROVE  BagsInv'
  <1>0. [Next]_vars /\ TypeOK
    BY HistoryGrows DEF IInv
  <1>1. CASE UNCHANGED vars
    BY <1>1, BagsDrop DEF vars, SamePaid, SameOwner
  <1>2. CASE Environment
    <2>1. \A i \in SubIds : SamePaid(subs[i], subs'[i]) /\ SameOwner(subs[i], subs'[i])
      BY <1>0, <1>2, EnvironmentRows
    <2> QED
      BY <1>2, <2>1, EnvironmentKeeps, BagsDrop
  <1>3. ASSUME NEW s \in Sessions, Rollback(s)
        PROVE  BagsInv'
    <2>1. /\ status' = status /\ subs' = subs
          /\ \A r \in Sessions \ {s} : task'[r] = task[r] /\ writes'[r] = writes[r]
          /\ task'[s] = Idle /\ writes'[s] = NoWrites
      BY <1>0, <1>3, OthersKeep, CloseEffect DEF Work, Rollback, database
    <2>2. \A i \in SubIds : SamePaid(subs[i], subs'[i]) /\ SameOwner(subs[i], subs'[i])
      BY <2>1 DEF SamePaid, SameOwner
    <2> QED
      BY <2>1, <2>2, BagsDrop
  <1>4. ASSUME NEW s \in Sessions,
               \/ Enter(s)
               \/ ProviderCreates(s) \/ InsertPayment(s)
               \/ PeekSucceeded(s) \/ PeekCanceled(s) \/ PeekNothing(s)
               \/ VerifyOk(s) \/ VerifyRefused(s)
               \/ TierNotFound(s) \/ MarkActivationFailed(s)
               \/ ReadUsedCount(s) \/ ConfirmUsage(s)
               \/ SendSuccessNotification(s) \/ SkipNotification(s)
               \/ MarkCancelled(s)
        PROVE  BagsInv'
    <2>1. /\ subs' = subs /\ task'[s].pc # "activate"
          /\ writes'[s].insert = writes[s].insert
          /\ writes'[s].paid = writes[s].paid
      BY <1>4, QuietSteps
    <2>2. \A q \in Payments : writes'[s].status[q] = "SUCCEEDED"
                                 <=> writes[s].status[q] = "SUCCEEDED"
      BY <1>4, QuietStatus DEF HandsInv
    <2>3. status' = status
      BY <1>4, EnterOrder DEF HandsInv, ProviderCreates, InsertPayment, PeekSucceeded,
         PeekCanceled, PeekNothing, VerifyOk, VerifyRefused, TierNotFound,
         MarkActivationFailed, ReadUsedCount, ConfirmUsage, SendSuccessNotification,
         SkipNotification, MarkCancelled, database
    <2>4. \A r \in Sessions : r # s => task'[r] = task[r] /\ writes'[r] = writes[r]
      BY <1>0, <1>4, OthersKeep DEF Work
    <2> QED
      BY <2>1, <2>2, <2>3, <2>4, BagsQuiet
  <1>5. ASSUME NEW s \in Sessions, Work(s)
        PROVE  BagsInv'
    BY <1>3, <1>4, <1>5, BagsLookup, BagsRenew, BagsCreate, BagsCommit DEF Work
  <1> QED
    BY <1>0, <1>1, <1>2, <1>4, <1>5 DEF Next

LEMMA BagsInit == HInit => BagsInv
  <1> SUFFICES ASSUME HInit PROVE BagsInv
    OBVIOUS
  <1>1. /\ \A i \in SubIds : subs[i] = None
        /\ \A p \in Payments : status[p] # "SUCCEEDED"
        /\ \A s \in Sessions : task[s] = Idle /\ writes[s] = NoWrites
    BY DEF HInit, Init
  <1>2. \A s \in Sessions : /\ PaidOwned(writes[s])
                            /\ \A i \in SubIds, b \in Bag : ~Attached(task[s], writes[s], i, b)
                            /\ \A p \in Payments : writes[s].status[p] # "SUCCEEDED"
    BY <1>1, ClosedBags
  <1>3. \A i \in SubIds, b \in Bag : ~Somewhere(i, b) /\ ~InTable(subs, i, b)
    BY <1>1, <1>2 DEF Somewhere, InTable
  <1> QED
    BY <1>1, <1>2, <1>3 DEF BagsInv, OnceFor, KeptFor

-----------------------------------------------------------------------------
(***************************************************************************)
(* From bags to periods.                                                   *)
(***************************************************************************)
LEMMA PeriodsFinite ==
    ASSUME NEW rows, NEW p
    PROVE  IsFiniteSet(Periods(rows, p))
  <1>1. IsFiniteSet(SubIds) /\ IsFiniteSet(1..MaxGrants)
    BY BoundsAssumption, FS_Interval DEF SubIds
  <1>2. IsFiniteSet(SubIds \X (1..MaxGrants))
    BY <1>1, FS_Product
  <1>3. Periods(rows, p) \in SUBSET (SubIds \X (1..MaxGrants))
    BY DEF Periods
  <1> QED
    BY <1>2, <1>3, FS_Subset

LEMMA GrantedOnce ==
    ASSUME TypeOK, NEW p \in Payments, OnceFor(p)
    PROVE  Granted(p) <= IF status[p] = "SUCCEEDED" THEN 1 ELSE 0
  <1>1. ASSUME NEW g \in Periods(subs, p)
        PROVE  /\ status[p] = "SUCCEEDED" /\ g = <<g[1], 1>> /\ g[1] \in SubIds
               /\ InTable(subs, g[1], subs[g[1]].paid) /\ subs[g[1]].paid \in Bag
               /\ subs[g[1]].paid[p] > 0
    <2>1. /\ g = <<g[1], g[2]>> /\ g[1] \in SubIds /\ g[2] \in 1..MaxGrants
          /\ subs[g[1]] # None /\ g[2] <= subs[g[1]].paid[p]
      BY DEF Periods
    <2>2. subs[g[1]].paid \in Bag /\ subs[g[1]].paid[p] \in 0..MaxGrants
      BY <2>1 DEF TypeOK, UserSubscription, Bag
    <2>3. subs[g[1]].paid[p] > 0
      BY <2>1, <2>2, BoundsAssumption
    <2>4. subs[g[1]].paid[p] = 1 /\ status[p] = "SUCCEEDED"
      BY <2>1, <2>2, <2>3 DEF OnceFor, InTable
    <2>5. g[2] = 1
      BY <2>1, <2>4, BoundsAssumption
    <2> QED
      BY <2>1, <2>2, <2>3, <2>4, <2>5 DEF InTable
  <1>2. CASE Periods(subs, p) = {}
    BY <1>2, FS_EmptySet DEF Granted
  <1>3. CASE Periods(subs, p) # {}
    <2>1. PICK g \in Periods(subs, p) : TRUE
      BY <1>3
    <2>2. ASSUME NEW h \in Periods(subs, p)
          PROVE  h = g
      <3>1. h[1] = g[1]
        BY <1>1 DEF OnceFor, Somewhere
      <3> QED
        BY <1>1, <3>1
    <2>3. Periods(subs, p) = {g}
      BY <2>1, <2>2
    <2>4. Cardinality({g}) = 1 /\ status[p] = "SUCCEEDED"
      BY <1>1, <2>1, FS_Singleton
    <2>5. Granted(p) = 1
      BY <2>3, <2>4 DEF Granted
    <2> QED
      BY <2>4, <2>5
  <1> QED
    BY <1>2, <1>3

LEMMA GrantedKept ==
    ASSUME NEW p \in Payments, NEW i \in SubIds, KeptIn(i, p), TypeOK
    PROVE  Granted(p) >= 1
  <1>1. subs[i] # None /\ subs[i].paid[p] \in 0..MaxGrants /\ subs[i].paid[p] > 0
    BY DEF KeptIn, TypeOK, UserSubscription, Bag
  <1>2. <<i, 1>> \in Periods(subs, p)
    BY <1>1, BoundsAssumption DEF Periods
  <1>3. IsFiniteSet(Periods(subs, p))
    BY PeriodsFinite
  <1>4. Cardinality(Periods(subs, p)) \in Nat
    BY <1>3, FS_CardinalityType
  <1>5. Cardinality(Periods(subs, p)) # 0
    BY <1>2, <1>3, FS_EmptySet
  <1> QED
    BY <1>4, <1>5 DEF Granted

LEMMA OnceAlways == HSpec => [](IInv /\ PeriodsInv /\ HandsInv /\ BagsInv)
  <1>1. IInv /\ PeriodsInv /\ HandsInv /\ BagsInv /\ [HNext]_historyVars => BagsInv'
    BY BagsNext
  <1> QED
    BY <1>1, BagsInit, HandsAlways, PTL DEF HSpec

LEMMA OncePaid == IInv /\ BagsInv => PaidOnce
  <1> SUFFICES ASSUME IInv, BagsInv, NEW p \in Payments
               PROVE  /\ Undisputed(p) => Granted(p) <= IF status[p] = "SUCCEEDED" THEN 1 ELSE 0
                      /\ Alone(p) /\ status[p] = "SUCCEEDED" => Granted(p) >= 1
    BY DEF PaidOnce
  <1>1. Undisputed(p) => Granted(p) <= IF status[p] = "SUCCEEDED" THEN 1 ELSE 0
    BY GrantedOnce DEF IInv, BagsInv
  <1>2. Alone(p) /\ status[p] = "SUCCEEDED" => Granted(p) >= 1
    BY GrantedKept DEF IInv, BagsInv, KeptFor
  <1> QED
    BY <1>1, <1>2

(* However sessions overlap, no payment has bought two periods that two    *)
(* sessions did not have in hand at once, and none has lost its period     *)
(* that met no other session of its buyer.                                 *)
THEOREM PaidExactlyOnce == HSpec => []PaidOnce
  BY OnceAlways, OncePaid, PTL

(* A payment that has met no other session of its buyer has its period     *)
(* exactly while it is SUCCEEDED.                                          *)
LEMMA GrantedExact ==
    ASSUME PaidOnce, NEW p \in Payments, Alone(p)
    PROVE  Granted(p) = IF status[p] = "SUCCEEDED" THEN 1 ELSE 0
  <1>1. Undisputed(p)
    BY DEF Alone, Undisputed
  <1>2. Granted(p) \in Nat
    BY PeriodsFinite, FS_CardinalityType DEF Granted
  <1> QED
    BY <1>1, <1>2 DEF PaidOnce

LEMMA GrantedExactNext ==
    ASSUME PaidOnce', NEW p \in Payments, Alone(p)'
    PROVE  Granted(p)' = IF status'[p] = "SUCCEEDED" THEN 1 ELSE 0
  <1>1. Undisputed(p)'
    BY DEF Alone, Undisputed
  <1>2. Granted(p)' \in Nat
    <2> DEFINE rows == subs'
    <2>1. Cardinality(Periods(rows, p)) \in Nat
      BY PeriodsFinite, FS_CardinalityType
    <2> QED
      BY <2>1 DEF Granted, Periods
  <1> QED
    BY <1>1, <1>2 DEF PaidOnce

(* A commit moves it as the ledger allows; nothing else moves it.          *)
LEMMA StatusMoves ==
    ASSUME IInv, HandsInv, [HNext]_historyVars, NEW p \in Payments, Alone(p)
    PROVE  \/ status'[p] = status[p]
           \/ status[p] = "NONE" /\ provider[p] # "none" /\ status'[p] = "PENDING"
           \/ /\ status[p] \in {"PENDING", "FAILED"} /\ provider[p] = "succeeded"
              /\ status'[p] \in {"SUCCEEDED", "FAILED"}
           \/ status[p] = "PENDING" /\ provider[p] = "canceled" /\ status'[p] = "CANCELLED"
  <1>0. [Next]_vars /\ TypeOK /\ Assigned /\ Undisputed(p) /\ AgreesWithProvider
    BY HistoryGrows DEF IInv, SessionsAgree
  <1>1. ASSUME NEW s \in Sessions, Commit(s), status'[p] # status[p]
        PROVE  \/ status[p] = "NONE" /\ provider[p] # "none" /\ status'[p] = "PENDING"
               \/ /\ status[p] \in {"PENDING", "FAILED"} /\ provider[p] = "succeeded"
                  /\ status'[p] \in {"SUCCEEDED", "FAILED"}
               \/ status[p] = "PENDING" /\ provider[p] = "canceled" /\ status'[p] = "CANCELLED"
    <2> DEFINE new == writes[s].status[p]
    <2>1. /\ new # None /\ status'[p] = new /\ task[s].pc = "commit"
      BY <1>1 DEF Commit, Or
    <2>2. InHand(s, p) /\ (Claims(s, p) <=> new = "PENDING")
      BY <2>1 DEF InHand, Claims
    <2>3. IF new = "PENDING" THEN status[p] = "NONE" ELSE status[p] \in {"PENDING", "FAILED"}
      BY <1>0, <2>2 DEF HandsInv, HandsOpen
    <2>4. new \in PaymentStatus /\ new # "NONE" /\ WritesAgree(s)
      BY <2>1, OrderFacts DEF HandsInv, InOrder, UsagesFollow, IInv, SessionsAgree
    <2>5. CASE new = "PENDING"
      BY <2>1, <2>3, <2>4, <2>5 DEF WritesAgree
    <2>6. CASE new \in {"SUCCEEDED", "FAILED"}
      BY <2>1, <2>3, <2>4, <2>6 DEF WritesAgree
    <2>7. CASE new = "CANCELLED"
      BY <1>0, <2>1, <2>3, <2>4, <2>7 DEF WritesAgree, AgreesWithProvider
    <2> QED
      BY <2>4, <2>5, <2>6, <2>7 DEF PaymentStatus
  <1>2. ASSUME NEW s \in Sessions, Enter(s) \/ Work(s), ~Commit(s)
        PROVE  status' = status
    BY <1>0, <1>2, WorkKeepsBooks DEF database
  <1> QED
    BY <1>0, <1>1, <1>2, EnvironmentKeeps DEF Next, vars

(* Whatever sessions do to other payments, crash or retry, a payment that  *)
(* met no other session of its buyer moves as PaymentLedger promises.      *)
THEOREM PaymentsRefineLedger == HSpec => FollowsLedger
  <1>1. IInv /\ HandsInv /\ PaidOnce /\ PaidOnce' /\ [HNext]_historyVars
           => [\A p \in Payments : Alone(p)' => LedgerStep(p)]_historyVars
    <2> SUFFICES ASSUME IInv, HandsInv, PaidOnce, PaidOnce', [HNext]_historyVars,
                        NEW p \in Payments, Alone(p)'
                 PROVE  LedgerStep(p)
      OBVIOUS
    <2>1. Alone(p)
      BY HistoryGrows
    <2>2. /\ Granted(p) = IF status[p] = "SUCCEEDED" THEN 1 ELSE 0
          /\ Granted(p)' = IF status'[p] = "SUCCEEDED" THEN 1 ELSE 0
      BY <2>1, GrantedExact, GrantedExactNext
    <2>3. \/ status'[p] = status[p]
          \/ status[p] = "NONE" /\ provider[p] # "none" /\ status'[p] = "PENDING"
          \/ /\ status[p] \in {"PENDING", "FAILED"} /\ provider[p] = "succeeded"
             /\ status'[p] \in {"SUCCEEDED", "FAILED"}
          \/ status[p] = "PENDING" /\ provider[p] = "canceled" /\ status'[p] = "CANCELLED"
      BY <2>1, StatusMoves
    <2> QED
      BY <2>2, <2>3 DEF LedgerStep, Ledger!Keeps, Ledger!Book, Ledger!Honour,
         Ledger!Refuse, Ledger!Drop
  <1> QED
    BY <1>1, OnceAlways, PaidExactlyOnce, PTL DEF HSpec, FollowsLedger
=============================================================================
