------------------------------ MODULE Payments ------------------------------
(***************************************************************************)
(* Subscription payments: PaymentService, its callers (the YooKassa        *)
(* webhook, the return and cancel pages, the admin check, the              *)
(* reconciliation job) and the rows they write.  Every caller is one       *)
(* database session: it reads rows, waits for the provider, flushes        *)
(* UPDATEs under row locks and commits.  Under READ COMMITTED nothing it   *)
(* read is protected while it waits, and ORM attributes once loaded are    *)
(* not refreshed.                                                          *)
(***************************************************************************)
EXTENDS Integers, FiniteSets

CONSTANTS
    Payments,    \* provider payment ids
    Sessions,    \* database sessions that may be open at the same time
    Workers,     \* those of them that run the reconciliation job
    Handlers,    \* those of them that serve requests
    Users, Tiers,
    UserOf, TierOf,    \* the buyer and the tier in each payment's metadata
    SortOrder,   \* subscription_tiers.sort_order
    Editable,    \* the tiers whose code an admin may change
    Promo,       \* payments whose metadata names a promo usage
    None,        \* NULL, no row, column not written
    MaxSubs,     \* bound: rows of user_subscriptions
    MaxGrants,   \* bound: periods one payment may add to one row
    MaxMessages, \* bound: from here on further success messages are not counted
    MaxUsed      \* bound: promo_codes.used_count

SubIds == 1..MaxSubs

ASSUME SessionsAssumption == Workers \cup Handlers \subseteq Sessions
ASSUME OrdersAssumption ==
    /\ UserOf \in [Payments -> Users]
    /\ TierOf \in [Payments -> Tiers]
    /\ SortOrder \in [Tiers -> Int]
    /\ Promo \subseteq Payments
ASSUME BoundsAssumption ==
    /\ MaxSubs \in Nat /\ MaxGrants \in Nat \ {0}
    /\ MaxMessages \in Nat /\ MaxUsed \in Nat

VARIABLES
    provider,      \* YooKassa's own status of each payment
    tiers,         \* the tiers whose code can still be resolved
    status,        \* payments.status ("NONE": no row)
    subscription,  \* payments.subscription_id
    notified,      \* payments whose success_notification_sent_at is set
    subs,          \* user_subscriptions
    usage,         \* promo_code_usages
    usedCount,     \* promo_codes.used_count
    messages,      \* success messages the buyer received
    task,          \* where each session stands, and what it read
    writes         \* what each session has flushed and not committed

database == <<status, subscription, notified, subs, usage, usedCount>>
outside == <<provider, tiers, messages>>
vars == <<provider, tiers, messages, status, subscription, notified, subs,
          usage, usedCount, task, writes>>

(***************************************************************************)
(* Rows and sessions.  A row's days are the bag of payments that paid for  *)
(* them; live says that expires_at lies in the future.                     *)
(***************************************************************************)
ProviderStatus == {"none", "pending", "succeeded", "canceled"}
PaymentStatus == {"NONE", "PENDING", "SUCCEEDED", "FAILED", "CANCELLED"}
Bag == [Payments -> 0..MaxGrants]
UserSubscription ==
    [user : Users, tier : Tiers, paid : Bag, live : BOOLEAN,
     status : {"ACTIVE", "REPLACED", "CANCELLED"}]
PromoCodeUsage ==
    [state : {"RESERVED", "APPLIED", "CANCELLED"}, bound : BOOLEAN]

(* NULL is no value of a column.                                           *)
ASSUME NoneAssumption ==
    /\ None \notin PaymentStatus /\ None \notin Payments /\ None \notin Int
    /\ None \notin Bag /\ None \notin UserSubscription

NoBag == [p \in Payments |-> 0]
Idle == [pc |-> "idle", kind |-> "none", p |-> None, todo |-> {},
         told |-> {}, failed |-> FALSE, active |-> None, base |-> NoBag,
         count |-> 0]
NoWrites == [status |-> [p \in Payments |-> None],
             link |-> [p \in Payments |-> None],
             insert |-> [i \in SubIds |-> None],
             paid |-> [i \in SubIds |-> None],
             replaced |-> {}, notified |-> {}, applied |-> {},
             released |-> {}, count |-> None]

Or(new, old) == IF new = None THEN old ELSE new

(* user_subscriptions as session s sees them: committed rows under its own *)
(* flushed columns.  A renewal moves expires_at into the future.           *)
View(s) ==
    [i \in SubIds |->
        LET w == writes[s]
            row == Or(w.insert[i], subs[i])
        IN  IF row = None THEN None
            ELSE [row EXCEPT
                    !.paid = Or(w.paid[i], @),
                    !.live = @ \/ w.paid[i] # None,
                    !.status = IF i \in w.replaced THEN "REPLACED" ELSE @]]

ActiveRows(rows, u) ==
    {i \in SubIds : /\ rows[i] # None
                    /\ rows[i].user = u /\ rows[i].live
                    /\ rows[i].status = "ACTIVE"}

(* get_active_subscription: the highest tier wins, ties use the latest     *)
(* start; NULL without an active row.                                      *)
GetActiveSubscription(rows, u) ==
    LET Rank(i) == SortOrder[rows[i].tier]
        A == ActiveRows(rows, u)
        best == {i \in A : \A j \in A \ {i} :
                    Rank(j) < Rank(i) \/ (Rank(j) = Rank(i) /\ j < i)}
    IN  IF A = {} THEN {None} ELSE best

(* Rows an UPDATE of another open transaction has locked.                  *)
PaymentLocked(s, p) == \E r \in Sessions \ {s} : writes[r].status[p] # None
SubLocked(s, i) ==
    \E r \in Sessions \ {s} : writes[r].paid[i] # None \/ i \in writes[r].replaced
PromoLocked(s) == \E r \in Sessions \ {s} : writes[r].count # None

FreeIds == {i \in SubIds : subs[i] = None
                           /\ \A r \in Sessions : writes[r].insert[i] = None}
NextId == {i \in FreeIds : \A j \in FreeIds : i <= j}

GoTo(s, pc) == task' = [task EXCEPT ![s].pc = pc]

(* The session is through with a payment: the reconciliation turns to the  *)
(* next one, every other caller commits.                                   *)
Rest(t) == [Idle EXCEPT !.pc = IF t.todo = {} THEN "commit" ELSE "peek",
                        !.kind = t.kind, !.todo = t.todo, !.told = t.told]
Done(s) == task' = [task EXCEPT ![s] = Rest(@)]

(***************************************************************************)
(* The provider, the admin's tier form, the clock and the user.            *)
(***************************************************************************)

(* The buyer has the payment link only once the creating session committed.*)
Pay(p) ==
    /\ provider[p] = "pending" /\ status[p] # "NONE"
    /\ provider' = [provider EXCEPT ![p] = "succeeded"]
    /\ UNCHANGED <<database, tiers, messages, task, writes>>

ProviderCancels(p) ==
    /\ provider[p] = "pending"
    /\ provider' = [provider EXCEPT ![p] = "canceled"]
    /\ UNCHANGED <<database, tiers, messages, task, writes>>

(* A tier's code may change while no active user is on it.                 *)
RenameTier(t) ==
    /\ t \in tiers \cap Editable
    /\ \A u \in Users : \A i \in ActiveRows(subs, u) : subs[i].tier # t
    /\ tiers' = tiers \ {t}
    /\ UNCHANGED <<database, provider, messages, task, writes>>

RestoreTier(t) ==
    /\ t \notin tiers
    /\ tiers' = tiers \cup {t}
    /\ UNCHANGED <<database, provider, messages, task, writes>>

(* The clock passes expires_at.                                            *)
Lapse(i) ==
    /\ subs[i] # None /\ subs[i].live
    /\ subs' = [subs EXCEPT ![i].live = FALSE]
    /\ UNCHANGED <<outside, status, subscription, notified, usage, usedCount,
                   task, writes>>

CancelSubscription(u) ==
    \E i \in GetActiveSubscription(subs, u) \ {None} :
        /\ \A s \in Sessions : ~SubLocked(s, i)
        /\ subs' = [subs EXCEPT ![i].status = "CANCELLED"]
        /\ UNCHANGED <<outside, status, subscription, notified, usage,
                       usedCount, task, writes>>

(***************************************************************************)
(* create_subscription_payment: look for a PENDING payment of the same     *)
(* order, ask the provider for a payment, insert the row, commit.          *)
(***************************************************************************)
SameOrder(p, q) == UserOf[p] = UserOf[q] /\ TierOf[p] = TierOf[q]

\* Mutant: the search for a PENDING payment finds nothing.
NeverReusable(p) == FALSE
(* A PENDING payment is handed out again, except to a buyer with a promo.  *)
Reusable(p) ==
    p \notin Promo /\ \E q \in Payments : SameOrder(p, q) /\ status[q] = "PENDING"

FindPendingPayment(s, p) ==
    /\ task[s].pc = "idle"
    /\ provider[p] = "none" /\ \A r \in Sessions : task[r].p # p
    /\ TierOf[p] \in tiers
    /\ ~Reusable(p)
    /\ task' = [task EXCEPT ![s] = [Idle EXCEPT !.pc = "create", !.p = p]]
    /\ UNCHANGED <<database, outside, writes>>

ProviderCreates(s) ==
    /\ task[s].pc = "create"
    /\ provider' = [provider EXCEPT ![task[s].p] = "pending"]
    /\ GoTo(s, "insert")
    /\ UNCHANGED <<database, tiers, messages, writes>>

InsertPayment(s) ==
    /\ task[s].pc = "insert"
    /\ writes' = [writes EXCEPT ![s].status[task[s].p] = "PENDING"]
    /\ Done(s)
    /\ UNCHANGED <<database, outside>>

(***************************************************************************)
(* The callers select the payment row and return early on its status.      *)
(***************************************************************************)
Begin(s, pc, kind, p, todo) ==
    /\ task[s].pc = "idle"
    /\ task' = [task EXCEPT ![s] =
                  [Idle EXCEPT !.pc = pc, !.kind = kind, !.p = p,
                               !.todo = todo, !.told = notified,
                               !.failed = p # None /\ status[p] = "FAILED"]]
    /\ UNCHANGED <<database, outside, writes>>

\* Mutant: no early return for a payment that has already SUCCEEDED.
HandlePaymentSuccessAgain(s, p) ==
    /\ status[p] \in {"PENDING", "FAILED", "SUCCEEDED"}
    /\ Begin(s, "verify", "success", p, {})

(* Webhook payment.succeeded, and the admin's check: a FAILED payment is   *)
(* tried again.                                                            *)
HandlePaymentSuccess(s, p) ==
    /\ status[p] \in {"PENDING", "FAILED"}
    /\ Begin(s, "verify", "success", p, {})

(* Webhook payment.canceled.                                               *)
HandlePaymentCancel(s, p) ==
    /\ status[p] \in {"PENDING", "FAILED"}
    /\ Begin(s, "verify", "cancel", p, {})

(* The pages /payment/success and /payment/cancel act on PENDING payments. *)
OpenReturnPage(s, p) ==
    /\ status[p] = "PENDING"
    /\ \E page \in {"return", "cancel_page"} : Begin(s, "peek", page, None, {p})

\* Mutant: the job asks about the payments whose activation failed.
OnlyFailedPayments == {p \in Payments : status[p] = "FAILED"}
PendingPayments == {p \in Payments : status[p] = "PENDING"}

(* The job loads every PENDING payment at once.                            *)
ReconcilePendingPayments(s) ==
    /\ PendingPayments # {}
    /\ Begin(s, "peek", "reconcile", None, PendingPayments)

(***************************************************************************)
(* get_payment.  It may raise; every caller then leaves the payment alone. *)
(***************************************************************************)
Take(s, p, pc) ==
    task' = [task EXCEPT ![s].pc = pc, ![s].p = p, ![s].todo = @ \ {p}]

PeekSucceeded(s) ==
    /\ task[s].pc = "peek"
    /\ \E p \in task[s].todo :
          provider[p] = "succeeded" /\ Take(s, p, "verify")
    /\ UNCHANGED <<database, outside, writes>>

\* Mutant: only the cancel page records a cancellation.
PeekCanceledOnPage(s) ==
    /\ task[s].pc = "peek" /\ task[s].kind = "cancel_page"
    /\ \E p \in task[s].todo :
          provider[p] = "canceled" /\ Take(s, p, "cancel")
    /\ UNCHANGED <<database, outside, writes>>

(* The success page only shows a cancellation, it does not record it.      *)
PeekCanceled(s) ==
    /\ task[s].pc = "peek" /\ task[s].kind # "return"
    /\ \E p \in task[s].todo :
          provider[p] = "canceled" /\ Take(s, p, "cancel")
    /\ UNCHANGED <<database, outside, writes>>

PeekNothing(s) ==
    /\ task[s].pc = "peek"
    /\ \E p \in task[s].todo :
          task' = [task EXCEPT ![s] =
                     Rest([task[s] EXCEPT !.todo = task[s].todo \ {p}])]
    /\ UNCHANGED <<database, outside, writes>>

\* Mutant: the announced status is believed.
BelievesWebhook(s) == TRUE
(* The provider's own answer must agree with what the caller is about.     *)
Verified(s) ==
    provider[task[s].p] = IF task[s].kind = "cancel" THEN "canceled" ELSE "succeeded"

VerifyOk(s) ==
    /\ task[s].pc = "verify" /\ Verified(s)
    /\ GoTo(s, IF task[s].kind = "cancel" THEN "cancel" ELSE "lookup")
    /\ UNCHANGED <<database, outside, writes>>

(* get_payment raised, or the provider's status is not the one announced.  *)
VerifyRefused(s) ==
    /\ task[s].pc = "verify"
    /\ Done(s)
    /\ UNCHANGED <<database, outside, writes>>

(***************************************************************************)
(* create_subscription: resolve the tier, read the active row, then flush  *)
(* either a renewal from what was read or a new row; the payment's UPDATE  *)
(* follows under its own row lock.                                         *)
(***************************************************************************)
LookupSubscription(s) ==
    /\ task[s].pc = "lookup"
    /\ TierOf[task[s].p] \in tiers
    /\ \E i \in GetActiveSubscription(View(s), UserOf[task[s].p]) :
          task' = [task EXCEPT ![s].pc = "activate", ![s].active = i,
                     ![s].base = IF i = None THEN NoBag ELSE View(s)[i].paid]
    /\ UNCHANGED <<database, outside, writes>>

TierNotFound(s) ==
    /\ task[s].pc = "lookup"
    /\ TierOf[task[s].p] \notin tiers
    /\ GoTo(s, "fail")
    /\ UNCHANGED <<database, outside, writes>>

(* The ORM writes a column only if it differs from what was loaded.        *)
MarkActivationFailed(s) ==
    LET p == task[s].p
    IN  /\ task[s].pc = "fail" /\ ~PaymentLocked(s, p)
        /\ writes' = IF task[s].failed THEN writes
                     ELSE [writes EXCEPT ![s].status[p] = "FAILED"]
        /\ Done(s)
        /\ UNCHANGED <<database, outside>>

\* Mutant: the payment's own id is stored as its subscription's.
MarkPaidSelfLinked(w, p, i) ==
    [w EXCEPT !.status[p] = "SUCCEEDED", !.link[p] = p]
MarkPaid(w, p, i) == [w EXCEPT !.status[p] = "SUCCEEDED", !.link[p] = i]

Activated(s) ==
    GoTo(s, IF task[s].p \in Promo THEN "promo" ELSE "notify")

RenewSubscription(s) ==
    LET p == task[s].p
        i == task[s].active
    IN  /\ task[s].pc = "activate" /\ i # None
        /\ View(s)[i].tier = TierOf[p]
        /\ ~SubLocked(s, i) /\ ~PaymentLocked(s, p)
        /\ task[s].base[p] < MaxGrants
        /\ writes' = [writes EXCEPT ![s] =
             [MarkPaid(writes[s], p, i) EXCEPT
                !.paid[i] = [task[s].base EXCEPT ![p] = task[s].base[p] + 1]]]
        /\ Activated(s)
        /\ UNCHANGED <<database, outside>>

(* Another tier is REPLACED; the new row starts now with one period.       *)
CreateSubscription(s) ==
    LET p == task[s].p
        i == task[s].active
    IN  /\ task[s].pc = "activate"
        /\ i # None => View(s)[i].tier # TierOf[p] /\ ~SubLocked(s, i)
        /\ ~PaymentLocked(s, p)
        /\ \E new \in NextId :
             writes' = [writes EXCEPT ![s] =
               [MarkPaid(writes[s], p, new) EXCEPT
                  !.insert[new] =
                     [user |-> UserOf[p], tier |-> TierOf[p],
                      status |-> "ACTIVE", live |-> TRUE,
                      paid |-> [NoBag EXCEPT ![p] = 1]],
                  !.replaced = writes[s].replaced \cup ({i} \ {None})]]
        /\ Activated(s)
        /\ UNCHANGED <<database, outside>>

(***************************************************************************)
(* confirm_usage: the usage becomes APPLIED whatever it was, and the       *)
(* counter is read, incremented in Python and written back.                *)
(***************************************************************************)
\* Mutant: the counter is written back as it was read.
Recount(n) == n
Increment(n) == n + 1

ReadUsedCount(s) ==
    /\ task[s].pc = "promo"
    /\ task' = [task EXCEPT ![s].pc = "count",
                            ![s].count = Or(writes[s].count, usedCount)]
    /\ UNCHANGED <<database, outside, writes>>

ConfirmUsage(s) ==
    /\ task[s].pc = "count" /\ ~PromoLocked(s)
    /\ task[s].count < MaxUsed
    /\ writes' = [writes EXCEPT ![s].applied = @ \cup {task[s].p},
                                ![s].count = Increment(task[s].count)]
    /\ GoTo(s, "notify")
    /\ UNCHANGED <<database, outside>>

(* The message goes out before the commit; the mark is part of it.         *)
SendSuccessNotification(s) ==
    LET p == task[s].p
    IN  /\ task[s].pc = "notify" /\ p \notin task[s].told
        /\ messages' = [messages EXCEPT
                          ![p] = IF @ < MaxMessages THEN @ + 1 ELSE @]
        /\ writes' = [writes EXCEPT ![s].notified = @ \cup {p}]
        /\ Done(s)
        /\ UNCHANGED <<database, provider, tiers>>

(* Already marked when the row was read, or Telegram refused.              *)
SkipNotification(s) ==
    /\ task[s].pc = "notify"
    /\ Done(s)
    /\ UNCHANGED <<database, outside, writes>>

(* Only the webhook also releases a usage bound to the payment id, and     *)
(* only confirm_usage binds one.                                           *)
MarkCancelled(s) ==
    LET p == task[s].p
        bound == {q \in Promo \cap {p} :
                    usage[q].bound /\ usage[q].state = "RESERVED"}
    IN  /\ task[s].pc = "cancel" /\ ~PaymentLocked(s, p)
        /\ writes' = [writes EXCEPT
             ![s].status[p] = "CANCELLED",
             ![s].released = IF task[s].kind = "cancel" THEN @ \cup bound ELSE @]
        /\ Done(s)
        /\ UNCHANGED <<database, outside>>

(***************************************************************************)
(* The end of a session.                                                   *)
(***************************************************************************)
Close(s) ==
    /\ task' = [task EXCEPT ![s] = Idle]
    /\ writes' = [writes EXCEPT ![s] = NoWrites]
    /\ UNCHANGED outside

Commit(s) ==
    LET w == writes[s]
    IN  /\ task[s].pc = "commit"
        /\ status' = [p \in Payments |-> Or(w.status[p], status[p])]
        /\ subscription' = [p \in Payments |-> Or(w.link[p], subscription[p])]
        /\ notified' = notified \cup w.notified
        /\ subs' = View(s)
        /\ usage' = [p \in Promo |->
             IF p \in w.applied THEN [state |-> "APPLIED", bound |-> TRUE]
             ELSE IF p \in w.released THEN [usage[p] EXCEPT !.state = "CANCELLED"]
             ELSE usage[p]]
        /\ usedCount' = Or(w.count, usedCount)
        /\ Close(s)

(* An exception out of the handler, a timeout or the death of the process. *)
Rollback(s) ==
    /\ task[s].pc # "idle"
    /\ Close(s)
    /\ UNCHANGED database

-----------------------------------------------------------------------------
Init ==
    /\ provider = [p \in Payments |-> "none"]
    /\ tiers = Tiers
    /\ status = [p \in Payments |-> "NONE"]
    /\ subscription = [p \in Payments |-> None]
    /\ notified = {}
    /\ subs = [i \in SubIds |-> None]
    /\ usage = [p \in Promo |-> [state |-> "RESERVED", bound |-> FALSE]]
    /\ usedCount = 0
    /\ messages = [p \in Payments |-> 0]
    /\ task = [s \in Sessions |-> Idle]
    /\ writes = [s \in Sessions |-> NoWrites]

Environment ==
    \/ \E p \in Payments : Pay(p) \/ ProviderCancels(p)
    \/ \E t \in Tiers : RenameTier(t) \/ RestoreTier(t)
    \/ \E i \in SubIds : Lapse(i)
    \/ \E u \in Users : CancelSubscription(u)

Enter(s) ==
    \/ s \in Workers /\ ReconcilePendingPayments(s)
    \/ s \in Handlers /\ \E p \in Payments :
          \/ FindPendingPayment(s, p)
          \/ HandlePaymentSuccess(s, p) \/ HandlePaymentCancel(s, p)
          \/ OpenReturnPage(s, p)

Work(s) ==
    \/ ProviderCreates(s) \/ InsertPayment(s)
    \/ PeekSucceeded(s) \/ PeekCanceled(s) \/ PeekNothing(s)
    \/ VerifyOk(s) \/ VerifyRefused(s)
    \/ LookupSubscription(s) \/ TierNotFound(s) \/ MarkActivationFailed(s)
    \/ RenewSubscription(s) \/ CreateSubscription(s)
    \/ ReadUsedCount(s) \/ ConfirmUsage(s)
    \/ SendSuccessNotification(s) \/ SkipNotification(s)
    \/ MarkCancelled(s)
    \/ Commit(s) \/ Rollback(s)

Next == Environment \/ \E s \in Sessions : Enter(s) \/ Work(s)

Spec == Init /\ [][Next]_vars

(* Sessions do not stall (WF), and the cron starts the job again and       *)
(* again.  An outage of the worker ends: from some time on the job's own   *)
(* transaction is not rolled back (the exceptions of one payment are       *)
(* caught inside it; a rollback of nothing is also an empty commit).  The  *)
(* provider may go on failing, as long as it answers now and then, and row *)
(* locks are granted to those who wait (SF).  Nothing is asked of the      *)
(* handlers: they may fail for ever.                                       *)
JobFairness(w) ==
    /\ SF_vars(ReconcilePendingPayments(w))
    /\ SF_vars(PeekSucceeded(w)) /\ SF_vars(PeekCanceled(w))
    /\ SF_vars(VerifyOk(w))
    /\ SF_vars(RenewSubscription(w) \/ CreateSubscription(w))
    /\ SF_vars(MarkActivationFailed(w)) /\ SF_vars(MarkCancelled(w))
    /\ SF_vars(ConfirmUsage(w))
    /\ <>[][Rollback(w) => Commit(w)]_vars

Fairness ==
    /\ \A s \in Sessions : WF_vars(Work(s))
    /\ \A w \in Workers : JobFairness(w)

FairSpec == Spec /\ Fairness

-----------------------------------------------------------------------------
(* Types.                                                                  *)
Task ==
    [pc : {"idle", "create", "insert", "peek", "verify", "lookup", "activate",
           "fail", "cancel", "promo", "count", "notify", "commit"},
     kind : {"none", "success", "cancel", "return", "cancel_page", "reconcile"},
     p : Payments \cup {None}, todo : SUBSET Payments, told : SUBSET Payments,
     failed : BOOLEAN, active : SubIds \cup {None}, base : Bag, count : 0..MaxUsed]
Writes ==
    [status : [Payments -> PaymentStatus \cup {None}],
     link : [Payments -> SubIds \cup {None}],
     insert : [SubIds -> UserSubscription \cup {None}],
     paid : [SubIds -> Bag \cup {None}],
     replaced : SUBSET SubIds, notified : SUBSET Payments,
     applied : SUBSET Promo, released : SUBSET Promo,
     count : 0..MaxUsed \cup {None}]

TypeOK ==
    /\ provider \in [Payments -> ProviderStatus]
    /\ tiers \subseteq Tiers
    /\ status \in [Payments -> PaymentStatus]
    /\ subscription \in [Payments -> SubIds \cup {None}]
    /\ notified \subseteq Payments
    /\ subs \in [SubIds -> UserSubscription \cup {None}]
    /\ usage \in [Promo -> PromoCodeUsage]
    /\ usedCount \in 0..MaxUsed
    /\ messages \in [Payments -> 0..MaxMessages]
    /\ task \in [Sessions -> Task]
    /\ writes \in [Sessions -> Writes]

(* The books never contradict the provider: whatever order webhooks, pages *)
(* and jobs commit in, SUCCEEDED and FAILED are only written for money the *)
(* provider has, CANCELLED only for a payment it has cancelled.            *)
AgreesWithProvider ==
    \A p \in Payments :
        /\ status[p] \in {"SUCCEEDED", "FAILED"} => provider[p] = "succeeded"
        /\ status[p] = "CANCELLED" => provider[p] = "canceled"
        /\ status[p] = "PENDING" => provider[p] # "none"

(* A session that serves a payment knows which one it is.                  *)
Assigned ==
    \A s \in Sessions :
        /\ task[s].pc \notin {"idle", "peek", "commit"} => task[s].p \in Payments
        /\ task[s].pc \in {"promo", "count"} => task[s].p \in Promo

(* What a session has verified stays the provider's word.                  *)
TaskAgrees(s) ==
    LET t == task[s]
    IN  /\ t.pc \in {"lookup", "activate", "promo", "count", "notify", "fail"}
              => provider[t.p] = "succeeded"
        /\ t.pc = "cancel" => provider[t.p] = "canceled"
        /\ t.pc = "create" =>
              /\ provider[t.p] = "none"
              /\ \A r \in Sessions \ {s} : task[r].pc = "create" => task[r].p # t.p
        /\ t.pc = "insert" => provider[t.p] # "none"

(* So does what it has flushed.                                            *)
WritesAgree(s) ==
    \A p \in Payments :
        /\ writes[s].status[p] \in {"SUCCEEDED", "FAILED"} => provider[p] = "succeeded"
        /\ writes[s].status[p] = "CANCELLED" => provider[p] = "canceled"
        /\ writes[s].status[p] = "PENDING" => provider[p] # "none"

(* Why AgreesWithProvider holds: between the provider's answer and the     *)
(* commit nothing can go stale, since that answer is final.                *)
SessionsAgree == Assigned /\ \A s \in Sessions : TaskAgrees(s) /\ WritesAgree(s)

(* No free days: every period in a subscription row was paid for by its    *)
(* own user, for its own tier, and the provider has the money.             *)
PeriodsArePaid ==
    \A i \in SubIds, p \in Payments :
        subs[i] # None /\ subs[i].paid[p] > 0 =>
            /\ provider[p] = "succeeded"
            /\ subs[i].user = UserOf[p] /\ subs[i].tier = TierOf[p]

(* Nobody is told a payment succeeded that the provider did not collect.   *)
MessagesAreTrue ==
    \A p \in Payments : messages[p] > 0 => provider[p] = "succeeded"

(* Money that arrived is dealt with even if no webhook ever comes: the     *)
(* payment leaves PENDING.                                                 *)
PaidIsSettled ==
    \A p \in Payments :
        provider[p] = "succeeded" /\ status[p] = "PENDING"
            ~> status[p] \in {"SUCCEEDED", "FAILED"}

(* So is a payment the provider cancelled.                                 *)
CancelIsRecorded ==
    \A p \in Payments :
        provider[p] = "canceled" /\ status[p] = "PENDING" ~> status[p] = "CANCELLED"

(* The periods payment p has bought in some rows: the k-th it added to row *)
(* i.  Granted counts those in the committed table.                        *)
Periods(rows, p) ==
    {g \in SubIds \X (1..MaxGrants) :
        rows[g[1]] # None /\ g[2] <= rows[g[1]].paid[p]}
Granted(p) == Cardinality(Periods(subs, p))

(* Idempotence by provider payment id: SUCCEEDED payments have bought one  *)
(* period each, all others none.                                           *)
ExactlyOnce ==
    \A p \in Payments : Granted(p) = IF status[p] = "SUCCEEDED" THEN 1 ELSE 0

(* The buyer hears of a payment's success at most once.                    *)
OneMessage == \A p \in Payments : messages[p] <= 1

(* Two open payments of one order would let a buyer pay it twice.          *)
OnePendingPerOrder ==
    \A p, q \in Payments \ Promo :
        p # q /\ SameOrder(p, q) => ~(status[p] = "PENDING" /\ status[q] = "PENDING")

(* The promo books follow the payments: a usage is APPLIED exactly when    *)
(* its payment SUCCEEDED, and used_count counts the applied usages.        *)
PromoBooksBalance ==
    /\ \A p \in Promo : usage[p].state = "APPLIED" <=> status[p] = "SUCCEEDED"
    /\ usedCount = Cardinality({p \in Promo : usage[p].state = "APPLIED"})

(* The promise of PaymentLedger.                                           *)
Ledger == INSTANCE PaymentLedger WITH
              periods <- [p \in Payments |-> Granted(p)]
LedgerSpec == Ledger!Spec

=============================================================================
