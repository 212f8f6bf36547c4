----------------------------- MODULE WbPrices -----------------------------
(***************************************************************************)
(* Prices for the automatic promotions of Wildberries.  Every half hour    *)
(* check_auto_promo_prices compares the price of each product with the     *)
(* price the promotion asks for, saves a recommendation and uploads the    *)
(* price if that is safe; a user does the same from a page.  Each is one   *)
(* database session that commits at its end, long after the upload, which  *)
(* the API client repeats when no answer comes.  Wildberries processes     *)
(* uploads later, as tasks.                                                *)
(*                                                                         *)
(* Prices are in kopecks, the discount in hundredths of a percent.         *)
(***************************************************************************)
EXTENDS Integers

CONSTANTS
    Products,
    Cron, Web,      \* runs of the job, and requests of users
    Needs,          \* prices a promotion may ask for
    Mrc,            \* mrc_price
    Deviation,      \* allowed_action_price_deviation_percent
    Discount,       \* default_discount_percent, hundredths
    MaxRetries,     \* of the API client
    Listed,         \* prices a seller sets without us
    MaxTasks,       \* bound: uploads Wildberries has not processed
    MaxMoves        \* bound: prices set by the seller, requests of users

Sessions == Cron \cup Web
Tasks == 1..MaxTasks

ASSUME PricesAssumption ==
    /\ Needs \subseteq Nat \ {0} /\ Mrc \in [Products -> Nat \ {0}]
    /\ Deviation \in 0..100 /\ Discount \in 0..9900
    /\ MaxRetries \in Nat \ {0} /\ MaxTasks \in Nat /\ MaxMoves \in Nat
    /\ Listed \subseteq Nat \ {0}
    /\ Cron \cap Web = {}

VARIABLES
    wb,         \* the price in force at Wildberries
    need,       \* the price the promotion asks for
    db,         \* the price the database knows, 0 if none: wb_product_prices, or
                \* before the first sync what came with the promotion or an import
    recs,       \* the recommendation of each product
    recent,     \* products with a row "applied" or "dry_run" of the last six hours
    rows,       \* the rows that follow an upload: "none", "told" or also "applied"
    tasks,      \* uploads at Wildberries
    charged,    \* products whose price one of our uploads has set
    lost,       \* products of uploads whose session was rolled back
    sess,       \* the sessions
    moves       \* prices set by sellers, conditions and requests so far

external == <<wb, charged>>
history == <<recent, rows>>
vars == <<wb, need, db, recs, recent, rows, tasks, charged, lost, sess, moves>>

-----------------------------------------------------------------------------
(* The arithmetic of a price.                                              *)

CeilDiv(a, b) == (a + b - 1) \div b

\* `default_discount_percent or 75`
Percent == IF Discount = 0 THEN 7500 ELSE Discount

\* Mutant: the rounded price is kept although it is above the target.
ListPriceUp(target) == CeilDiv(100 * target, 10000 - Percent)

\* calculate_wb_price_payload_for_target: roubles before the discount.
ListPrice(target) ==
    LET up == CeilDiv(100 * target, 10000 - Percent)
    IN IF up * (10000 - Percent) > 100 * target /\ up > 1 THEN up - 1 ELSE up

\* What a buyer pays for the price and the whole percents that are uploaded.
Charged(target) == ListPrice(target) * (100 - Percent \div 100)

Quarantine(old, new) == old > 0 /\ 3 * new <= old
BelowMrc(p, price) == 100 * price < Mrc[p] * (100 - Deviation)
AboveMrc(p, price) == 100 * price > Mrc[p] * (100 + Deviation)

\* build_recommendation, for the price the promotion asks for and the price
\* in force as the database knows it. Nobody passes it a min_price.
Judge(p, asked, current) ==
    IF current > 0 /\ current <= asked THEN "PRICE_OK"
    ELSE IF BelowMrc(p, asked) \/ AboveMrc(p, asked) \/ Quarantine(current, asked)
         THEN "VIOLATION" ELSE "SET_PRICE"

-----------------------------------------------------------------------------
RecStatuses == {"none", "PRICE_OK", "VIOLATION", "SET_PRICE",
                "price_sent_to_wb", "price_accepted_by_wb", "waiting_promotion_join"}
Rec == [status : RecStatuses, price : Needs \cup {0}]
NoRec == [status |-> "none", price |-> 0]
TaskStates == {"free", "queued", "processed_success", "processed_partial",
               "processed_all_errors", "cancelled"}
Free == [state |-> "free", items |-> [p \in Products |-> 0]]
NoTask == 0

\* A session: what is left to check, what it uploads (0 for a product that is
\* not in the upload), what it has written and not committed.
\*   check   -> Skip, Preview, Take
\*   upload  -> Accepted, AcceptedUnread, Refused, NoAnswer
\*   poll    -> PollEnds, PollGivesUp
\*   commit  -> Commit
Idle == [pc |-> "idle", dry |-> FALSE, todo |-> {}, items |-> [p \in Products |-> 0],
         tries |-> 0, task |-> NoTask, recs |-> [p \in Products |-> NoRec],
         shown |-> {}, row |-> "none"]
RowStatuses == {"applied", "upload_error", "failed", "sent", "status_pending",
                "processed_partial", "processed_all_errors"}
Session == [pc : {"idle", "check", "upload", "poll", "commit"}, dry : BOOLEAN,
            todo : SUBSET Products, items : [Products -> Needs \cup {0}],
            tries : 0..(MaxRetries - 1), task : Tasks \cup {NoTask}, recs : [Products -> Rec],
            shown : SUBSET Products, row : RowStatuses \cup {"none"}]

TypeOK ==
    /\ wb \in [Products -> Nat]
    /\ need \in [Products -> Needs]
    /\ db \in [Products -> Nat]
    /\ recs \in [Products -> Rec]
    /\ recent \in SUBSET Products /\ rows \in [Products -> {"none", "told", "applied"}]
    /\ tasks \in [Tasks -> [state : TaskStates, items : [Products -> Needs \cup {0}]]]
    /\ charged \in SUBSET Products /\ lost \in SUBSET Products
    /\ sess \in [Sessions -> Session]
    /\ moves \in Nat

Init ==
    /\ wb \in [Products -> Listed] /\ need \in [Products -> Needs]
    /\ db \in [Products -> Listed \cup {0}]
    /\ recs = [p \in Products |-> NoRec]
    /\ recent = {} /\ rows = [p \in Products |-> "none"]
    /\ tasks = [t \in Tasks |-> Free]
    /\ charged = {} /\ lost = {}
    /\ sess = [s \in Sessions |-> Idle]
    /\ moves = 0

-----------------------------------------------------------------------------
(* A session begins.                                                       *)

Judged == [p \in Products |->
    LET status == Judge(p, need[p], db[p])
    IN [status |-> status, price |-> IF status = "SET_PRICE" THEN need[p] ELSE 0]]

\* The state of a session that still has the products in todo to look at.
Onward(todo, items) ==
    IF todo # {} THEN "check"
    ELSE IF \E p \in Products : items[p] # 0 THEN "upload" ELSE "commit"

\* The recommendations that are read are those to be applied.
Begin(s, new, among) ==
    LET todo == {p \in among : new.recs[p].status = "SET_PRICE"}
    IN sess' = [sess EXCEPT ![s] = [new EXCEPT !.todo = todo, !.pc = Onward(todo, new.items)]]

\* check_auto_promo_prices saves a recommendation of every product, then reads
\* those it may apply; nothing is committed before the end.
StartCron(s) ==
    /\ s \in Cron /\ sess[s].pc = "idle"
    /\ Begin(s, [Idle EXCEPT !.recs = Judged], Products)
    /\ UNCHANGED <<external, need, db, recs, history, tasks, lost, moves>>

\* auto_promo_prices_apply: products the user has ticked, all if there are none,
\* as a preview or not.
StartWeb(s, ticked, dry) ==
    /\ s \in Web /\ sess[s].pc = "idle" /\ moves < MaxMoves
    /\ Begin(s, [Idle EXCEPT !.dry = dry, !.recs = recs],
             IF ticked = {} THEN Products ELSE ticked)
    /\ moves' = moves + 1
    /\ UNCHANGED <<external, need, db, recs, history, tasks, lost>>

-----------------------------------------------------------------------------
(* apply_price_changes: one recommendation after the other.                *)

Checking(s, p) == sess[s].pc = "check" /\ p \in sess[s].todo

\* _can_change_price, and the quarantine, which only the job heeds. The bounds
\* are those of the recommendation, which Judge has already applied.
MayChange(s, p) ==
    /\ p \notin recent
    /\ db[p] # sess[s].recs[p].price
    /\ s \in Cron => ~Quarantine(db[p], sess[s].recs[p].price)

Looked(s, p, items, shown, newRecs) ==
    LET todo == sess[s].todo \ {p} IN
    /\ Checking(s, p)
    /\ sess' = [sess EXCEPT ![s] = [sess[s] EXCEPT !.todo = todo, !.pc = Onward(todo, items),
                    !.items = items, !.shown = shown, !.recs = newRecs]]
    /\ UNCHANGED <<external, need, db, recs, history, tasks, lost, moves>>

Skip(s, p) ==
    /\ ~MayChange(s, p)
    /\ Looked(s, p, sess[s].items, sess[s].shown, sess[s].recs)

Preview(s, p) ==
    /\ MayChange(s, p) /\ sess[s].dry
    /\ Looked(s, p, sess[s].items, sess[s].shown \cup {p}, sess[s].recs)

Take(s, p) ==
    LET price == sess[s].recs[p].price IN
    /\ MayChange(s, p) /\ ~sess[s].dry
    /\ Looked(s, p, [sess[s].items EXCEPT ![p] = price], sess[s].shown,
              [sess[s].recs EXCEPT ![p] = [status |-> "price_sent_to_wb", price |-> price]])

InUpload(s) == {p \in Products : sess[s].items[p] # 0}

-----------------------------------------------------------------------------
(* _execute_upload and the retries of the client.                          *)

Sent(s, status) == [p \in Products |->
    IF p \in InUpload(s) THEN [status |-> status, price |-> sess[s].recs[p].price]
    ELSE sess[s].recs[p]]

\* The rows of the history, and the status of the recommendations; a failure
\* leaves them as sent.
Written(s, row, newRecs) ==
    sess' = [sess EXCEPT ![s] = [sess[s] EXCEPT !.pc = "commit", !.row = row,
                                                !.recs = newRecs, !.task = NoTask]]

Enqueue(s, t) ==
    /\ tasks[t].state = "free"
    /\ tasks' = [tasks EXCEPT ![t] = [state |-> "queued", items |-> sess[s].items]]

Uploading(s) ==
    sess[s].pc = "upload" /\ UNCHANGED <<external, need, db, recs, history, lost, moves>>

\* Wildberries takes the upload; without an id nothing is polled.
Accepted(s) ==
    /\ Uploading(s)
    /\ \E t \in Tasks :
        /\ Enqueue(s, t)
        /\ \/ sess' = [sess EXCEPT ![s] = [sess[s] EXCEPT !.pc = "poll", !.task = t]]
           \/ Written(s, "sent", Sent(s, "waiting_promotion_join"))

\* Mutant: an exception leaves no rows.
AcceptedSilent(s) ==
    /\ Uploading(s)
    /\ \E t \in Tasks : Enqueue(s, t)
    /\ Written(s, "none", sess[s].recs)

\* The answer, or what is done with it, raises: the upload counts as failed.
AcceptedUnread(s) ==
    /\ Uploading(s)
    /\ \E t \in Tasks : Enqueue(s, t)
    /\ Written(s, "failed", sess[s].recs)

Refused(s) ==
    /\ Uploading(s)
    /\ \E row \in {"upload_error", "failed"} : Written(s, row, sess[s].recs)
    /\ UNCHANGED tasks

\* Mutant: the attempts are counted from the second.
NoAnswerMore(s) ==
    /\ Uploading(s)
    /\ UNCHANGED tasks
    /\ IF sess[s].tries < MaxRetries
       THEN sess' = [sess EXCEPT ![s] = [sess[s] EXCEPT !.tries = sess[s].tries + 1]]
       ELSE Written(s, "failed", sess[s].recs)

\* A timeout or an error of the server: the upload may have arrived, and is
\* sent again while attempts are left.
NoAnswer(s) ==
    /\ Uploading(s)
    /\ UNCHANGED tasks \/ \E t \in Tasks : Enqueue(s, t)
    /\ IF sess[s].tries + 1 < MaxRetries
       THEN sess' = [sess EXCEPT ![s] = [sess[s] EXCEPT !.tries = sess[s].tries + 1]]
       ELSE Written(s, "failed", sess[s].recs)

Outcomes == {"processed_success", "processed_partial", "processed_all_errors"}
Freed(s) == [t \in Tasks |->
    IF t = sess[s].task /\ tasks[t].state # "queued" THEN Free ELSE tasks[t]]

Polling(s) ==
    sess[s].pc = "poll" /\ UNCHANGED <<external, need, db, recs, history, lost, moves>>

\* Mutant: every processed upload counts as applied.
PollEndsApplied(s) ==
    /\ Polling(s)
    /\ tasks[sess[s].task].state \in Outcomes
    /\ Written(s, "applied", Sent(s, "price_accepted_by_wb"))
    /\ tasks' = Freed(s)

PollEnds(s) ==
    LET state == tasks[sess[s].task].state IN
    /\ Polling(s)
    /\ state \in Outcomes
    /\ IF state = "processed_success"
       THEN Written(s, "applied", Sent(s, "price_accepted_by_wb"))
       ELSE Written(s, state, Sent(s, "waiting_promotion_join"))
    /\ tasks' = Freed(s)

\* Mutant: the poll goes on until there is an outcome.
PollsOn(s) == FALSE

\* Ten polls without one of the outcomes; a cancelled task is no outcome.
PollGivesUp(s) ==
    /\ Polling(s)
    /\ Written(s, "status_pending", Sent(s, "waiting_promotion_join"))
    /\ tasks' = Freed(s)

-----------------------------------------------------------------------------
(* The end of a session.                                                   *)

\* The web request writes only the status of what it has uploaded, into rows
\* that may have been judged anew.
Commit(s) ==
    /\ sess[s].pc = "commit"
    /\ recs' = [p \in Products |->
            IF s \in Cron THEN sess[s].recs[p]
            ELSE IF p \in InUpload(s) THEN [recs[p] EXCEPT !.status = sess[s].recs[p].status]
            ELSE recs[p]]
    /\ recent' = recent \cup sess[s].shown
                    \cup (IF sess[s].row = "applied" THEN InUpload(s) ELSE {})
    /\ rows' = [p \in Products |->
            IF p \notin InUpload(s) \/ sess[s].row = "none" \/ rows[p] = "applied" THEN rows[p]
            ELSE IF sess[s].row = "applied" THEN "applied" ELSE "told"]
    /\ sess' = [sess EXCEPT ![s] = Idle]
    /\ UNCHANGED <<external, need, db, tasks, lost, moves>>

\* An error of the database, of a later account of the same run, or the end of
\* the process: everything the session has written is gone.
RollBack(s) ==
    /\ sess[s].pc # "idle"
    /\ lost' = IF sess[s].pc = "check" THEN lost ELSE lost \cup InUpload(s)
    /\ tasks' = Freed(s)
    /\ sess' = [sess EXCEPT ![s] = Idle]
    /\ UNCHANGED <<external, need, db, recs, history, moves>>

-----------------------------------------------------------------------------
(* Wildberries, the synchronisation of prices, sellers and time.           *)

Polled(t) == \E s \in Sessions : sess[s].task = t

\* A task that nobody polls is forgotten when it ends.
Ends(t, state) ==
    /\ tasks[t].state = "queued"
    /\ tasks' = [tasks EXCEPT ![t] =
            IF Polled(t) THEN [state |-> state, items |-> tasks[t].items] ELSE Free]
    /\ UNCHANGED <<need, db, recs, history, lost, sess, moves>>

\* All of the items, some of them or none.
Process(t, state, done) ==
    LET items == {p \in Products : tasks[t].items[p] # 0} IN
    /\ Ends(t, state)
    /\ done \subseteq items
    /\ state = "processed_success" => done = items
    /\ state = "processed_all_errors" => done = {}
    /\ wb' = [p \in Products |-> IF p \in done THEN Charged(tasks[t].items[p]) ELSE wb[p]]
    /\ charged' = charged \cup done

Cancel(t) == Ends(t, "cancelled") /\ UNCHANGED external

\* sync_wb_product_prices, for one product.
SyncPrice(p) ==
    /\ db' = [db EXCEPT ![p] = wb[p]]
    /\ UNCHANGED <<external, need, recs, history, tasks, lost, sess, moves>>

\* Six hours after the row.
Expire(p) ==
    /\ recent' = recent \ {p}
    /\ UNCHANGED <<external, need, db, recs, rows, tasks, lost, sess, moves>>

SellerSets(p, price) ==
    /\ moves < MaxMoves
    /\ wb' = [wb EXCEPT ![p] = price]
    /\ moves' = moves + 1
    /\ UNCHANGED <<need, db, recs, history, tasks, charged, lost, sess>>

\* A condition is imported or typed in; the page that does it saves the
\* recommendations of all products.
SetCondition(p, price) ==
    /\ moves < MaxMoves
    /\ need' = [need EXCEPT ![p] = price]
    /\ recs' = [q \in Products |->
            LET status == Judge(q, need'[q], db[q])
            IN [status |-> status, price |-> IF status = "SET_PRICE" THEN need'[q] ELSE 0]]
    /\ moves' = moves + 1
    /\ UNCHANGED <<external, db, history, tasks, lost, sess>>

-----------------------------------------------------------------------------
Step(s) ==
    \/ \E p \in Products : Skip(s, p) \/ Preview(s, p) \/ Take(s, p)
    \/ Accepted(s) \/ AcceptedUnread(s) \/ Refused(s) \/ NoAnswer(s)
    \/ PollEnds(s) \/ PollGivesUp(s)
    \/ Commit(s)

Next ==
    \/ \E s \in Sessions : StartCron(s) \/ Step(s) \/ RollBack(s)
    \/ \E s \in Sessions, ticked \in SUBSET Products, dry \in BOOLEAN : StartWeb(s, ticked, dry)
    \/ \E t \in Tasks, state \in Outcomes, done \in SUBSET Products : Process(t, state, done)
    \/ \E t \in Tasks : Cancel(t)
    \/ \E p \in Products : SyncPrice(p) \/ Expire(p)
    \/ \E p \in Products, price \in Listed : SellerSets(p, price)
    \/ \E p \in Products, price \in Needs : SetCondition(p, price)

Spec == Init /\ [][Next]_vars

\* The jobs come again and go on; Wildberries, the network and the database
\* do not fail every time; six hours pass.
Fairness ==
    /\ \A s \in Cron : WF_vars(StartCron(s) \/ Step(s)) /\ SF_vars(Accepted(s))
    /\ \A s \in Cron, p \in Products : SF_vars(Take(s, p))
    /\ \A t \in Tasks : SF_vars(\E done \in SUBSET Products :
                                    Process(t, "processed_success", done))
    /\ \A p \in Products : WF_vars(SyncPrice(p)) /\ WF_vars(Expire(p))

FairSpec == Spec /\ Fairness

-----------------------------------------------------------------------------
(* Properties.                                                             *)

\* Every upload is made for a price in the bounds of the MRC, however stale
\* the recommendation; and with a discount of whole percents it asks for no
\* more than that price, and for less by under one rouble of the list price,
\* whatever the rounding (_can_change_price,
\* calculate_wb_price_payload_for_target).
OursInBounds ==
    \A t \in Tasks, p \in Products :
        LET target == tasks[t].items[p] IN
        target # 0 =>
            /\ ~BelowMrc(p, target) /\ ~AboveMrc(p, target)
            /\ Discount % 100 = 0 =>
                /\ Charged(target) <= target \/ ListPrice(target) = 1
                /\ Charged(target) + (100 - Percent \div 100) > target

\* A price is recorded as applied only if Wildberries has set it
\* (_check_upload_status, _execute_upload).
AppliedIsTrue == \A p \in Products : rows[p] = "applied" => p \in charged

\* A price we have set is in the history, whatever was answered, unless the
\* session that sent it is still open or was rolled back (_execute_upload).
ChangesAreTold ==
    \A p \in charged : rows[p] # "none" \/ p \in lost \/ \E s \in Sessions : p \in InUpload(s)

Reachable(p, asked) == ~BelowMrc(p, asked) /\ ~AboveMrc(p, asked)
                            /\ \A old \in Listed : ~Quarantine(old, asked)

\* A price the promotion asks for, that is allowed, is reached in the end, in
\* spite of lost answers, failed and cancelled uploads, previews and sessions
\* rolled back after the upload (check_auto_promo_prices).
PriceReached ==
    \A p \in Products : <>[](\A asked \in Needs :
        need[p] = asked /\ Reachable(p, asked) => wb[p] <= asked)
=============================================================================
