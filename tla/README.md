# MP Control: TLA+ models, model checking and proofs

MP Control is a service for Wildberries and Ozon sellers: a Telegram bot, a web
cabinet, a REST API and a background worker around one PostgreSQL database.
This directory holds TLA+ models of its core logic, the TLC configurations that
check them and theorems checked by the TLA+ proof system. All file names below
are relative to the repository root; `payment_service.py` and the like are under
`app/services/`.

## 1. The system

Four processes share PostgreSQL (READ COMMITTED, SQLAlchemy async sessions with
`expire_on_commit=False`, `app/core/db.py`) and Redis:

| process | entry | concurrency |
|---|---|---|
| `api` | FastAPI: webhooks, public pages, web cabinet | one session per request |
| `bot` | aiogram: handlers, FSM state of each chat | updates are handled concurrently |
| `worker` | arq: 30 cron jobs and a queue, `app/workers/settings.py` | `max_jobs = 10`, `job_timeout = 1800` |
| marketplaces, YooKassa, Telegram | external | may fail, answer late, repeat |

Two facts shape most of the hazards. A session reads a row, awaits a network
call and writes the row afterwards, and nothing locks the row in between. And
an ORM object that is loaded once is not refreshed by a later `SELECT` of the
same session, so a long job works on what the database held when it began.

### Components

| component | state it keeps | operations | interacts with | what makes it correct |
|---|---|---|---|---|
| Payments (`payments/`) | `payments`, success mark, links to subscriptions | create, webhook, return pages, admin check, reconcile | YooKassa, Subscriptions, Promo codes, Telegram | each payment that arrives buys exactly one period; books agree with the provider; every paid order is settled |
| Subscriptions (`subscriptions/subscription_service.py`, `tariff_service.py`) | `user_subscriptions`, `subscription_tiers` | create, renew, replace, bonus, cancel, admin grant; tier edit, toggle, delete | Payments, Promo codes, feature access | paid days are not lost; one row counts; history is final |
| Promo codes (`subscriptions/promo_code_service.py`, bot FSM) | `promo_codes.used_count`, `promo_code_usages`, chat FSM | validate, reserve, confirm, cancel, toggle | Payments, Subscriptions | limits hold; a reservation is spent once, by its owner |
| Sync runs (`common/web_sync_run_service.py`) | `sync_runs`, arq queue | trigger, mark running / finished, stale sweep | worker jobs, web sync centre | one manual run at a time; outcomes are recorded; every run ends |
| Order polling (`order_processing_service.py`, `tasks_main.py`) | `orders`, notification marks, sync cursors | poll, upsert, deliver, resend, digest | WB and Ozon API, Telegram | no order lost; each announced |
| History backfill (`history_backfill_service.py`) | `sync_jobs` | schedule, take up, load chunks, finish | marketplace API, orders, reports | a job that says it is complete is; every job ends |
| WB price updates (`wb/pricing/`) | history of changes, prices of the last synchronisation | judge, upload, poll, record | WB prices API, API client, auto promotions | a price in the bounds; history that neither lies nor omits |
| Auto promotions (`wb/promotions/`) | conditions, recommendations | import, judge, apply | price updates | the promotion's price is reached if it is allowed |
| WB reports (`wb/reports/`) | report rows, finance components, imports | import, correct, relink, delete, restore | orders, analytics | a deleted report is out of the sums, a kept one is in, every line finds its order |
| API client (`integrations/base.py`) | retry counters, rate limits | request with retries | marketplaces | retries end; a repeated request does no harm |
| Sales events (`sales_event_sync_service.py`) | `sale_events` | upsert, match to orders | orders, reports | an event counts once |
| Ozon prices, MRC rules | price history, rules | upload, import | Ozon API | prices in the bounds |
| Ozon finance (`ozon/finance/`) | operations, balances | import, reconcile | Ozon API | totals agree |
| Alerts and digests (`alert_service.py`, `alerts/`) | alert marks, notification events | collect, send, mark | Telegram | sent, and once |
| Web auth (`web_auth_service.py`, `web_password_auth_service.py`) | login tokens, sessions, codes | issue, redeem, expire | Telegram, mail | a token is good once |
| Feature access, limits (`feature_access_service.py`) | none | `can_use` | Subscriptions | - |
| Pure calculators (profit, unit economics, commissions) | none | formulas | - | agree with their definitions |
| Deploy, backup, migrations, CLI, page rendering, cache | files, HTML, cache keys | - | - | not modelled: I/O and layout |

The first ten have a module, the others do not (section 12).
`PROJECT.json` lists each with its sources and status, and every hazard with
its line.

## 2. Modules

| module | models | abstract specification | theorems |
|---|---|---|---|
| `Payments`, with a history in `PaymentOverlaps` | sessions around a payment | `PaymentLedger` | `PaymentsProofs` |
| `Subscriptions` | transactions over `user_subscriptions` | - | `SubscriptionsProofs` |
| `PromoCodes`, with a history in `PromoOverlaps` | the checkout chat with a promo code | - | `PromoCodesProofs` |
| `SyncRuns` | manual synchronisations | - | `SyncRunsProofs` |
| `OrderNotifications`, with a history in `OrderLosses` | polls, cards, digest | - | `OrderNotificationsProofs` |
| `HistoryBackfill` | jobs that load the history of an account | - | `HistoryBackfillProofs` |
| `WbPrices` | prices for WB promotions: judging, uploads, retries, history | - | `WbPricesProofs` |
| `WbReports` | realisation reports: uploads, corrections, links, deletion | - | `WbReportsProofs` |

Each `MC...` module declares the model values and symmetry of its instances;
each run is one `.cfg`. All twelve runs pass.

The code does not keep sessions apart, and much of what one would like to say of
it is false as soon as they overlap. Two kinds of properties come out of that.
What one would like to say stays in its module as a definition, and section 11
shows the instance in which TLC breaks it. What holds without any assumption is
in the runs and theorems: the property names, in terms of the states the system
has passed through, the one circumstance that breaks the promise, and says that
nothing else does. Where the state does not remember that circumstance, a small
module on top adds a history variable that does: which payments two sessions had
in hand at once (`PaymentOverlaps`), which reservations two handlers worked with
at once and which users raced past a check (`PromoOverlaps`), which orders were
placed in a poll that took too long (`OrderLosses`). Histories only watch; they
guard no step.

The modules meet at single steps: `Payments` sees a subscription as a bag of
paid periods and a tier switch as a set; `PromoCodes` sees a payment as one
step; `Subscriptions` sees a payment as one transaction; `OrderNotifications`
sees the backfill and the imports as `StoreElsewhere`, an order that appears
and is announced to nobody by them; `WbReports` sees polls and backfills as
`OrderLoaded` and as relinks; `HistoryBackfill` sees the relink at its end as a
step that may fail; `WbPrices` contains the retries of the API client.

Next in line, in this order: web sign-in (`web_auth_service.py`: a token is
redeemed once), the participation service of auto promotions, the journal
`sync_task_runs` and its own sweep, editing and deleting tiers. Among the
proofs, abstract specifications of the components that have none yet.

## 3. Payments

### What is modelled

`Payments` has one process per database session. A session is a webhook
(`success`, `cancel`), an admin check (which behaves like the success webhook),
the success page (`return`), the cancel page (`cancel_page`), the reconciliation
job (`reconcile`) or a checkout in the bot. `task[s].pc` says where it stands:

    idle -> verify                 -> lookup -> activate -> promo -> count -> notify -> commit -> idle
         -> peek -> verify | cancel          -> fail                                 |
         -> create -> insert -----------------------------------------------------> commit
    (Rollback leads from anywhere to idle)

| variable | code |
|---|---|
| `provider` | YooKassa's status of a payment; `get_payment` reads it |
| `status`, `subscription`, `notified` | `payments.status`, `.subscription_id`, `.success_notification_sent_at` |
| `subs` | `user_subscriptions`; the term is the bag of payments that paid for it, `live` says `expires_at > now` |
| `usage`, `usedCount` | `promo_code_usages`, `promo_codes.used_count` |
| `tiers` | tier codes that `get_tier_by_code` finds |
| `task` | local variables and loaded ORM columns of each session |
| `writes` | its flushed, uncommitted UPDATEs and INSERTs, which also are its row locks |
| `messages` | what Telegram delivered |

`View(s)` is what a session reads: committed rows under its own flushed columns.
`LookupSubscription` stores the loaded term in `task.base`, `RenewSubscription`
writes the term computed from it: the lost update of `expires_at` is in the
model. A flush waits while another open session has written the row
(`PaymentLocked`, `SubLocked`, `PromoLocked`). A column is written only if it
differs from the loaded value (`task.failed`). The order of the code is kept:
subscription, payment status, promo usage, message, commit.

Abstractions: days are counted in paid periods; the tier lookup and the read of
the active row are one step, and so are the flushes of subscription and
payment; locks are taken at once (a PostgreSQL deadlock shows as `Rollback`);
the branch "tier_code missing in metadata" is the same as "tier not found"; the
branch "user of the metadata is another one" is left out, since the metadata is
always written with the payment's own user; receipts, audit log and texts are
left out; trial rows do not occur (`start_trial` has no caller); bonus rows,
admin grants and inactive tiers belong to the Subscriptions module.

`PaymentLedger` is the promise without sessions: SUCCEEDED and one period come
together, FAILED only for money that arrived, CANCELLED only for a payment the
provider cancelled.

### Runs

| run | instance | shows |
|---|---|---|
| `payments_serial` | 1 session, 3 payments (one with a promo code, one for another tier) | `PromoFollows`, and the refinement `LedgerSpec` of all payments at once: without overlap every order of webhooks, pages, job, crashes, renames, lapses buys one period for each payment |
| `payments_concurrent` | 2 sessions, 2 payments of one order | `PeriodsArePaid`, `MessagesAreTrue`: overlap may lose or double, it never gives what was not paid; `PaidOnce`, `OneOpenPerOrder`, `FollowsLedger`: what it takes to lose or double |
| `payments_live` | job and one handler, 1 payment with a promo code, tier renamed and restored, fair | `TypeOK`, `AgreesWithProvider`; `PaidIsSettled`, `CancelIsRecorded`: a lost webhook is repaired |

`PaymentOverlaps` remembers every pair of payments that two different sessions
had in hand at the same time (a payment is in hand from the moment a session
selects it to the commit or rollback of what was written of it). A payment is
`Undisputed` if it was never in two hands, and `Alone` if besides, while it was in
hand, no second session had any payment of its buyer. With two sessions running freely:

- `PaidOnce`: an undisputed payment has bought at most one period, and exactly
  one once it is alone and SUCCEEDED, however often it is confirmed again, rolled
  back, or overtaken by what sessions do to other payments. A doubled period
  takes two sessions with this very payment; a lost one takes two of its buyer.
- `OneOpenPerOrder`: two open payments of one order come from two checkouts that
  were under way at once.
- `FollowsLedger`: a payment that is alone moves only as `PaymentLedger` promises.
- `PromoFollows`: the usage of an undisputed payment is applied just when it has
  SUCCEEDED, and the counter is right unless two payments with a code were in
  hand at once.

The code breaks the same promises for payments that did meet another session
(`ExactlyOnce`, `OnePendingPerOrder`, `PromoBooksBalance`, section 11).

Bounds: `MaxSubs` rows, `MaxGrants` periods of one payment in one row,
`MaxUsed`, and `MaxMessages` after which messages are not counted. Two sessions
and two payments are the smallest instance in which a session can hold a stale
row, wait for a lock, and overwrite; the third payment of the serial run brings
the change of tier. A row bound only stops a session from creating more rows,
which no pass property needs. Symmetry is used for payments of one order and for
sessions, and only in runs without liveness.

Fairness (`FairSpec`): an open session does not stall (`WF` of its step); the
cron starts the job again and again; the provider answers the job now and then;
PostgreSQL grants a lock to a waiter (`SF`); the worker is not killed in every
transaction for ever (`<>[][Rollback(w) => Commit(w)]_vars`, where a rollback
of nothing counts as an empty commit; exceptions of one payment are
caught inside the loop, `payment_service.py:993`). Handlers and webhooks get no
fairness beyond not stalling. `CHECK_DEADLOCK FALSE`: when all payments are
settled nothing remains to be done.

### Proofs

`PaymentsProofs` proves for every number of payments, sessions, users, tiers:

- `TypeCorrect`: `Spec => [](TypeOK /\ Assigned)`. The type invariant alone is
  not inductive: a step from `verify` needs a payment in `task[s].p`, and the
  promo steps need it in `Promo`; `Assigned` says so.
- `BooksAgree`: `Spec => [](SessionsAgree /\ AgreesWithProvider)`. What a commit
  writes was verified long before; the argument is that the provider's verdict
  is final, so what a session has verified (`TaskAgrees`) or flushed
  (`WritesAgree`) is still true when it commits. `TaskAgrees` also says that a
  payment is being created by one session only.
- `NoFalseMessage`: `MessagesAreTrue`, from the same invariant.
- `NoFreeDays`: `PeriodsArePaid`, for any number of overlapping sessions. A
  period is written from a loaded row that may be stale, or inserted, and is
  committed much later; `PeriodsInv` says that committed rows, flushed rows and
  the term a session has loaded consist of periods that were paid for by their
  user and for their tier, that the row a session is about to renew is its
  payment's, and that open sessions insert different rows (`InsertsApart`). Users
  and tiers of rows never change.

Those four speak of the specification as it is. The next four are about it with
the history, and hold for any number of overlapping sessions. Their common part
is `HandsInv`: a session settles each payment it serves once and its usages
follow what it settles (`InOrder`), whatever others do; and what it has in hand
is still open in the database unless another session had it in hand as well
(`HandsOpen`), because only a session that has a payment in hand ever writes it.

- `OneOpenPayment`: `OneOpenPerOrder`. By `CheckoutInv` a checkout claims its
  payment from the search for an open one to the commit, so a second open payment
  of the order must have been in another session's hand meanwhile (`ClaimsMet`).
- `BooksBalance`: `PromoFollows`. By `PromoInv` a loaded counter is that of the
  database plus what the session has flushed, as long as no two payments with a
  code met.
- `PaidExactlyOnce`: `PaidOnce`. How many periods a payment has bought is a sum
  over rows, while sessions hold stale copies of rows that they write back.
  `BagsInv` follows the copies: the periods of an undisputed payment stand in
  versions of one row only, once in each (`OnceFor`); and a payment that is alone
  is in its row and in every version a session may still write over it
  (`KeptFor`). So that the proof needs the finite-set theorems and no induction,
  the number of periods is the number of elements of a set (`Periods`).
- `PaymentsRefineLedger`: `FollowsLedger`, a step at a time: every commit settles
  what it has flushed as the ledger allows, and every other step leaves the books
  alone. The refinement of the whole ledger without exception, `LedgerSpec`, is
  false when sessions overlap and is checked by `payments_serial` only.

Assumptions: `OrdersAssumption`, `BoundsAssumption`, `NoneAssumption`,
`SessionsAssumption`, all evaluated by TLC in every run.

Only model-checked: the liveness properties `PaidIsSettled` and
`CancelIsRecorded`.

## 4. Subscriptions

### What is modelled

`Subscriptions` has one process per transaction over `user_subscriptions`. Each
operation is a read step, which stores the id of the active row and its
`expires_at` in `op`, and a write step, which stands for the flush and the
commit. Between them other transactions commit and days pass.

| variable | code |
|---|---|
| `now` | `datetime.now`, in days |
| `on` | tiers with `is_active` |
| `subs` | rows: user, tier, status, `expires_at` (`None`: without an end) |
| `op` | what a transaction has read and is about to write |

The operations are purchase or renewal (`activate_paid_subscription`,
`renew_subscription`), free days of a promo code, the user's cancellation, the
admin's grant and its withdrawal, and the switch of a tier.
`GetActiveSubscription` is the query with its ordering; the columns a session
does not change are not written, which is what makes a revived row impossible
and a lost one possible.

Abstractions: flush and commit are one step (a second writer waits for the
first in PostgreSQL and then overwrites, which the two orders of the write steps
show); days are whole; `max_accounts` and prices are left out; `start_trial` and
`expire_outdated_subscriptions` have no caller.

### Runs

| run | instance | shows |
|---|---|---|
| `subscriptions_race` | 2 sessions, 2 tiers, one switched off and on, rows without an end | `TypeOK`, `RetiredForGood`, `BoughtTierCounts`, `PurchaseGivesAccess` |

`PurchaseGivesAccess`: whoever has paid has his tier or a better one from that
commit on, and a renewal lasts its whole term from now and from the old end. Two
things are excepted because the code gives them away, and only them: a renewal
whose row another transaction has retired since it was read gives no access
(`RetiredMeanwhile`), and an end that another renewal has moved meanwhile may move
back (the renewal still lasts its own term from now). A row without an end has no
days to add to; that it gets an end is `UnendingStays` in section 11.

There is no abstract specification of a plan. The bot promises access to the end
of the paid term after a cancellation, and the code ends it at once
(`CancelKeepsAccess`, section 11), so a plan that the code implements would not be
the one the repository promises.

Bounds: `MaxDay` days and `MaxRows` rows. Three rows are a row, its successor
and the successor of that; with two days a term can be running, ending and
over. There are no liveness properties: nothing has to happen by itself.

### Proofs

`SubscriptionsProofs`: `TypeCorrect` proves `TypeOK` together with `ReadsAreRows`
(the row a transaction has read exists and is its user's), without which the
write steps have no type. `HistoryIsFinal` proves `RetiredForGood`, an action
property, from them: the only write to a row that was loaded as active does not
touch the status.

- `NewTierCounts`: `BoughtTierCounts`, for any number of overlapping
  transactions. The query takes the row of the highest tier that ends last;
  `MaximalElement`, by well-founded induction on the sizes of finite sets, says
  that there is one, and `BestRow` that it is at least as high as the row just
  written.
- `PaidAccess`: `PurchaseGivesAccess`, without any assumption about overlap, rows
  without an end or tiers switched off. A new row counts because the query finds
  it; a renewed one because a row that is still ACTIVE keeps its status and gets an
  end in the future, and is then at most outranked by a better one (`BestRow`).

All properties of the runs are proved.

## 5. PromoCodes

### What is modelled

`PromoCodes` follows one code through the bot: choice of a tier, the message
with the code, the reservation, the button, the free activation or the payment
and its end. A handler is a process with a `pc` (`reserve`, `remember`, `clear`,
`receipt`, `route`, `activate`, `pay`): PostgreSQL is committed, then Redis is written, and
a crash in between leaves one without the other.

| variable | code |
|---|---|
| `active`, `usedCount` | `promo_codes.is_active`, `.used_count` |
| `usages` | `promo_code_usages`; `fresh` says younger than 60 minutes |
| `chat` | FSM state and data of a chat, merged by `update_data` |
| `job` | local variables of a handler |
| `orders` | payments and free activations with the code |

Abstractions: the final amount is one of `"rest"`, `"0.00"`, `"0"`, the texts
that the code compares; a confirmed payment is one step (section 3 has its
inside); periods, minimal amount and the new-user rule are guards on one order
and left out; `max_uses_total` NULL is a bound larger than the instance reaches;
the handlers `skip_promo_code` and `cancel_payment_email` are left out because
handlers registered before them match every message of their state; whether a
user's e-mail is known is a choice (`AskForEmail` or `CreatePayment`).

### Runs

| run | instance | shows |
|---|---|---|
| `promo_checkout` | 1 user, 2 tiers (the code covers one, and buttons of old messages offer the other), 2 handlers | `TypeOK`, `SpentByOne`, `OneAtATime`, `LimitButLate` |

The updates of one chat overlap without restriction, since aiogram handles them as
they come, and a reservation may pass its 60 minutes at any time. Both break
promises (`SpentOnce`, `OneReservation`, `PerUserLimit`, section 11).
`PromoOverlaps` remembers the reservations that two handlers have worked with at
once (`shared`) and the users of whom two codes were between the check and the
insert at once (`racing`). What is left holds:

- `SpentByOne`: no other reservation is spent twice, by old buttons, restarted
  checkouts, the detour over the e-mail, or deaths between PostgreSQL and Redis.
- `OneAtATime`: no other user has two live reservations, also not one whose
  reservation the chat has forgotten in a crash.
- `LimitButLate`: no other user spends more than `max_uses_per_user` reservations
  that were younger than an hour when they were spent.

Bounds: `MaxUsages` rows and `MaxOrders` orders, one more than the limits of the
code; a reservation, its successor and the two orders they could be spent on fit.
Two handlers are a double tap. A second user only matters for the limit of all
users, which the code does not keep, and for `OwnReservation`, which is proved.
There are no liveness properties: nothing has to happen by itself.

### Proofs

`PromoCodesProofs`, for any number of users, chats, handlers that overlap,
timeouts and failures:

- `ReservationsAreOwn`: `OwnReservation`. The invariant says of each of the three
  places that remember a usage id (chat, handler, order) that the row exists and
  has that user.
- `TypeCorrect`: `TypeOK`. That `used_count` stays within the bound needs
  `Counted`: it is the number of orders that went through.
- `ReservationsAreSpentOnce`: `SpentByOne`. By `OnePlace` a reservation that is
  not in `shared` is in one place only: in a chat, with the one handler that took
  it from there, or in an order.
- `OneReservationEach`: `OneAtATime`, since by `ReserveInv` the only handler of a
  user between the validation and the insert belongs to a user without a live
  reservation.
- `UserLimitHolds`: `LimitButLate`. The code compares the limit with spent rows
  only; by `LimitInv` the user's young rows of both kinds stay within it.
- `NothingIsFree`: `FreeIsCovered`, nobody is activated without a payment on a
  reservation whose discount leaves something to pay, a discount equal to the
  price included. By `Quoted` the amount in a chat, or with a handler, is that of
  the reservation next to it, or forgotten by the detour over the e-mail, which is
  taken only where there is something to pay. The converse is false: a discount
  equal to the price is not activated (`CoveredIsFree`, section 11).

## 6. SyncRuns

### What is modelled

`SyncRuns` is one user's manual synchronisation of one account and type: the web
request (`TriggerSync`, `CreateRun` or `CreateRefused`, `EnqueueJob` or
`EnqueueFails`, `CommitRun`), the attempts of arq (`Take`, `StartSyncRun`,
`EndExecution`, `Record`, `RecordAndRetry`, `NotRecorded`, `WorkerDies`) and the
sweep of the cron job in a read and a write step. The page of the sync centre
sweeps too, but `get_session` closes its session without a commit, so it changes
nothing and is no action.

| variable | code |
|---|---|
| `runs` | `sync_runs.status`; a row is visible once the request has committed |
| `old`, `ran` | whether `created_at` is old enough for the sweep; how long ago the run was first started (`None`: not yet, 0: less than 30 minutes, 1: more) |
| `web` | the request: its `pc` and the row it has inserted |
| `job`, `tries` | the arq job and its attempts |
| `worker` | an attempt: its job and what it is about to write |
| `sweep` | rows that the cron sweep has read and not yet written |
| `abandoned`, `unrecorded` | history variables: rows that the sweep or a failed request gave up although their job may go on; rows whose last update failed |

The partial unique index is a guard of the steps that make a row active
(`MayStart`, `CreateRefused`), and uncommitted rows count. arq is external: jobs
are taken in any order, a cancelled or lost attempt is repeated up to `MaxTries`
times. `RunsLong` cannot happen while a first attempt executes, because
`job_timeout` ends it after 1800 seconds, which is how old the row must be; it
can once the attempt is being recorded, has died, or is a later one, since
`started_at` stays that of the first.

Abstractions: the final statuses are two, `ended` for what `finish_run` writes
and `given_up` for what the sweep and a failed request write; one sweep at a
time; the journal `sync_task_runs`, notifications
and the limits of periods are left out; other accounts of one request are seen
as a request that dies. The sweep's third rule, six hours for
`wb_financial_details`, selects nothing: the second has taken those rows.

### Runs

| run | instance | shows |
|---|---|---|
| `sync_runs` | 2 requests, 2 workers, 2 rows, 2 attempts; retries, deaths, sweeps and failures of every step, fair | `OneActiveRun`, `OneExecution` (two workers execute at a time only if the row of one was given up), `EndIsRecorded` (an outcome is missing only if its update failed), `EveryRunEnds` |

Fairness: a request and an attempt do not stall (they have timeouts), time
passes, the cron sweeps. No fairness is asked of workers taking jobs: a job may
be lost for ever and the run still ends. Bounds: `MaxTries` 2 (arq has 5; two
attempts show what a repetition does), `MaxRuns` rows: a run and its successor,
which is what a late attempt, a sweep or a retry of the first can disturb.

### Proofs

`SyncRunsProofs`:

- `TypeCorrect`.
- `OneActive`: `OneActiveRun` is inductive by itself; each step that activates
  a row is guarded by the index, the others only take rows away.
- `EndsRecorded`: `EndIsRecorded`, with `Held`: a job belongs to one worker at a
  time.
- `OneExecutes`: `OneExecution`. The invariant `ExecInv` says that a job whose
  row was not given up has a row, or one is about to be committed for it
  (`HasRow`), and that what executes is active or about to be (`Counts`); two of
  those at a time contradict `OneActiveRun` or `Held`.

Only model-checked: `EveryRunEnds`.

## 7. OrderNotifications

### What is modelled

`OrderNotifications` is one marketplace account. A session is a run of
`poll_new_orders` or `resend_unnotified_orders`; runs overlap because arq starts
cron jobs whether or not the previous run has ended:

    idle -> process -> save -> deliver <-> mark -> idle     (poll)
    idle ---------------------> deliver <-> mark -> idle     (resend)

| variable | code |
|---|---|
| `clock` | time, a tick is the ten minutes by which windows overlap |
| `placed` | order dates at the marketplace |
| `cursor` | `marketplace_accounts.last_order_poll_at` |
| `received` | `orders`: the rank of `event_received_at`, `None` without a row |
| `notified` | `orders.first_notified_at` is set |
| `digest` | `fbo_digest_queue` with `sent_at` |
| `session` | start of the requests, orders fetched, orders to insert, digest rows, list of cards, order in hand |
| `gathered` | rows of the digest that has just been sent |
| `sent`, `refused`, `told` | what Telegram delivered or refused |

`FetchWb` and `FetchOzon` differ as the code does: WB lists new FBS orders and
asks for a window of FBS orders whose failure keeps the cursor; Ozon asks for a
window of FBS orders (whose failure ends the poll), for unfulfilled ones, and
for a window of FBO orders whose failure is swallowed. `ProcessOrders` decides what
the poll will do, the cards of orders already saved included (`Pending` with its
order and limit, over the rows the session has flushed), and `SaveOrders` is the
commit: new rows, digest rows, the cursor (`MoveCursor`). `SaveRefused` is the unique
constraint. `StoreElsewhere` is the sales sync and the history backfill, which
insert orders and tell nobody. `SendCard` and `MarkNotified` are two steps;
`MarkFails`, `SendFails`, `SendRefused`, `Dies` are what else can happen.

Abstractions: the list of live orders is any set of placed FBS-like orders; one
user, who has notifications on; sale models are FBO or not, and FBS-like ones
are on; the seven-day cut and the 24 hours of the first window are left out (an
account without a cursor sees all orders); a failure of one order before its row
is flushed is left out, since only a database error, which fails the whole poll,
or malformed data, which never succeeds, can cause it; cancellation messages,
relinking of reports and finance are left out. `sent` counts to two.

### Runs

| run | instance | shows |
|---|---|---|
| `orders_wb` | WB, 2 runs that may outlast the overlap, 1 FBS and 1 FBO order, 3 instants, deaths and failures | `OnlyTheseAreLost`, `NotifiedIsTrue` |
| `orders_live` | Ozon, 1 run, 2 FBO orders in digest mode, limit 1, deaths and failures, fair | `DigestIsTrue`, `EveryOrderAnnounced`, `DigestComes` |

`OrderLosses` remembers the orders placed in a poll while it outlasted the ten
minutes of overlap (`outrun`) and the FBO orders in the window of a failed FBO
request of Ozon (`overlooked`). The code does lose such orders (`NoOrderLost`,
section 11). `OnlyTheseAreLost` says that nothing else does: every other order
that the poll is responsible for is stored, or the next poll asks for it, although
polls overlap, die, are refused the commit or lose the recovery request.

Bounds: `MaxTime` 2 is enough for an order to fall behind a cursor that moves
wrongly (placed at 0, cursor at 2); `MaxPoll` 2 lets a poll take twice the ten
minutes of overlap. `Limit` stands for 100 and is 1 in
`orders_live`, where it matters. Fairness: open runs do not stall (`WF`); the cron starts the resend
again and again, a run is not killed for ever at the same place, and Telegram
takes or refuses a card that it is offered again and again (`SF`). Polls get no
fairness. `CHECK_DEADLOCK FALSE`: time and orders are bounded, so the instance
comes to rest.

### Proofs

`OrderNotificationsProofs`:

- `TypeCorrect`, with `MarksSent`: a run that marks an order has one in hand,
  and its card was sent.
- `MarksAreTrue` and `DigestsAreTrue`: `NotifiedIsTrue` and `DigestIsTrue`, with
  `GatheredTold`: what a digest will mark is what it told.
- `NothingElseLost`: `OnlyTheseAreLost`, for WB and Ozon, any length of polls and
  any failure of the FBO request. The invariant `PollsTakeOver` says of every open
  poll whose cursor will move that whatever was placed before its requests is
  stored, fetched or remembered as lost; so its cursor leaves nothing else behind.
  It holds for any number of overlapping runs because a row is never taken away
  again.

Only model-checked: the liveness properties.

## 8. HistoryBackfill

### What is modelled

`HistoryBackfill` is the queue of `sync_jobs` and the runs of
`process_history_backfills`, which arq starts every ten minutes whether or not
the previous run has ended. A run reads the pending jobs without a lock and
works through them: `idle -> mark -> products -> chunk -> next job`.

| variable | code |
|---|---|
| `status` | `sync_jobs.status` |
| `loaded` | the committed days of a job's period, for each call of a chunk |
| `run` | a run: the jobs it has read, the job in hand, the first day of the chunk, the call of the chunk, what it has read, whether the session has begun a transaction, whether there is a warning |
| `cut` | history variable: jobs one of whose runs was cut off or lost its rows |

Each call of a chunk succeeds (`LoadBlock`), is refused before anything was
written (`BlockRefused`, which leaves a warning), or fails afterwards
(`BlockLost`). The last is where the session matters: a rollback expires the
rows the session holds, the handler of `run_job` reads `job.id` first and fails
on it, so the failure is recorded nowhere and the remaining jobs of the batch
fall out as well. `Die` is `job_timeout`, a deploy or a crash.

Abstractions: what a row of an answer becomes is left to the other modules; days
are whole; the counters and messages are left out, except that sending a message
may fail (`JobEnds`).

### Runs

| run | instance | shows |
|---|---|---|
| `backfill` | 2 runs, a WB job of two chunks, an Ozon job with an empty period, fair | `TypeOK`, `DoneIsLoaded`, `EveryJobEnds` |

Bounds: two chunks are a chunk with a predecessor whose warning must be
remembered and whose progress must be kept; two runs are two copies of one job
at different chunks. Fairness: a run goes on until it is cut off, the cron comes
again, and a job that is read again and again is marked in the end (`SF` of
`MarkRunning`). `EveryJobEnds` excepts the jobs in `cut`, because for those the
code keeps no promise (section 11).

### Proofs

`HistoryBackfillProofs`: `TypeCorrect`, and `CompletedIsLoaded` for
`DoneIsLoaded`. The invariant `Progress` says of each run without a warning that
every chunk it has passed is committed and every call of the present chunk it has
passed is held. It survives any number of overlapping runs of one job because
`loaded` only grows. Only model-checked: `EveryJobEnds`.

## 9. WbPrices

### What is modelled

`WbPrices` is the way of a price to a Wildberries promotion. A session is a run
of `check_auto_promo_prices` or a request from the page; each judges or reads
recommendations, checks them one by one, uploads them in one POST, polls the
task and commits at its very end:

    idle -> check -> upload -> poll -> commit -> idle
                       |_______________^

| variable | code |
|---|---|
| `wb` | the price in force at Wildberries |
| `need` | the price the promotion asks for |
| `db` | the price the database knows, as old as the last synchronisation: `wb_product_prices.discounted_price`, or before the first one what `_get_current_wb_price` falls back to |
| `recs` | the recommendation of each product |
| `recent` | products that the six-hour rule holds back |
| `rows` | what the price history says of a product |
| `tasks` | uploads at Wildberries |
| `charged`, `lost` | history variables: products whose price one of our uploads has set; products of uploads whose session was rolled back |
| `sess` | local variables of a session and what it has not committed |

`NoAnswer` is the retry of the API client: the upload that was not answered may
have been executed, and is sent again. `AcceptedUnread` is an exception after the
upload was taken. `Cancel` is a task that ends in no outcome the code knows.
`Process` sets all, some or none of the prices. Prices are integers in kopecks
and the arithmetic of the code is kept: rounding up, lowering by one, the
truncated discount (`ListPrice`, `Charged`), the one third of the quarantine,
the deviation from the МРЦ.

Abstractions: one account per run (the failure of another account of the same
run is `RollBack`); uploads fit one batch; `min_price` is left out, since no
caller passes it; the window of six hours ends at any moment (`Expire`), which
includes the right one; other pages that change prices are `SellerSets`.

### Runs

| run | instance | shows |
|---|---|---|
| `prices` | one product, the job and a user, 2 attempts, 2 tasks, a promotion price below and one within the bounds, fair | `TypeOK`, `OursInBounds`, `AppliedIsTrue`, `ChangesAreTold`, `PriceReached` |

Bounds: two tasks are an upload and its repetition, or two sessions with one
each; `MaxMoves` 1 lets the seller, a condition or a preview come between once.
The price of 120000 kopecks, the МРЦ of 100000 with 10 per cent and the wanted
95010 make the rounding and both bounds matter. Fairness: the job comes again
and goes on; uploads are not refused for ever, Wildberries processes one in the
end, a product is not held back for ever when it is looked at (`SF` of
`Accepted`, `Process`, `Take`); prices are synchronised and six hours pass
(`WF`). Users and sellers get none.

### Proofs

`WbPricesProofs`, for any products, sessions, tasks, prices, bounds and
discounts:

- `TypeCorrect`.
- `UploadsInBounds`: `OursInBounds`. `Bounded` says that every price a
  recommendation, a session or a task holds is in the bounds of the МРЦ, however
  old the recommendation is; the arithmetic lemmas `CeilFacts` and `Rounding`
  say what the rounded list price charges.
- `AppliedPrices`: `AppliedIsTrue`, from `Polls` (a task is polled by one
  session, which has sent just these items) and `Fulfilled` (a task that says
  success has set its prices).
- `NoSilentChange`: `ChangesAreTold`, from `Told`: the product of a task that is
  still queued is in the history, in an open session or in `lost`.

Only model-checked: `PriceReached`.

## 10. WbReports

### What is modelled

`WbReports` is one report number of one account. WB issues it again with
corrected lines, so a line has a business key, by which its row is found, and a
text, whose hash makes the row unique. An import is one transaction that reads
(`ReadExisting`) and then writes and commits (`Store`); a relink reads a limited
number of waiting rows (`ReadRows`) and then links and commits (`RelinkDone`);
deletion and restoration are single steps.

| variable | code |
|---|---|
| `rows` | `wb_daily_report_rows`: live (`is_active`, `deleted_at`), `import_id`, text, and what the order columns say together (`match`) |
| `attempt` | `last_match_attempt_at`, reduced to its order |
| `money` | the finance components each import made of a row, and whether the analytics count them |
| `imports` | `wb_daily_report_imports.status` |
| `orders` | how many orders of the database match a line |
| `upload`, `relink` | what open imports and relinks have read |
| `revived` | history, no part of the code: the rows whose linking has switched components on again since an import last wrote them |

Of a row that exists only the columns that differ from what was read are
written; in particular `is_active` never is. `Violates` is both unique indexes:
the one on the hash counts deleted rows, the partial one on the business key does
not. `LinkedMoney` is `_activate_components_for_match`, which takes every
component of the row.

A relink has three outcomes for each row it has read: an order is found
(`Matched`), none or several are and the row goes on waiting, or an exception is
caught, the row gets the status `error` and the loop goes on (`Aside`). All are
committed together. The query of later relinks (`Linkable`) does not take rows in
`error`; only an import that writes the row clears it. `RelinkFails` is the other
failure, that of the transaction or of the process.

Abstractions: only lines that need an order; the file fits one batch of 500;
how an order is recognised is its outcome (none, one, many), and the statuses
pending, not found and ambiguous are one (`waiting`), since a relink takes all
three; timestamps are kept by their order; two imports that write one row at a
time leave the text of the later one (a mixture of columns is not visible); one
limit for the callers that pass 2000 and 1000.

### Runs

| run | instance | shows |
|---|---|---|
| `reports` | 2 lines, a file and its correction, 2 uploads, 2 rows per line, the worker and a page linking one row at a time | `TypeOK`, `DeletedIsOut`, `CurrentIsCounted` |
| `reports_live` | the same without the page, fair | `EveryOrderIsLinked` |

`DeletedIsOut` is about rows and money: no row of a deleted import is live, and
no component it made is counted, unless the row is in `revived`. The code does
not keep the promise without that exception (`DeletedIsNotCounted`, section 11).
`EveryOrderIsLinked` says that a line does not wait for ever; an error ends the
waiting without a link, which the comment of the property says.

Bounds: two uploads are a report and its correction, or the same file twice; two
rows per line are a deleted row and the one that took its place; a limit of 1
makes two waiting lines compete. Fairness: the worker's relink comes every two
hours (`WF`) and is not rolled back for ever (`SF` of `RelinkDone`); pages get
none.

### Proofs

`WbReportsProofs`: `TypeCorrect`, `DeletedStaysOut` (`DeletedIsOut`) and
`NoMoneyLost` (`CurrentIsCounted`), for any lines, files, uploads, limits and
relinks, with no assumption about how they overlap. What has been read may be
out of date but names a row that exists (`SeenExists`, `ReadExists`), since rows
never go away; the import a row shows has made components of it
(`MadeByImport`), which is what a restored or relinked row needs to be counted;
and a component of a deleted import can only be counted through a linking that
found it switched off (`MoneyIsOut`). Only model-checked: `EveryOrderIsLinked`.

## 11. Disagreements

The runs keep to what the code does hold. The properties below are in the
modules too; TLC breaks each of them within seconds in the given instance, in
which a run's cfg checks that property alone (with the constants changed as
said, and without symmetry).

| property | instance | what the code does | what the repository says |
|---|---|---|---|
| `ExactlyOnce` (Payments) | `PaymentsSerial.cfg` with `Sessions = Workers = Handlers = {s1, s2}`, `Payments = {p1}`, `Promo = {}` | the status is read before the provider call and never again under a lock, `subscription_applied_at` is never read: two overlapping confirmations grant two periods | root `README.md:89` «идемпотентная обработка webhook по provider payment id»; `README.md:705` «Повторная активация подписки защищена статусом платежа и `subscription_applied_at`» |
| `PromoBooksBalance` (Payments) | `PaymentsLive.cfg` | `used_count` is incremented in Python; one payment confirmed twice counts twice | the same |
| `OneMessage` (Payments) | `PaymentsLive.cfg` | the mark is committed after the message is sent, so a rollback and a retry send it again | `payment_service.py:768` "Idempotent: checks success_notification_sent_at to avoid duplicates." |
| `OnePendingPerOrder` (Payments) | `PaymentsSerial.cfg` with `Sessions = Workers = Handlers = {s1, s2}` | search, provider call and insert are not atomic | `payment_service.py:127` "If a PENDING payment already exists for this user, returns it instead of creating a duplicate." |
| `RenewalGivesAccess` (Subscriptions) | `SubscriptionsRace.cfg` | a cancellation that commits between read and write of a renewal leaves the payer with a CANCELLED row | root `README.md:90` «активация подписки после успешной оплаты» |
| `UnendingStays` (Subscriptions) | `SubscriptionsRace.cfg` | paying for a subscription without an end gives it one | `subscription_service.py:370` "Renew subscription from current expiration if it is still active." |
| `CancelKeepsAccess` (Subscriptions) | `SubscriptionsRace.cfg` | a cancelled row does not count any more: the paid term ends with the press of the button | `app/bot/handlers/subscription.py:1040` «Доступ к функциям сохранится до конца оплаченного периода», and again in the answer, line 1083 |
| `TotalLimit` (PromoCodes) | `PromoCodesCheckout.cfg` with `Users = {u1, u2}`, `Tiers = {basic}`, `MaxTotal = 1` | the limit is compared with `used_count` when a code is sent; reservations of others do not count, so all of them can be spent | root `README.md:571` «общий лимит использований» |
| `TariffRestriction` (PromoCodes) | `PromoCodesCheckout.cfg` with `Remainder <- PartOfPrice`, `Handlers = {h1}` | a restarted checkout keeps the usage of the previous tier | root `README.md:573` «ограничение по тарифам» |
| `CoveredIsFree` (PromoCodes) | `PromoCodesCheckout.cfg` with `Remainder <- ExactPrice`, `Handlers = {h1}` | a discount equal to the price is stored as `"0.00"` and compared with `"0"` | `app/bot/handlers/subscription.py:560` «Промокод покрыл стоимость периода полностью» |
| `PerUserLimit` (PromoCodes) | `PromoCodesCheckout.cfg` with `Remainder <- PartOfPrice`, `Handlers = {h1}` | a reservation that has timed out can be made again, and both be paid | - (follows from the 60 minutes) |
| `SpentOnce`, `OneReservation` (PromoCodes) | `PromoCodesCheckout.cfg` | two updates of one chat read the same reservation, or both find none | - |
| `NeverTwice` (SyncRuns) | `SyncRuns.cfg` | the sweep or a failed request gives up a row whose job goes on, and the next request starts a second one | `CHANGELOG.md:43` «Защита от дублей» |
| `NoOrderLost` (OrderNotifications) | `OrderNotificationsLive.cfg` with `MaxTime = 3` | a failed FBO request does not keep the cursor | `tests/unit/test_fbs_order_notification_retries.py:477` "Verify that the poll window extends 10 minutes before last poll to prevent gaps." |
| `NoOrderLost` (OrderNotifications) | `OrderNotificationsWb.cfg` with `MaxTime = 3` | the cursor is the time of the end of the poll | the same |
| `DigestInstead` (OrderNotifications) | `OrderNotificationsLive.cfg` | the resend sends cards of orders that are queued for the digest | `order_processing_service.py:97` "Prepare saved FBS-like order notifications without polling marketplace APIs." |
| `EveryOrderAnnounced` (OrderNotifications) | `OrderNotificationsLive.cfg` with `FboMode = "off"`, `Fbo = {1}` | the limit is applied before the policy, and orders that it skips are never marked | `tasks_main.py:686` "deliver saved FBS-like orders with first_notified_at IS NULL." |
| `DeletedIsNotCounted` (WbReports) | `WbReports.cfg` | a relink that read a row before its import was deleted switches the row's components on again | `app/web/route_modules/wb_daily_reports.py:545` «Связанные строки и финансовые операции больше не учитываются в аналитике.» |
| `CountedOnce` (WbReports) | `WbReports.cfg` | linking a row, or restoring an older import, switches on the components of versions that a correction has replaced | `wb/reports/import_service.py:117` "Persist parsed WB daily reports with idempotency and deduplication." |
| `KeptIsLive` (WbReports) | `WbReports.cfg` | a deletion between an import's read and its write: the row joins the new import and stays deleted | the same |

The following are read off the code without a property.

*Sync runs.* The sweep ends a run after 30 minutes where `CHANGELOG.md:57` says
two hours, and six for backfills; the sweep of the page, which `CHANGELOG.md:70`
announces, is rolled back.

*Subscriptions.* The admin's profile form (`admin_visibility.py:444`) posts the
end date it was rendered with; saving a phone number takes back a renewal that
was paid meanwhile.

*History backfill.* A job whose call or commit fails after rows were written, or
whose worker is cut off, stays `RUNNING` and is never taken up again; the message
that follows says «Первичная синхронизация завершена» with empty counters, and
the other jobs of the batch wait for the next run. A finished job goes back to
`RUNNING` when a second run has read it before. An error while reports are linked
makes a job `FAILED` whose data is complete.

*Prices.* `min_price` is never passed to the check that would heed it, although
`mrc_pricing.py:968` promises «не ниже minPrice». A fractional discount is
accepted and uploaded truncated, so the buyer pays more than the target; a
discount of 0 becomes 75. A cancelled upload is reported as pending; pending,
sent and failed uploads do not count for the six hours, while previews do. A
rollback takes the history of prices that Wildberries has already set. Without a
key the page of promotion prices answers with an error, and the branch that would
decrypt the stored key is not reached (`mrc_pricing.py:890`). After the rollback
of a chunk, `wb_current_prices_sync_service.py:227` says "After rollback the
session is usable again; continue with next chunk", and the next chunk reads
`account.id` of an expired row.

*Reports.* After an import is deleted the same file cannot be uploaded again,
since the index on the hash (`wb_reports.py:405`) counts deleted rows; restoring
an import whose lines were uploaded again fails on the partial index and the
exception reaches the page. Rows move to the import that corrected them, so
deleting that one takes them from the earlier one too. A row that an error has put
aside while it was matched (`relink_service.py:82`) is not taken up by a relink
again, not even by the page's button.

## 12. What stays with TLC, and what is left out

Every safety property and action property that a run checks is proved for all
values of the constants, and no theorem assumes that sessions, handlers or polls
do not overlap, that calls succeed or that reservations do not time out: where a
promise needs such a thing, the property itself says so of the rows concerned
(section 2). One property is the exception, the refinement `LedgerSpec`. It is
false when sessions overlap, `payments_serial` checks it with one session, and
`FollowsLedger` is what is proved in its place. Type invariants that no run lists
(`SyncRuns`, `OrderNotifications`) are proved only.

Liveness under fairness is out of the prover's reach and stays with TLC:
`PaidIsSettled`, `CancelIsRecorded`, `EveryRunEnds`, `EveryOrderAnnounced`,
`DigestComes`, `EveryJobEnds`, `PriceReached`, `EveryOrderIsLinked`. So does that
the systems can go on at all (ENABLED).

All assumptions that proofs use are named `ASSUME`s of the modules and are
evaluated by TLC in each run.

Not modelled, and why:

- Sales events, Ozon prices, Ozon finance, MRC rules, catalogue, stock,
  commissions, tariffs: imports by one session that replace what they find; the
  parts of them that meet other components are steps of the modules above
  (`StoreElsewhere`, `OrderLoaded`, `SellerSets`, `SyncPrice`).
- Alerts and daily reports: the loop of sending and marking is that of
  `OrderNotifications`.
- Web sign-in, accounts and keys: state machines of one row each; the next
  candidates for a module.
- The participation service of auto promotions: the same upload as `WbPrices`
  with a response that is not looked at.
- Feature access, calculators: functions without state.
- Pages, texts, rendering, administration, deployment, backup, migrations, CLI:
  I/O and layout, more than half of the implementation's lines.

`PROJECT.json` lists each component with its sources and status, and the hazards
with their lines; those of them that no property covers say why.
