# Vidalys Pay in TLA+

A verification development of the payment-link service in `src/`: sellers
create Pagar.me payment links, Pagar.me reports payments by webhook, and an
outbox worker tells sellers about it on WhatsApp and by web push. The models
follow the Python code in `src/apps/`; the documents under
`src/vidalys_pay_documentacao_final/` only supply what the code is *meant* to
do, and where the two disagree a configuration shows it (section 6).

Contents: 1 inventory, 2 modules and how they correspond to the code, 3 runs,
4 fairness, 5 what is proved, 6 disagreements with the documents, 7 what is not
modelled, 8 what could follow.

## 1. Inventory

The system is a Django 5 application under gunicorn (three worker processes,
killed after 60 s without an answer), a second process that runs
`run_outbox_worker` for ever, and PostgreSQL at READ COMMITTED in autocommit:
there is no `ATOMIC_REQUESTS`, so each ORM call outside an explicit
`transaction.atomic()` commits on its own. The cache is Django's default one,
in the memory of each process. Nearly all that is hard comes from there: a
request is a sequence of small transactions with decisions in memory between
them.

| Component | State | Operations | Talks to |
|---|---|---|---|
| Payment webhooks (`webhooks/`) | `WebhookEvent`, the status of `PaymentLink`, `PaymentAttempt` | receive, deduplicate, guard, six handlers, reprocess | Pagar.me calls it; queues notices in `on_commit` callbacks |
| Notification queueing (`whatsapp_service`, `push_service`) | `NotificationOutbox`, `WhatsAppMessage` | `_queue_message` (check, delete, insert), `queue_payment_status_push` (get or create) | called by webhooks, links, sellers |
| Outbox worker (`run_outbox_worker`) | the same rows, a batch in memory | recover, claim, send, retry, give up | Evolution API, web push |
| Link creation (`payment_links/`) | `PaymentLink` and its idempotency key | create, retry, resend | calls Pagar.me, queues the message |
| Invitations and sessions (`sellers/`, `admin_panel/`) | `Seller.is_active`, `SellerInvitation`, `SellerSession` | invite, revoke, activate, deactivate, log out | queues the invitation |
| Push delivery (`push_service`, `push_api`) | `PushSubscription`, progress in the row's payload | register, deliver per device, deactivate | called by the worker |
| Rate limit (`core/rate_limit`) | counters in the cache | count and refuse | decorates four views |
| Freight (`freight/`) | cached token, cached options, cached addresses | authenticate, quote, merge, sort | Correios, ViaCEP, BrasilAPI |
| Payload normalisation (`pagarme_payload`) | none | pure functions | used by the webhook |
| API keys, webhook authentication, gateway diagnostics, panel pages, audit, health | little or none | look-ups and pages | |

What makes each of them correct, and what makes it hard:

* **Webhooks.** A payment that was recorded is not lost; a status, an attempt
  and a notice stand or fall together; every stored event is settled. Hard
  because the guard is evaluated on a copy that nothing locks, because the
  handlers take the same two row locks in both orders, and because the notices
  are written after the commit.
* **Outbox.** A row has one sender; DONE means that the provider accepted it and
  DEAD that it was tried as often as configured; what is queued is settled.
  Hard because the worker sends from a copy, outside any transaction, while
  callbacks delete and replace its rows, and because it may die anywhere.
* **Links.** One key, one charge; a URL belongs to the body it is given for; no
  late save undoes a payment. Hard because the key is checked and inserted in
  two steps and the provider is called, for up to a minute, in between.
* **Access.** One session for each invitation; nobody inactive gets in; a new
  invitation replaces the old. Hard because these are three racing
  transactions on the same rows.
* **Push.** A device is sent a notice once, a notice is done when the whole list
  was reached, and what a seller switches off stays off. Hard because the worker
  sends, with no time-out, to copies of the rows, and saves three things after
  each device.
* **Correlation.** A payment marks its own link. Hard because a payload may lack
  any of its parts, references repeat, and each lookup is a query of its own
  while rows are created and deleted.
* **Rate limit.** A client gets no more than the limit. Hard because the window
  of a key is computed at one moment and the entry's life at another, and
  because entries can be lost.
* **Freight.** A dead token costs a retry and not the quote; the option called the
  best is the cheapest; no old quote is shown. Hard because the life of a token
  is stated in four forms, cached with a margin and a floor, and may end between
  two calls of one request.

The hazards, each at its line and with the properties that watch it, are listed
in `PROJECT.json`.

## 2. Modules

| Module | What it is |
|---|---|
| `PagarmeWebhook` | reception and `process_webhook_event`, statement by statement |
| `NotificationDelivery` | abstract: what the outbox promises of each notice |
| `OutboxWorker` | the worker and the callbacks that queue; implements `NotificationDelivery` |
| `IdempotentCreation` | abstract: what a creation promises to those who retry |
| `LinkCreation` | `create_payment_link` as concurrent API requests run it; implements `IdempotentCreation` |
| `SingleUseInvitation` | abstract: invitations that are used or revoked once, in one step each |
| `SellerAccess` | invitations and sessions of one seller; implements `SingleUseInvitation` |
| `PushDelivery` | `send_push_outbox_item` over several devices, and the endpoint that registers them |
| `PaymentCorrelation` | `normalize_event` and `_find_payment_link`, while the links' rows come and go |
| `RateLimit` | the decorator's counters in the caches of the processes |
| `FreightQuote` | a freight quote: token, prices, delivery times, and the two caches |
| `MC...` | the instance for TLC: payloads and symmetry |
| `...Proofs` | the theorems of each module |

Within the models a *thread* is a request of gunicorn. `pc` says before which
statement it stands, the other indexed variables are what it has in memory, and
its end resets them, so that dead threads do not multiply states. Operators
named `X_Something`, marked *Mutant*, are wrong versions of `X` that each
property has been seen to reject; no specification uses them.

### PagarmeWebhook

`eventStatus` and `content` are the `WebhookEvent` rows, `linkStatus` and
`attempt` the two tables, `outbox` and `push` the notices, `linkLock` and
`attemptLock` PostgreSQL's row locks; `recorded` is history, the attempt statuses
that commits wrote, each with its link and charge. The tables hold *committed* values: what an
open transaction wrote is implied by the thread's label and becomes visible in
`Commit`. `EVENT_MAP` is the table of `event_mapping.py`, with one event type
for each distinct entry (the comment there says which types share one).

| Action | Code |
|---|---|
| `Receive`, `Redeliver` | `pagarme_webhook`: insert the row, or find the duplicate and rerun it if FAILED |
| `Reprocess` | `WebhookEventAdmin.reprocess_event` |
| `Begin`, `Ignore` | `process_webhook_event` up to `atomic()`: configuration, `_find_payment_link`, guard |
| `Raise` | an exception of `normalize_event` or `_find_payment_link`, which are outside the `try`: the event stays RECEIVED and no thread has it |
| `UpdateLink`, `FindAttempt`, `WriteAttempt` | the handlers' statements, in the order each handler has |
| `Commit`, `Abort`, `DeadlockVictim` | the end of `atomic()`, and the `except` branch |
| `CheckOutbox`, `InsertOutbox`, `InsertClash`, `QueuePush` | the `on_commit` callbacks |
| `Crash`, `Deliver` | a thread dies; the worker settles a row |

A payload resolves to a link, to none, or to `Raises`; `PaymentCorrelation` says which
payloads raise. `Processable` is an event that gets past those lines: `NothingIsForgotten` and
`EveryEventSettles` are claims about these, and of the others the opposite is true
(`correlation_null.cfg`). `NoticesAreBacked` asks, for each notice, for a commit of the status
it tells of on its link, and for its charge where its key names one, so that a rolled
back refund is not excused by an earlier payment. `PaidNeverRegresses` is about
every event but a refund: that a refund changes nothing either is a defect
(`webhook_refund.cfg`) and not a promise.

Three properties speak of what is under way. `NothingIsForgotten` names the hands that
an unsettled event and an unannounced payment are in. `DeadlockShape` says where two
transactions wait for each other; `SomeTransactionMoves`, that with any number of
threads nothing else blocks them all: while transactions are open, one has the row it
needs or two wait for each other, which is the cycle `DeadlockVictim` breaks.

`_handle_mark_expired`'s early return is followed by the assignment of PROCESSED
in its caller, and the model writes what the code ends up writing.

### OutboxWorker and NotificationDelivery

A row is a deduplication key. `Boot` is the start of the command with its only
recovery of stale rows, `Claim` the `SELECT ... FOR UPDATE SKIP LOCKED`
transaction, `MarkSending`, `SendText`, `Record`, `Bury` and `Settle` the separate
saves of `_send_whatsapp`, `_handle_failure` and `_process_item`. `Refuse` is the two
returns of `_send_whatsapp` before any call: the payload has no message, phone or text
(`complete` is false), or the `WhatsAppMessage` was deleted (`DeleteMessage`); each counts as an
attempt. `SendText` has four outcomes: the provider takes the message or not, and the worker
learns of it or not. `Record` saves SENT with a `save()` that inserts a deleted message again,
and `RecordFails` is that insert failing because its seller is gone too. `QueueCheck` and
`QueueInsert` are the two halves of `_queue_message`; an
insert deletes a settled row, and `gone` remembers the rows deleted under a
worker, whose save then raises out of the loop (`DatabaseError`). `accepted`, `tries`,
`refusals` and `orphans` are history; an orphan is a row that was in hand when its process
ended and that no start has recovered since. Time is two facts: a backoff has passed (`due`), a
lock is older than `OUTBOX_STALE_LOCK_SECONDS` (`stale`).

A dead process may start again at any moment, before its locks are stale or after:
`restart: always` does either. One constant chooses the environment: `Timely` says that a
batch ends before its locks are stale. Ten sends with 3 s to connect and 10 s to answer take
about two minutes and the limit is ten; a push without a time-out in the same batch can
break it. What happens then is not claimed by any property (it is a hazard without one).

`NotificationDelivery` has two variables, what may be said of a notice and
whether the provider accepted it, and it is a safety specification. The mapping is
`Notice(status)`: PENDING and PROCESSING are "queued", DONE is "delivered", DEAD is "abandoned".
That every notice leaves the queue is not promised, because it is false:
`outbox_stuck.cfg` has `NoNoticeIsLost` violated by a quick restart. What is true is stated with
that cause named. `NothingIsStranded`: a row that is PROCESSING in nobody's hands is an orphan,
so nothing but the end of a process strands one. `EveryNoticeSettles`: a PENDING
notice is settled or orphaned in the end.

### LinkCreation

One seller. `link` has the row of each idempotency key, `charges` what Pagar.me
made, `message` and `pending` the outbox row of the link. `Arrive`, `Check`, `Insert`,
`Call`, `Save` are the stretches of `create_payment_link` between its database and
network calls; `Call` has every outcome (made or not, and answered `active`,
`building`, a status from 400 on, or nothing). `Queue...` is
`_queue_whatsapp_notifications`, `Resend` the resend view, `Webhook` the statuses
that the webhook may write meanwhile, `Crash` a thread that gunicorn kills.

`IdempotentCreation` has four variables: the body that a key is bound to, what was charged
for it, whether that was paid, and what each request was told. The mapping takes the body
and the payment from the row and `Told` from the answer: a URL and a conflict are promises,
"processing", "unknown" and errors are none.

### SellerAccess

One seller and his invitations. `Generate` and `InsertInvitation` are
`generate_invitation`, called by the panel and by two actions of the Django admin;
`StartRevoke` and `Revoke` are the panel's revocation. Both run an UPDATE of the open
invitations, as PostgreSQL does it: it selects its rows when it starts (`found`), takes them
one by one in any order (`TakeRow`; `todo` is what is left), waits for a row
that is locked while it holds those it has, and leaves out one that no longer
matches. `StartActivation`, `LockInvitation`, `LockSeller`, `CreateSession` are `activate_session`,
whose `select_related().select_for_update()` locks the invitation and then the seller row
too, and whose clock is read before either is granted (`late`). `ReadActive` and `WriteActive` are
`toggle_seller`, `ReadSessions` and `RevokeSession` are `revoke_all_sessions` one save
at a time, `Rollback` an exception, the death of the thread, or being the victim of a deadlock.

`WaitsFor` is who waits for whose row. Two UPDATEs that visit two open invitations in
opposite orders wait for each other, in the code as in the model, and only a `Rollback`
gets them on. `CirclesAreOfUpdates` says that this is all: a request that is not in the middle
of an UPDATE, and that somebody waits for, waits at most for a request that waits for
nobody, so no circle passes through it.

`SingleUseInvitation` has the committed rows only, no threads, locks or messages: `Issue`
(with the revocations that go with it), `Revoke`, `Redeem`, `Close` and `Toggle` are one step
each. The mapping is the identity; all else that a request does is a stutter.

### PushDelivery

`owner`, `active` and `failures` are the `PushSubscription` rows, `status`,
`attempts`, `recipient` and `progress` the outbox rows of topic `webpush.send`, whose
payload keeps the devices that were reached. Claims, batches and backoff are
OutboxWorker's: here a worker has one row at a time and a lock may be stale when its
owner is dead: `Boot` recovers any part of the rows that dead workers left, since the process
may start before or after the limit.

| Action | Code |
|---|---|
| `Register`, `Remove`, `Delete` | POST and DELETE of `push_subscriptions`, and the admin |
| `Queue` | `queue_payment_status_push` |
| `Boot`, `Claim`, `Settle` | the worker's start, its claim, and `_process_item` with `_handle_failure` |
| `ListDevices`, `Send`, `EndDevices` | the loop of `send_push_outbox_item` |
| `SaveDelivered`, `SaveProgress`, `SaveExpired`, `SaveFailed` | its four saves |
| `SaveRaises`, `ProgressRaises` | an exception in one of them: the first is counted as a failure of the device, one in the `except` clause ends the loop |
| `Crash` | the process dies, and its memory with it |

`seen` is the failure count of each copy, since the code saves the copy and not
an increment. `received`, `listed`, `expired`, `removed` and `orphans` are history. `InCall` is a
worker that waits for a push service: `webpush` is called without a time-out, so nothing
says that it ends, and `EveryPushSettles` has its end as a hypothesis.

### PaymentCorrelation

`row` is each link's row, none or one without or with the provider's id, `call` where
`create_payment_link` is with it, `made` what the provider has made, and `ref` which reference it
has. A payload is about a link `of`, which it does not say as such: it may have the internal id in
one of three metadata objects, the provider's id, and the reference, and any of its objects
may be missing, null or of another type. `Insert`, `Make`, `SaveLink` are the steps of
`create_payment_link`; `Delete` is the Django admin's, which may delete any row at any time, the
one of a creation under way included. The `save()` that ends the creation
(`use_cases.py:177`, `192`, `210`) has no `update_fields`, so it inserts such a row again, and rows come and
go in both directions. `marked` (the link that the latest run marked), `known` and `kept` (the
event's own row was there from the beginning of that run to its end) are history. An event that
is not `kept` was looked up while its row was missing.

| Action | Code |
|---|---|
| `Receive`, `Again` | `pagarme_webhook`; a redelivery of a FAILED event or `reprocess_event` |
| `Normalize` | `normalize_event`: `.get()` of a null raises |
| `ByInternal`, `ByProvider`, `ByReference` | the queries of `_find_payment_link`, in their order |
| `Mark` | the handlers' transaction: it may fail for any reason, and does on a row that is gone; or fail after its commit, in a callback |
| `Raise` | an exception before the `try` of `process_webhook_event` |

PagarmeWebhook begins where this module ends: its events carry their link, and the
guard that may ignore an event of a link that was found is there, as are threads that
die and two that process one event.

### RateLimit

`count` and `expiry` are the cache entries of each process, client and window.
`Arrive` computes the key, `Add` or `AddFails` is `cache.add`, `Incr` is `cache.incr` with its
`ValueError` branch. `Cull` and `Restart` lose entries: `since` is the number of the loss a
counter began after, and `passed` the requests let through, each with its key, its moment,
its number and that loss, so that the bounds are counts of a sequence. A request is counted at most
`MaxDelay` seconds after it computed its key.

### FreightQuote

One gunicorn process, which handles one request at a time; the other processes and
the Correios are what may happen to its token (`Revoke`), and a full cache drops entries
(`CullToken`, `CullQuote`). `Ask` begins a request (`CachedQuote` answers from the cache),
`CachedToken`, `LoginNamed` or `LoginUnnamed` gets a bearer, `ResolveDR`
the regional office, `Prices` and `Deadlines` are the two batches, `Refused` is the 401
with its one retry. Each has the failures the code catches (`LoginDenied`, `LoginFails`,
`ResolveFails`, `PricesFail`, `NoDeadlines`). `TokenLife` is `calculate_token_ttl` for a life in
seconds, an ISO date, something unreadable, or nothing; `CacheLife` takes off the margin
and applies the floor. An answer may have its token under `token` (`named`) or only under
`access_token`: the second is accepted and cached (`correios.py:179`, `270`), but only `token` is
ever read, so that request fails with a KeyError and the next one logs in again.
`LoginsAreSpaced` is therefore about usable tokens, and `freight_unnamed.cfg` has `EveryTokenIsKept`
violated by the others. The options are sorted as `_sort_options` does. Time is in minutes, and
the code's margin, floor and lives are constants that `MarginAssumption` relates as they
are in the code; a request ends within gunicorn's `--timeout` of a minute.

## 3. Runs

All run with two TLC workers in at most a few minutes. Symmetry is used for
safety only.

| Run | Instance | Checks |
|---|---|---|
| `webhook_serial` | one thread, three events, one link, one order | `OneAttemptPerOrder`: an order never gets two attempts, though no constraint says so; `PaidNeverRegresses`: no event but a refund takes a link away from PAID |
| `webhook_concurrent` | two threads, two events | `PaidHasEvidence`, `NoticesAreBacked`, `DeadlockShape`, `RegressOnlyOnStaleRead`, `RefundUndoneOnlyByCharge` |
| `webhook_live` | two threads, two events, no crashes | `NothingIsForgotten`: what is still to be done is in a running thread's hands; `EveryEventSettles`, `PaidIsNotified`; the first two for payloads that do not raise before the `try` |
| `outbox` | two workers that start at any moment, two keys, two callbacks, batches of two, two attempts, one crash, one deleted message | `NothingIsStranded`, `ClaimExclusive`, `DoneWasSent`, `DeadWasTried`, `EveryNoticeSettles`, `ImplementsDelivery` |
| `link_creation` | three requests, two keys, two bodies, one crash | `OneCharge`, `UrlIsForThisBody`, `PaidIsKept`, `ImplementsCreation` |
| `invitations` | two threads, three invitations | `OneSessionPerInvitation`, `CirclesAreOfUpdates`, `NoSessionForInactive`, `InvitationsAreReplaced`, `ImplementsInvitations` |
| `push_delivery` | one worker that starts at any moment, two devices, one notice, two attempts, one fault | `RetiredInTime`: a device whose sends fail `MaxFailures` times in a row is off; `AtMostOncePerFault`: a notice reaches a device once, and once more for each crash, lost answer or failed save; `DoneReachedEveryone`; `QuietRemovalHolds`; `EveryPushSettles`, if no push service keeps the worker for ever |
| `rate_limit` | two processes, a limit of two in windows of two seconds, one loss | `WindowBound`, `SlidingBound` |
| `freight` | tokens that live 0, 2 or 4 minutes, two logins, three prices and two delivery times or none for two products, five minutes | `LoginsAreSpaced`: with a usable token in the cache another is asked for only when that was kept for its least time; `RefusalIsExplained`: a quote fails for its token only if the login or two tokens were refused; `TokenOutlivesRequest`; `BestIsCheapest`; `QuoteIsRecent` |
| `correlation` | two links that may share a reference, one event with any payload, one more processing | `UnsettledIsExplained`: processing leaves an event RECEIVED only for a payload that raises, FAILED only if it got to the handlers, PROCESSED only with a link that it marked; `ForeignIsOrphan`, `IgnoredIsExplained` |
| `link_unsent` | two requests of one key, no crash | `UrlIsSent`, a sentence of the product's requirements, is violated (section 6) |
| `invitation_survives` | two threads, two invitations, no exceptions | `AccessesAreRevoked`, a sentence of the security document, is violated (section 6) |

No run is spent on the type invariants, nor on `LockInv` of the webhook: TLC checked them
while they were written, and they are theorems. `SomeTransactionMoves` needs three threads
to say more than `DeadlockShape`; with three threads and three events it holds in 1.9
million states, and it is a theorem too.

Ten more configurations are kept for the other disagreements of section 6 and run by
hand, `tlc -config webhook_refund.cfg MCPagarmeWebhook` and so on: each asks one property
that a document, a comment or the code's own intention states and TLC finds it violated.

`invitations` has a `VIEW` that leaves out which invitation the waiting message is about: no
guard and no property of that run reads it (`invitation_unsent.cfg`, which does, has no view).

Why the bounds are enough to be interesting. Every conflict in the code is
between two transactions on one row or one key, so two threads meet all of them;
the third request of `link_creation` lets a retry find what a first and a second
left behind. Three events are the shortest story in which a status is reached,
left and could be reached again. Two attempts of a notice show the first, a
middle and the last failure. Three invitations let two threads generate one each
on top of one that is being activated. Two devices let a failure come before and
after a success; two failures instead of five still show the first and the one that
retires. Two links with two references let a reference be shared or not, and a
shared one become unique by a deletion and shared again by the save that undoes it; with three
links of one reference the properties were checked by hand. Windows of two seconds have a first, a last
and a late second. The times of `freight` are
scaled down, the margin to 2 minutes and the quote's life to 4: tokens of 0, 2 and 4
minutes are dead at once, live for the floor and a request, and outlive the margin, and
three prices, one of them missing, with two delivery times or none give every kind of order
of two products. One worker is what docker-compose starts; two share no more than
the counters of a device in `PushDelivery`, and its theorems are for any number. The
bounds that the guards name are `MaxCrashes`,
`MaxDeletions`, `MaxFaults`, `MaxLosses`, `MaxLogins`, `MaxRetries`, `MaxCount` (counts beyond the limit
that are refused alike) and `MaxTime`; `MaxAttempts`, `MaxFailures` and `MaxRequests` are
settings of the code. All others are the sizes of the constant sets. The theorems of
section 5 drop them for the safety properties.

Deadlock is checked in `invitations`, where it says little since any request may fail;
`CirclesAreOfUpdates` says which waits it takes a failure to end. The other models stop when their finite sets
of events, requests or callbacks are used up, so there
`CHECK_DEADLOCK FALSE` is set where that state exists; what may really block is
covered by `DeadlockShape` and by liveness.

Every property of a passing run has a mutant in `PROJECT.json`: a plausible bug
in one mapped definition that makes TLC find it violated.

## 4. Fairness

`PagarmeWebhook!Fairness`: a thread inside `process_webhook_event` runs on (weak
fairness of its steps), and PostgreSQL serves the waiters of a row in order,
which is strong fairness of the two statements that wait. Nothing forces an
event to arrive, to be delivered again, or an administrator to act. Crashes are
left out of `webhook_live`, because a thread that dies is not resumed by
anything.

`OutboxWorker!Fairness`: the command loops and docker restarts it
(`docker-compose.yml`, `restart: always`), at any moment; a callback that has checked goes on to
insert; time passes. Nothing makes the provider answer or accept: the notices settle because
`send_text` has time-outs and the attempts are bounded. Nothing makes a restart
wait until the locks are stale, which is why the liveness of this model has the orphans in its
conclusion.

`PushDelivery!FairSpec`: the steps of each worker are weakly fair, which says the same of
the loop and of docker, but not the step that is the push service's answer (`Send`): the code calls
`webpush` without a time-out. `EveryPushSettles` therefore has a hypothesis, that no worker is in
such a call for ever, and the orphans in its conclusion as above.

## 5. What is proved

TLAPS checks about 7,000 obligations in eight modules, for every number of threads,
events, links, keys, rows, invitations, devices, processes, prices and faults. Every module
has its `TypeCorrect`; the other theorems, and what each argument rests on, are these.

* **`PagarmeWebhookProofs`**
  * `NoLockLeaks`, `PaymentsAreEvidenced`, `NoticesFollowCommits`, `Deadlocks`,
    `RegressionsAreStale`, `RefundsAreUndone`, and for one thread `SerialPaymentsStay` and
    `SerialOrdersHaveOneAttempt`. None of the properties is inductive: what a transaction
    may write depends on the guard it passed several statements ago, on the attempt
    its lookup returned and on the locks it took. `ControlInv`, `LockOrder` and
    `QueueInv` say what of that still holds at each label. With one thread, `FreshRead` and
    `FreshLookup` add that what it read of the link, and the attempt it did not find, are
    still so when it commits; with two they are false.
  * `NothingForgotten`, of `RunningSpec`, which has no crashes. The three parts hang together:
    `PushInHand` and `MessageInHand` follow the approval from the commit through the three
    callbacks, and each step that leaves a label must show either the row it wrote or the
    thread that has it now (`ApprovesFrame` says that other threads' hands do not move). With
    crashes it is false, which is what `hazards` says of `processor.py:113`.
  * `NeverAllWaiting`. A thread that waits for the link row waits for one that can only wait
    for an attempt, and the other way round (`WaitedFor`); they are all of one link, whose row
    one thread holds. So a chain of waits comes back to that thread at its third
    step, and closes a cycle of two (`CyclesAreShort`), which PostgreSQL breaks.
* **`OutboxWorkerProofs`**
  * From `Timely`, `ClaimsAreExclusive`, `DoneRowsWereSent`, `DeadRowsWereTried` and
    `PromiseIsKept`, the refinement: each step maps to a step of
    `NotificationDelivery` or to none. The invariant ties a worker's copy to the
    table (`CopyInv`), which only holds while its lock is fresh, and counts its calls and its
    refusals (`RowInv`, `SettlingInv`). Without `Timely` a recovered row has two senders.
  * `NothingStranded`, from no assumption: a row that leaves the hands of its worker
    is settled, put back, or in the hands of a process as it ends.
* **`LinkCreationProofs`**: `KeysChargeOnce`, `UrlsMatchTheirBodies`,
  `PaymentsAreKept`, `CreationIsIdempotent`. The invariant says that one thread at most is
  between the insert and the save of a key, and that until it saves nobody has the URL: that
  is why no payment can be there to be overwritten. The refinement adds what the answer of
  each request was based on, and one lemma for each action that is not a stutter.
* **`SellerAccessProofs`**: `InvitationsOpenOneSession`, `InactiveSellersStayOut`,
  `RenewalsReplace`, `OnlyUpdatesWaitInCircles`, `InvitationsAreSingleUse`. The invariant says that
  a locked invitation is open unless an activation has yet to look at it, that a thread about
  to create a session holds both rows of an active seller, and that an UPDATE that is over
  holds all it selected that is still open. The refinement needs all of it: `Redeem` asks for an
  open invitation and an active seller at the commit, two steps after the code has looked.
* **`PushDeliveryProofs`**: `FailingDevicesAreRetired`, `SentOnceButForFaults`,
  `DoneMeansReached`, `QuietRemoval`. The first rests on the copies: a worker's copy of a device that
  is on has fewer failures than retire it, so the copy it saves over a newer row cannot leave
  one on that has them all. The invariant of the second is a count: a device was sent a
  notice as often as faults allow, once less if it is still on a list. That of the third says
  that each device of the last list is still to do, in hand, in the progress, expired,
  or has set `transient`. That of the fourth says that a device removed quietly is on no
  worker's list.
* **`PaymentCorrelationProofs`**: `UnsettledExplained`, `ForeignOnlyOrphans`, `IgnoredExplained`. The
  invariant `EventInv` says at each lookup what the ones before it have ruled out for an event
  that has been `kept` so far. `LinksKept` is what every step leaves of the links (what was made
  stays made, a reference stays, a row loses the provider's id only by a deletion) and `Bystander`
  what it leaves of an event that is not its own; neither needs rows to move one way.
* **`RateLimitProofs`**: `WindowIsBounded` and `SlidingIsBounded`, if a request is counted
  within a second of its key (`MaxDelay` at most 1). The invariant says that an entry that may
  still be counted on has not expired, and that its counter is at least what was let
  through since the last loss. `SlidingBound` sums over processes, windows and losses, and is
  proved without a sum: a request let through within a stretch of `Window` seconds is named by
  its number and by its process and which of two windows it was of, or, if its counter had
  been lost, by that loss; `OneWindow` and `LossInv` make the naming injective, and there are
  `(2 * Cardinality(Process) + losses) * MaxRequests` names. `LossInv` is the delicate part: a
  process that restarts loses many counters in one loss, but one of each client that
  requests may still be counted with.
* **`FreightQuoteProofs`**: `RefusalExplained`, `TokenLives`, `LoginsSpaced`, `BestCheapest`,
  `QuoteRecent`. They rest on `MarginAssumption`: the margin covers a request, and a token
  of unreadable life is cached for no longer than it may live. `LoginsSpaced` rests on the floor of
  `calculate_token_ttl` (`CacheLifeFloor`): whatever life was stated, a cached token that can be
  used is used for `MinLife`, and a login that finds one comes later.

The assumptions are those on the constants, named in each module and evaluated
by TLC in its runs. Each inductive invariant was checked by TLC before it was proved. Three
specifications are proved to implement an abstract one: `OutboxWorker`, `LinkCreation` and
`SellerAccess`.

Only model-checked, since liveness under fairness is beyond the prover: `EveryEventSettles` of the
webhook, `PaidIsNotified`, `EveryNoticeSettles` and `EveryPushSettles`. Every other property of a passing run is a theorem. The two properties of
the violation runs are false, and so are those of the configurations of section 6.

## 6. Where the code and the documents disagree

Shown by a property that TLC finds violated under the configuration named; numbers 4
and 7 are among the runs:

1. `webhook_refund`. A link is PAID when its refund arrives, and the guard
   (`processor.py:67`) drops every event with a target status for a PAID link, so
   the refund is IGNORED. The acceptance tests say that it "altera para REFUNDED".
2. `webhook_approval_twice`. `order.paid` and `charge.paid` of one payment each queue
   the approval; deduplication only sees messages that have not been sent.
3. `outbox_stuck`. Stale rows are recovered only when the worker starts. After a
   crash and a restart within ten minutes they stay PROCESSING, and their
   deduplication key stays taken (`NoNoticeIsLost`).
4. `link_unsent`. A retry during the provider call is answered from the unfinished
   row and queues a message without a URL; the one with the URL is then dropped as
   its duplicate.
5. `invitation_unsent`. The deduplication key of an invitation is the seller's; while
   an old message waits, the new invitation is not sent and the seller receives
   the URL of the revoked one.
6. `webhook_reopened`. `charge.paid` has no target status, so the guard never drops it:
   after a refund it makes the link PAID again. "Ordem de eventos fora de sequência não
   regride estado final", say the acceptance tests.
7. `invitation_survives`. "Revogar acessos" revokes the sessions it has read and then the
   open invitations; an activation that commits in between is in neither.
8. `push_twice`. The push service is called before the progress is saved.
9. `push_revived`. With no fault at all: a failed send saves `is_active` from a copy, and
   switches a device on that its seller has just switched off.
10. `rate_per_minute`. Windows are fixed: the end of one and the beginning of the next
    let twice the limit through in a minute (and each process counts for itself).
11. `correlation_null`. A null `order`, `checkout` or `payment_link`, or an internal id that is
    no UUID, raises before the `try`: the event stays RECEIVED, and its redelivery is
    answered as a duplicate.
12. `freight_unnamed`. An answer with `access_token` alone is taken for a token and cached, but
    only the key `token` is read of it: each quote fails and logs in again.

Seen while modelling and listed in `PROJECT.json` without a configuration: the outbox row is not
written in the payment's transaction; a replay is answered 201 whatever the first
answer was; an error that is called definitive includes the provider's time-outs;
nothing reconciles CREATION_UNKNOWN; two invitations generated at once are both valid.

More that is so in the code and that no document denies. A payment whose row is missing while
it is looked up marks the one link with its reference, even if the missing row is inserted again a moment
later by the creation that was under way (`ForeignIsOrphan` says that it happens to no other
payment). The metadata of the order and of the charge are read only if `data.metadata` is there and
is no object. Two revocations at once may lock two open invitations in opposite orders, and
PostgreSQL then fails one of them.

## 7. What is not modelled, and why

* Left out of the models that exist: the seller's limit and `is_active` as read by
  link creation; the panel's link creation, which uses a fresh key for each
  request and therefore never retries; a provider that returns an empty id
  twice; failures of the database other than deadlocks and unique keys (they appear
  as `Abort` and `Rollback` where an exception handler would see them); the
  expiry of sessions; `delete_seller`. Web push is taken as configured.
* What an administrator can do to any row in the Django admin, beyond what the models
  name: outbox rows edited or deleted by hand, and the deletion of a link during its creation,
  which is in `PaymentCorrelation` and not in `LinkCreation`.
* Cancellation, expiry and payment of a link in `LinkCreation` are the effects
  that `Webhook` may have; the handlers themselves are in `PagarmeWebhook`.
* Freight: the look-up of a postal code (two services and a cache that nothing else
  reads), the validation of a package, and the test of the connection. A quote's
  amounts are numbers; their parsing from "12,34" is the map from text to them.
* Payloads: amount, instalments, payment method and the category of a failure, which are
  copied into the attempt. An administrator's edit of a link's reference is left out of
  `PaymentCorrelation`: with it a payment without any id may be led astray.
* The agreement of an attempt's status with its link's: a late `order.payment_failed`
  overwrites a PAID attempt, and no document says that it must not.
* Pure I/O and pages: authentication of the webhook, API keys, credentials,
  dashboards, templates, health checks. They keep no state a step could disturb.
* `AuditLog` is declared and never written; `shipping` is empty.

## 8. What could follow

1. `PaymentFlow`: `LinkCreation`, `PaymentCorrelation` and `PagarmeWebhook` composed over one
   link table, with the outbox seen through `NotificationDelivery`, and an abstract
   life cycle of a payment that the composition implements where the code does.
2. `OutboxWorker` and `PushDelivery` share the worker's loop: one module of the loop that
   both instantiate.
3. The panel's link creation and the seller's limit, in `LinkCreation`.
