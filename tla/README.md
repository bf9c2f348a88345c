# A TLA+ model of Telex

Telex is a payment assistant: customers send messages on WhatsApp (or Telegram), the API turns them
into payments on the Stellar network, and a worker process runs what must not run in a request. This
directory models the parts of `apps/api` (and the lists of `apps/admin`) whose correctness depends on
the order in which several processes, the database, Redis, the network, customers and administrators
act. Paths below are relative to `apps/api/src` unless they say otherwise.

## 1. Inventory

The API runs as one or more API processes and one or more worker processes (BullMQ consumers and
timers). They share a PostgreSQL database (through Prisma, at READ COMMITTED) and Redis; they talk to
Horizon (the Stellar API), to WhatsApp, Telegram and an identity provider. JavaScript is
single-threaded, so that within a process steps interleave at each `await`; between processes, at
each database call.

| Component | State | Operations | What is hard | What makes it correct |
|---|---|---|---|---|
| Payment orchestration (`payment/payment.orchestrator.js`, `markFailed.js`) | row `Transaction` (status, txHash), journal entries | reserve, submit, mark pending, post the settlement; the catch block marks failed and posts a reversal | a crash or a throw between any two; the reconciler and operators write the same row | never both journal entries; success means that money moved |
| State matrix (`payment/payment.transitions.js`) | none | validate, then compare-and-set on a set of statuses | read and update are two calls | decided rows stay decided |
| Reconciler (`payment/payment.reconciler.js`) | what a pass has read | look a hash up, match the history, give up on age, operator actions | verdicts on stale rows; Horizon does not answer or forgets | a success is of an included transaction of the same terms |
| Quotes (`pricing/pricing.service.js`) | row `Quote` | create, lapse, requote, expire, consume | validated by a read, consumed by id | one payment per request for a price |
| Refunds (`executeRefund`) | refund rows, `metadata.refunds` | check, look up wallets, reserve, pay, record | the sum is read before the look-ups, the row is created after them; metadata written back whole | never more back than was paid |
| Limits (`compliance.service.js`, `kycDecision.service.js`) | the rows of the day | check, then insert | the total is read without a lock | a day's money stays below the tier's limit |
| Rates and money (`pricing/`, `utils/money.js`) | cached rate, circuit | fetch, retry, serve stale; convert, round, repair | overtaking answers; halves, zeros, precisions | a given rate is not too old; conversions are exact to a unit |
| Idempotent sends (`payment/idempotency.service.js`, `sendFunds` of `controllers/wallet.controller.js`) | record of a key (state, lease, reserved id) | create, wait and replay, take over after the lease, complete, fail | leases that run out while the owner works; crashes | one key pays at most once; everyone gets an answer |
| Stellar adapter (`wallet/stellar.adapter.js`) | lock per account and process, sequence number | submit, look up, resubmit | lost answers; several processes on one account | one call moves money at most once (it does not, see section 5) |
| Horizon endpoints (`config/horizon.js`) | failures and circuits per endpoint | fail over reads, send writes once, classify errors | a lost answer to a write | a write is sent once and never denied when it may have arrived |
| Ordered queue (`queues/ordering.service.js`, `queue.service.js`, `jobs/inbound.jobs.js`) | BullMQ job, lock and cursor of a sender | compare with the cursor, lock, requeue, process, advance | stalls, crashes, locks that run out, retries, Redis commands that fail | one message of a sender at a time; nothing skipped for nothing; every job ends |
| Dead letters (`queues/dlq.service.js`) | records in Redis and memory | record, replay, discard, by API and script | two operators, two copies, a job that still runs or is taken back from a run that stalls | a message is handled once |
| Webhook intake (`controllers/webhook.controller.js`) | row `ProcessedMessage` | claim, reclaim, drop, enqueue, answer | overlapping deliveries, failing updates | what is acknowledged has a job |
| Telegram (`controllers/telegram.controller.js`, `telegram/`) | row `TelegramLink` | deliver, link by contact, enqueue, answer | a link that changes under a command | an answer goes to the chat that asked |
| Conversation (`conversation/assistant.service.js`, `pendingClaim.js`) | `User.pendingSendState` | ask, warn, cancel, verify the PIN, claim, pay | two messages in flight, stale copies of the pending payment | a payment is made once, after the warning, and not after a cancel |
| Wallets (`wallet/wallet.service.js`, `walletRecovery.service.js`) | funding and trustline state, encrypted key | provision, retry, reset, rotate, recover | leases, blind writes of stale copies | the key belongs to the address; what succeeded stays |
| Outbound messages (`services/messaging.service.js`, `notificationOutbox.service.js`) | row `Notification` | reserve by key, claim, send, attach the result, sweep | a crash while sending | one send per key; a lost one is visible |
| Status callbacks (`services/webhookInbox.service.js`, `jobs/messaging.jobs.js`) | row `WebhookInboxEvent`, `WhatsappStatusEvent` | store, claim, apply, back off, dead-letter | crash after the claim, partial application | every callback is applied or dead-lettered |
| Generic callbacks (`webhooks/idempotency.service.js`) | row `WebhookEvent` | claim, reclaim, run, complete, fail | retries after an effect | one effect per event |
| Deposits (`jobs/deposits.jobs.js`) | cursor per wallet, deposit outbox | sweep, record, alert, retry | overlapping sweeps and instances, one key for all deposits of a wallet | one record and one alert per deposit (the second it has not, see section 5) |
| Identity (`compliance/`) | row `KycProfile`, approvals, `User.kycTier` | submit, callback, review, approve, screen, remind, escalate | blind writes, replayed callbacks, a copy in another row, ages taken from the last update | matrix kept; two operators for overrides; limits follow; reminders come in time, and not too often |
| PIN, account, sessions, limits (`compliance/pin.service.js`, `account.service.js`, `services/restAuth.service.js`, `services/rateLimit.service.js`) | counters, flags, records, challenges, windows | attempt, lock, deactivate, reactivate, log in, call | lost updates; the end of a window | bounded guessing; one session per challenge; who stays below a limit is let through |
| Consent (`compliance/consent.service.js`, `messagingConsent.js`) | flag, records by category | STOP, START, change, ask before sending | several updates, one after another | after a keyword every category says so |
| Privacy (`compliance/privacy.service.js`, `jobs/retention.jobs.js`) | requests, tasks, holds, old rows | request, approve, erase, tell providers, retry, purge | a hold set in between, two approvers | completed means erased; held data stays |
| Administrators (`services/adminAuth.service.js`, `controllers/admin.controller.js`) | accounts, invitations, sessions | invite, sign in, change roles, disable, reset | count, then update | one administrator remains; a new password ends old sessions |
| Audit and event chains (`common/`) | rows linked by hashes | append, verify | two writers on one predecessor | one chain that goes on |
| Phone numbers (`utils/validators.js`, two scripts of `apps/api/scripts`) | users, wallets, other rows | canonicalize, migrate, roll back | registrations in between, half a run | a wallet goes by its owner's number |
| Admin lists and dialogs (`utils/cursorPagination.js`, `apps/admin`) | page, cursor, requests, open dialog | next, previous, filter, back; look up, change an account | overtaking answers, moving rows | a walk shows every row once; a dialog shows its own customer |

The other parts (routes, middleware, configuration, metrics, read-only reports, the rest of the user
interfaces, language understanding) are listed with their reasons under `components` of
`PROJECT.json`; the hazards that matter most, at their lines, under `hazards`.

How they interact. A customer's message: webhook (`Inbound`; for Telegram `TelegramLinks`) → BullMQ →
ordering wrapper (`Ordering`) → `processInboundMessage` → assistant (`Conversation`) →
`executePayment` (`SpendingLimits`, `Quotes`, `Payment`) → adapter (`StellarSubmit`) → endpoints
(`HorizonPool`). A job that fails for good becomes a dead letter (`DeadLetters`). A REST payment:
session (`Access`) → `sendFunds` → idempotency (`IdempotentSend`) → `executePayment` → adapter. The
reconciler and operators (`Reconciliation`) write the rows `executePayment` made. What a customer may
pay is taken from the `User` row, a copy of the identity profile (`KycProfile`), which grows old
(`Renewal`). A notification: its cause → consent (`Consent`) → `sendTextMessage` → outbox row →
WhatsApp (`NotificationOutbox`); WhatsApp's callbacks → webhook → inbox row → drain → outbox row
(`StatusInbox`). A deposit: Horizon → sweep of the poller → deposit outbox → `sendTextMessage`
(`Deposits`), where the alerts of all deposits of a wallet have one idempotency key.

## 2. Modules

| Module | Models | Composes |
|---|---|---|
| `PaymentTransitions` | statuses, matrix, validation, compare-and-set condition | |
| `Payment` | `executePayment` from the reserved row to its end, the network, the journal, crashes, the clock | `PaymentTransitions` |
| `Reconciliation` | reconciler passes and `operatorResolveStuckPayment` on those rows | `Payment` |
| `Quotes`, `Refunds`, `SpendingLimits` | what `executePayment` and `executeRefund` check before the row is there | `PaymentTransitions` (the last two) |
| `RateCache` | one pair's rate in one process, with retries and circuit | |
| `Money` | arithmetic, journal entries, repair and statements as operators, over one variable with the amounts tried | |
| `StellarSubmit` | `submitPayment`: lock, sequence numbers, attempts, lost answers | |
| `OncePayment` | abstract: of the requests with a key at most one asks the wallet to pay | |
| `IdempotentSend` | `sendFunds` with its idempotency record, on top of the adapter | `StellarSubmit`, refines `OncePayment` |
| `HorizonPool` | the two interceptors over several endpoints | |
| `Ordering` | the queue of one sender: jobs, runs of workers, the lock and cursor in Redis and in the memory of a process | |
| `Inbound` | the webhook and the job's own bookkeeping | `Ordering` |
| `Conversation` | the pending payment, driven by the jobs of one customer | `Ordering` |
| `DeadLetters` | one message's job and the runs of it, the records of its failure, the operators | |
| `TelegramLinks` | chats, numbers, deliveries, commands and answers | |
| `NotificationOutbox` | the calls of `sendTextMessage` for one notification that needs a durable record, its row, the sweep of rows in flight | |
| `StatusInbox` | the webhook's storing of status callbacks, the drains of timers and requests, `recordDeliveryStatus` on the row | `NotificationOutbox` |
| `Deposits` | the sweeps of the deposit poller over one wallet, the deposit outbox, the retries of alerts | `NotificationOutbox`, each sweep a caller |
| `Callbacks` | `withIdempotency` over deliveries of some events | |
| `KycProfile` | the profile, its matrices and everybody who writes it, and the copy in `User` | |
| `Renewal` | the sweep for reminders and escalations, by the ages of the row, beside the other writers of it | |
| `Access` | PIN attempts; account changes; REST challenges, sessions and calls; the windows of the call limits | |
| `Consent` | the flag and the categories, keywords and requests | |
| `Privacy` | holds; erasure requests, officers and provider tasks; the retention sweep | |
| `Wallet`, `WalletKeys` | provisioning by several requests; the stored secret under rotation and recovery | |
| `Administration` | accounts, roles, passwords and sessions of administrators | |
| `AuditLog` | the two hash chains | |
| `PhoneMigration` | the two scripts against the bot's registrations | |
| `AdminLists` | cursor queries of the API, and a page of the dashboard that asks them; the dialogs of the Users page | |
| `MC*` | instances for TLC | |
| `*Proofs` | theorems | |

State and code. In `Payment`, `row` and `hash` are the columns `status` and `txHash`, `pc` is the
point the request has reached in `executePayment`, `journal` the entries posted, `chain` the fate of
the envelope. In `Reconciliation`, `rec` is what a pass holds between two calls. In `StellarSubmit`,
`adapter` is the point a call has reached, `env` the envelope of each of its attempts, `account` the
sequence number the network has. In `IdempotentSend`, `req` is the point a request has reached in
`execute`, `record` the row of the key, `tx` the status of the row with the reserved id. In
`Ordering`, `job` is the BullMQ job, `run` what each worker's run has read and the point it has
reached in `withOrdering`, `lock` and `cursor` the two Redis keys, `remembered` what the memories of
processes have had as cursors, `begun` the messages whose handler was called. In `Renewal`,
`identity` is the row, by the ages of its times, and `copy` what the sweep has read; in `DeadLetters`,
`task` is the job, `working` the point each run of it has reached, `late` the runs it was taken from. In `Inbound`, `claim` is `ProcessedMessage.status` and `handler` the request. In
`Conversation`, `pending` is `User.pendingSendState`, `chat` the copy a run has read and the point it
has reached, `asked`, `confirmed`, `cancelled` and `paid` the history the properties are about. In
`NotificationOutbox`, `notification` is the row (status, `providerMessageId`, `lastStatusAt`), `send`
the point each call has reached between its reservation and its outcome, `accepted` how many messages
Meta has taken. In `StatusInbox`, `inbox` and `recorded` are the rows of `WebhookInboxEvent` and
`WhatsappStatusEvent`, `drain` what a drain has listed and the point its handler has reached, `acked`
the callbacks Meta no longer sends; `result` and `lost` are history the properties are about. In
`Deposits`, `ledger` is the last payment of the account, `cursor` is `Wallet.paymentCursor` (0 for
null), `deposit` the rows of `DepositOutboxRecord`, `poll` what each sweep has read and the point it
has reached in `pollWallet` or `processDepositOutbox`; `starts` and `posted` are history. In the
other modules a comment beside each variable says which row, key or copy it is; those that a comment
calls a ghost, and the sets of known causes (`accident`, `raced`, `torn`, `broken`, `hurried`,
`overlap`, `replaced`, `crossed`, `mixed`, `excused`, `shaken`, `beside`), are history: an action adds to them
and none reads them.

One action is one database, Redis or network call together with the code up to the next one, since
another process can come in at each. A Prisma transaction is one action only where what it read
cannot change under it. A property that lists exceptions names each known cause of a violation; it
says that there is no other one.

## 3. Runs

| Run | Asks | Bounds |
|---|---|---|
| `reconciliation` | does a success mean that money moved; can a payment be settled and reversed; do decisions stay but for the known breaks | two payments of the same terms (the case in which the history match can confuse them), one pass at a time, clock to 3 with `StaleAge` 1 and `LedgerWindow` 2, so that rows are fresh, stale, given up, and past the ledger window |
| `idempotent_send` | with one key: at most one payment, replies about real payments, refusal of other parameters, and that every request ends | three requests, one with other parameters, in two processes (two share a process and its lock); two attempts (the code has three: the second already meets every outcome of a first); one payment of the account from elsewhere |
| `ordering` | what is skipped, the cursor, and that jobs come to an end, with runs that outlast the lock and Redis commands that fail; that a deposit is recorded and its alert comes to an end | two messages, two workers, two attempts (the code has three); two sweeps, two payments of which one is a deposit |
| `conversation` | a payment once, after the warning, not after a cancel; quotes paid once, refunds within the payment, the limit of a day | two of five messages (yes, PIN, no, send, PIN again) sent in that order and delivered in any, two workers, two attempts, at most two payments asked for; three quotes, two payers; three refunds of two fifths; three payments of two fifths of the limit, three profiles |
| `status_inbox` | which callbacks are lost and why, whether a claimed row and a stored callback come to an end | one send that posts once, two callbacks of its message (delivered, read) that may come in one batch or two and in any order, a drain of a timer and one of a request, two attempts (the code has eight), one fault |
| `deposits` | what the cursor skips, which deposits called delivered nobody was told of, whether one call posts | two overlapping sweeps, four payments of which two are deposits, pages of two (the code has 200), two attempts (the code has five), one fault |
| `identity` | do the limits follow the profile, and what is each decision made on | two operators, one approval, callback, application and screening, two reviews: each kind of writer can come between two steps of each other |
| `customer` | do counters, records, consents, erasures and wallets tell what happened | two PIN attempts at a time and a lock after two failures, two administrators; two challenges, three logins, two calls; a limit of two calls and one of one payment, windows of two ticks, five hits in four ticks (two windows of a limit meet, and one refuses twice); two keywords; one erasure, two officers, two providers (one of each kind), two holds, two purged models of either action; two requests for the wallet, two key pairs, one rotation |
| `renewal` | how soon is a customer reminded again, whoever writes the profile | ages to six periods; a verification stale after three, a screening expired after four, a reminder repeated after two: every order of the classifiers occurs |
| `dead_letters` | is a message handled once | one letter, two operators, two runs of the job at a time (one that was taken back and one that has it), two attempts |
| `services` | is an acknowledged message queued, is money exact, and what each of the other parts promises | one message and two requests at once; amounts to 7 units and around the halves, five rates, three precisions; two fetches of a rate; three writers of which one lags, four rows; two events, three deliveries; two endpoints and two requests; two administrators, sessions and calls; two chats and numbers, three updates; two persons, three users, three runs of scripts; three rows, pages of one, three requests; two customers with dialogs, two lookups (an answer that comes late takes no more) |
| `paid_twice`, `recovered_unpaid`, `provider_order`, `pending_paid_twice`, `untold_deposit`, `block_lifted`, `held_propagation`, `stale_unreminded`, `escalation_late`, `locked_out` | each refutes one statement of a comment, section 5 | the smallest instance that shows it |

Modules that share no state share a run: a variable `part`, chosen in the initial state, says which of
them moves, and each invariant is then checked in the behaviours of its own module. Type invariants
are proved where a module has proofs, and are not in the configurations.

`CHECK_DEADLOCK FALSE` is set where the system really stops: every payment settled, every request
answered, every job done. `conversation` and `pending_paid_twice` permute their workers, `identity`
its operators; none of them has a liveness property.

Bounds in guards: `MaxTime` and `MaxClock` stop clocks, `MaxAttempts`, `MaxTries` and `MaxTasks` are
the code's constants scaled down, `MaxSequence` bounds the payments from elsewhere, `MaxAsked` and
`MaxSent` what the customer does, `MaxFaults` how often a drain or a sweep fails or dies, `MaxToken`
the payments of a wallet's account, `MaxStamp` timestamps, `MaxRows` an audit log, `MaxReviews`,
`MaxGuesses`, `MaxChanges`, `MaxSweeps`, `MaxAge`, `MaxFailures`, `MaxPassword`, `MaxMigrations`,
`MaxFetches`, `MaxLookups`, `MaxMoment` and `MaxHits` what their names say. In `Deposits` each sweep posts once (`MaxPosts` 1). Three numbers of the code are left out: the outbox of deposits lists all
that is pending and not the first 50, a failed event may be due at any time (its back-off is a delay
and no order), and a drain of a timer lists all that is due (its limit of 50 only makes it list the
rest the next time). `Slow` is a choice of environment and not a bound: the lock of a sender lives 30 s and is never
renewed, so whether a run can outlast it is a question of load. With `Slow = FALSE` no run outlasts
its lock and BullMQ never takes a live run's job back; with `TRUE` both happen. `RedisFails` says
whether the commands of the ordering store may fail; it is `TRUE` in `ordering` and `services`, and
`FALSE` where the question is what happens although Redis answers. In
`NotificationOutbox` it says whether a call may outlast the age after which the sweep flags its row.

Fairness. `FairSpec` of `IdempotentSend` says that as long as some request can go on, one of them
does: every wait has a deadline, every call of Horizon a timeout (`config/horizon.js`), and the event
loop runs what is ready. Network steps, crashes, lease expiry and the reconciler are not fair.
`FairMCSpec` of the run `ordering` says of each worker that it goes on with its run or takes a waiting
job, and that a lock that nobody releases runs out, which Redis does by itself; crashes and stalls may
happen, or not: BullMQ takes a job back once (`maxStalledCount` 1) and fails it the second time, so
that they end. Of the poller it says that its timer starts sweeps and each goes on, since the calls of
Horizon, the database and WhatsApp have timeouts. `FairSpec` of `StatusInbox` says that calls and
drains go on, and that the two timers of `jobs/messaging.jobs.js` fire: the sweep of rows in flight,
and the drain of what is due. The drains of requests start when a request comes and are not fair, nor
are the callbacks. The timers are assumed to have been started; section 5 says why they are not at
this commit. `Administration` has its own fairness for `locked_out`: whoever tries to sign in and to
change a password again and again is served.

## 4. Proofs

All theorems hold for every value of the constants that satisfies the named `ASSUME`s: sets of any
size, any timestamps, limits, amounts and bounds. The assumptions only say what a constant is (a
number is a natural one, a limit or a lock's count is at least 1, a value that stands for "none" is
no payment, worker or number), but for `IsFiniteSet(Refund)` and `IsFiniteSet(Send)`, without which a
sum is nothing, `IsFiniteSet(Ids)`, since a table is finite and its pages have last rows,
`FreshAge <= StaleAge` of `RateCache`, which its defaults satisfy (1 and 6 hours), and
`RenewalAssumption`, that the clock that stops at `MaxAge` stops after the ages the sweep asks for and
that a reminder is repeated sooner than a verification grows stale, as 7 and 14 days are than 365.
Every safety invariant and every action property of a passing run is proved. One theorem,
`SpecMoneyExact`, has a hypothesis: `PowersOfTen` says that powers of ten are whole and multiply, which
is arithmetic that `tlapm` does not know of `^` and that induction would be needed to derive.

Few of these properties are inductive. Each has an invariant that says what a request has read and
may still rely on; where the property has exceptions, the invariant says it of the state before the
exception, or that the exception has been noted. TLC checked each invariant on the instances of the
runs before it was proved.

### The reconciler, sends, and the queue

* `ReconciliationProofs`: `SuccessIsOnChain`, `NeverBothEntries`, `DecisionsKept`. A pass writes a
  verdict on what it read before. `IInv` says that an envelope is sent once (`SentOnce`, so what is
  applied stays applied), that any hash on a row, or in a copy of it, has the row's terms
  (`HashTerms`), that a pass decides success only on an applied transaction (`VerdictIsOnChain`), and
  that the place the request has reached tells what it can have posted (`RequestTells`).
  `DecisionsKept` then follows step by step: the condition of the compare-and-set is checked in the
  statement that writes.
* `SpecMoneyExact`, in the same module since the repair of amounts is the reconciler's. Rounding half
  up is to the nearest (`HalfUpIsNearest`), monotone, and off by one at most over the parts of a sum;
  conversions, products of rates and fees follow, and so does that a repair finds nothing to do the
  second time (`CanonicalIsNearest`). The entries of the ledger and the totals of a statement are folds.
  No induction over them is needed, as they have three accounts, three entries or four rows: the value
  for every subset is given and solves the equations of the fold, and a solution is unfolded step by
  step, whichever element it takes next (`SumOfThree`, `BalanceOfThree`, `TotalOfFour`).
* `IdempotentSendProofs`: `PaysOnce`, the refinement of `OncePayment`, rests on `PayerHasRow`: the
  call is made by the step that inserts the row with the reserved id, that row never goes away, and
  its primary key refuses a second one. What leases, polls and states of the record do does not
  enter. `SendsAccounted` needs the envelopes: one attempt posts one (`LaterUnsent`), as long as no
  answer was lost every earlier attempt was refused (`EarlierRefused`), and a record is completed and
  a hash returned only for an envelope that was applied or that a look-up after a lost answer found
  included as failed (`TakenForPaid`).
* `OrderingProofs`: `SpecOneAtATime`, and `SpecOrderKept` from `SpecSkippedForNewer` and
  `SpecCursorAdvances`. The invariant adds that only active jobs are held and open ones have attempts
  left, that the cursor is the time of a message whose processing began (`CursorIsBegun`), and that a
  run that needs the lock has it (`LockHeld`, where `LockTrusted`: no run outlasts its lock and Redis
  answers). The first two hold without that, also of cursors that only one process remembers.

### Payments

`PaymentProofs`:

* `SpecRefundedWithin`, `SpecDailyLimit`. A sum is the number of the units that the payments of a set
  move (`SumOf`), so that what a sum does when a set grows is a fact about cardinalities
  (`SumOfMore` and the lemmas beside it). The invariants (`BoundTogether`, `TogetherWithin`) are
  about every set of requests of which each two have seen one another's rows: the one of them that was
  checked last was checked against all the others. The exceptions of the properties are what is
  outside of such a set.
* `SpecPaidAsConfirmed`, `SpecCancelledStaysUnpaid`. The conversation is a handler of the queue
  (`ConversationIsOrdNext`), so that `OrderingProofs` gives that one handler runs at a time unless
  `Slow`. On that, `CopyIsPending`: what a handler has read is what is pending, and what is pending
  was neither paid nor cancelled. That a payment of high risk was confirmed holds of every copy,
  `Slow` or not (`ClaimedIsConfirmed`).
* `SpecRequestPaidOnce`. Of each request for a price, `OneClaim`: one quote that can be paid with
  and is not being replaced, or one payment, or neither; or an accident, or a requote that can only
  end in one (`Doomed`), and what is doomed stays so (`DoomStays`).

### Messages and deposits

* `StatusInboxProofs`: `OneSender` and `CallbacksAccounted`. That no row returns to `queued` carries
  the first; `OneHandler` rests on `HandledIsClaimed` (what a drain handles is in `processing`, so
  that a guarded claim finds no other drain at the event). For the losses, `LossInv` says that the
  provider's id of a row is final (`ProviderIsFinal`), that a status found recorded was recorded by an
  earlier attempt (`DuplicateIsRetry`), and that what was written to the row is there until another
  status of the same message overwrites it (`WrittenUntilNext`).
* `DepositsProofs`: `RecordedBelowCursor` and `DeliveredIsTold`, and `OneSender` of the sweeps' calls.
  Sweeps write the cursor blindly, from a page they fetched before: `PageCovered` says of each that
  everything before the place it has reached on its page is recorded too, and records never go away
  (`Grows`), so that writing back an old cursor skips nothing. `AlertInv` says that a row that was
  only reserved stands in nobody's way: what is delivered met a row that was claimed (`ToldIsClaimed`), and
  an outcome on that row is one of a post (`OutcomeIsOfPost`).

### The services

`ServicesProofs`, each part an invariant of its own:

* `Inbound`: `SpecIsOrdSpec`, the webhook and the worker together implement `OrdSpec`, so that the
  theorems about the queue hold of the composition; `SpecQueuedHasJob`.
* `SpecRateAgeBounded`: the cached rate was recent when it was cached (`CacheIsRecent`).
* `SpecEffectOnce`: one delivery holds a row, and only while it says `processing` (`HeldOnce`); what
  took effect undisturbed never leaves that state but to be completed (`HandledIsHeld`).
* `SpecDoneOnce`: one run holds the job (`HeldByOne`); what was handled to the end is being recorded by
  that run, or is marked completed and its job is over (`HandledIsOver`); and an operator about to send
  has not read `completed` (`SendKnows`).
* `SpecWriteOnce`: a write that is under way has no copy on the network (`WriteKnown`), since the
  interceptor goes to the next endpoint only with what certainly did not arrive.
* `SpecAdministrationHolds`: who was counted before a removal can still be spared, until another
  removal is made (`CountedSpared`); the sets of administrators are not assumed finite.
* `SpecLogStands`: each writer has the hash of a row, or found none (`Chained`), each hash is of one
  row (`SealsKnown`), and the row that `findFirst` takes for the last is one that no other row follows
  (`HeadIsFree`), undisturbed; `InsertAtProperties` says what an insertion by time does to the others.
* `SpecAnswersGoHome`: what a request or a command knows of its chat (`HandlingKnows`,
  `CommandKnows`): its number is one that the chat had, or gave up.
* `SpecNumbersMigrated`: a wallet has the number of its user or its canonical spelling
  (`WalletsKnown`), so will one that is being opened (`OpeningsKnown`), and what a script has read
  and is to write covers all old spellings but those that collide, of users (`UpdatesKnown`,
  `TakenKnown`) and of contacts (`NotesKnown`).
  The lemmas on spellings say that the canonical one is a fixed point and tells persons apart.
* `SpecListsTell`: the order of the keys is total and a page of at least one row has a nearest one
  (`NearestExists`: a smallest set of rows that are nearer exists by well-foundedness, where induction
  is out of reach), so that a query reads what is next to its cursor and leaves out nothing in between
  (`QueryAnswers`). `ListInv` carries that through the walk: what the table owes and has not shown is
  beyond its cursor (`TableStands`); what an answer says of the rows holds for good, since a row only
  moves towards the newest (`AnswerStands`); and an answer that goes on goes on from a page that was
  shown, once (`GoesOn`, `WasShown`). `DialogInv` says which lookup the open dialog waits for.

### The customer

`CustomerProofs`:

* `SpecUserFollows`, `SpecDecisionsStand` (`KycInv`): while nobody has written the row since an operator's
  update was validated, it is the row he was shown, the update is a step of the matrices, and an approval
  is another operator's (`WorkKnown`).
* `SpecKeywordApplies` (`ConsentInv`): a request has written the record and then the audit row of
  every category up to its place (`Progress`), or something broke it.
* `SpecRemindersSpaced` (`RenewalInv`): unless a stamp was lost, the row, and the sweep's copy of it, is
  no older than the last reminder, so that one that is stale was not reminded of lately; and a row that
  was not started yet has the time of its reminder, since nobody but the sweep writes it (`Remembered`).
* `SpecWalletTells` (`WalletInv`): what a request knows of its key pair and the network (`CallKnows`),
  and that an attempt holds its lease unless a lease ran out under another (`Leased`).
* `SpecKeyServes` (`KeyInv`): label and material of the stored box agree, and the deployed process
  knows the label (`LabelKnown`), but after the mixture that is noted.
* `SpecCompletedIsErased`, `SpecHeldDataStays` (`PrivacyInv`): a request that was decided once has one
  administrator, who finds it as he left it (`AskHolds`), the providers off his list have a task, and
  the holds he has seen are not active when data goes (`DeskHolds`). A provider has a task only of a
  customer who is anonymized.
* `SpecAccessTells`: the PIN count is that of the wrong PINs, or is in the copy of the attempt that
  cleared it (`PinHolds`); the records of the account alternate (`AccountInv`); a session stems from
  one answer that has used its challenge (`SessionInv`); and, of a call limit, every hit belongs to a
  window, no window overlaps the one before, and the counter is what the last of them makes of its
  hits (`RateInv`). From the last, a stretch as long as a window meets two windows at most: the bound
  is twice the limit, by counting (`FS_*` theorems).

### Only model-checked

* The liveness properties `EveryRequestEnds`, `JobsSettle`, `SendingEnds`, `EventsSettle`,
  `DepositsSettle` and `BootstrapUnlocks`: liveness under fairness is out of reach of the provers.
* What the runs with a violation refute, which no proof could.

## 5. What the code does that its text denies

* `paid_twice`: after a lost answer the adapter builds a new envelope with a new sequence number,
  while its log line says it resubmits the same one. Both can be applied. `SendsAccounted` of the
  passing run shows that nothing else pays twice.
* `recovered_unpaid`: after an uncertain answer the adapter looks the hash up and takes any transaction it
  finds for the payment (`wallet/stellar.adapter.js:598`), one that a ledger includes as failed too: the
  record is completed and replayed though nothing moved. `SendsAccounted` shows that it takes that.
* `provider_order`: the cursor is compared before the lock is taken, and not again under it. A newer
  message can be processed in between, and the older one after it, with every lock held as long as it is
  needed. (A lock that runs out under its handler, and a Redis that fails, are other ways.)
* `pending_paid_twice`: the claim of a pending payment does not compare which payment is pending; a
  run that outlasted its lock pays again what was paid. `PaidAsConfirmed` shows that it takes that.
* `untold_deposit`: the notification of a deposit refers to its wallet (`jobs/deposits.jobs.js:390`), so that
  the alert of a second deposit has the key of the first, posts nothing, and the deposit is called
  delivered. One sweep without a failure is enough. `DeliveredIsTold` says what is left of the promise.
* `block_lifted`: a screening that began before another one blocked the customer reads the block, and only
  leaves its cache aside for it (`compliance/compliance.service.js:418-426`); its own result is then written
  over the block that is called permanent.
* `held_propagation`: a customer who was anonymized is no longer asked for holds
  (`compliance/privacy.service.js:285`), nor is a retry (`:370`): providers are told to delete under an active
  hold, against `compliance/retention.js:89-90`. `HeldDataStays` is about the rows of ours.
* `stale_unreminded`, `escalation_late`: the sweep takes the age of the row for that of the approval.
  Whatever writes the row makes it young, the screening of a payment and the stamp of a reminder
  included: an old verification is not reminded of, and the escalation comes when the row is stale again
  and not 30 days after the reminder. With the intervals as shipped (180 days for a screening, 365 for a
  verification) the reminder of a stale verification is never sent, as a row not written for a year has
  an expired screening, whose reminder comes first; `config/env.js:222-243` has none of the keys that
  `compliance/verification.expiry.js:15` says override them.
* `locked_out`: the bootstrap administrator has to change its password, and neither route lets it
  (`routes/admin.routes.js:22-24`): `/change-password` refuses whoever still has to change it, and
  `/password` asks for the permission of a request that nobody authenticated, which throws before it
  answers.

Met while reading, and part of the models unless it says otherwise:

**Payments.** The second `replayOrWait` of `execute` can return null, and `sendFunds` then answers 200
with an empty body; the catch block of `execute` overwrites a record that another request took over.
Nothing in `src` calls `reconcileStaleTransactions` but the tests, so that in the deployed program
payments stay `pending` unless an operator resolves them. The catch block of `executePayment` writes
`failed` over any status: `DecisionsKept` shows that this and one more step are the only breaks of
the matrix. `postPaymentReserved` is called by nothing, so that the reversal of a failed payment
credits money that was never debited. Two refunds of one payment are both made if both were checked
before one of them was settled, and between its check and its row a refund waits for the wallets of both
parties (`RefundedWithin`). The loser of a race to reclaim a failed message acknowledges it
before it has a job (`webhook.controller.js:82`).

**Prices and sums.** Nobody passes a `quoteId` to `executePayment`, and `requote`, `reconcileQuotes`
and `enforceWalletActivityLimit` are called by nothing; `POST /quote` passes keys that `createQuote`
does not know; only pairs of an asset with itself can be paid. `policyRate.assertFresh` compares the
time with itself. Small amounts round to 0 in naira. A quote of amount 0 is never repaired. A
statement adds the fees of every asset as XLM, counts failed sends and ignores refunds; the totals of
assets with two digits stay `0.0000000`, since `add` refuses the zero of seven digits it starts from
and the error is swallowed (`statement.service.js:199-219`); its period contains both ends, so that a
payment can be in two. Some statuses of payments do not count in the total of the day.

**Horizon.** Definitive errors of a read end as an outage, where the comment at `config/horizon.js:58`
says that they are surfaced; a 404 becomes a `HorizonOutageError` even with a single endpoint, so that
the branch at `payment.reconciler.js:82` is not reached, and 404s open circuits. A 504 to a write is
surfaced as definitive. One error code is spelled `ECONNABOLTED`.

**Wallets.** Recovery and rotation are called by tests only, `getActiveKeyVersion` is not exported, a
recovery record can be used again, and `rotateWalletKey` leaves `keyVersion` as it was.
`MAX_PROVISIONING_ATTEMPTS` bounds nothing; a wallet on the main network is never recorded as funded;
`establishTrustline` builds a new transaction where it says that it submits the same one.

**Messages.** Deposits are lost in more ways than `untold_deposit` shows. Of two first polls
the later one can move the cursor over deposits that came between them (line 179), the exception of
`RecordedBelowCursor`. An alert whose last failure was counted by the poll of the wallet (line 339)
stays pending and no retry lists it, the exception of `DepositsSettle`. A provider that refuses a
message for good does not throw, and its alert counts as delivered. Where Horizon refuses the last
payment, `fetchLatestCursor` takes the first page's, and old history is told of as new, which rules 3
and 6 of that comment exclude. A retry that failed writes `pending` over what another sweep delivered.

A status callback whose row says processed may not have reached the notification. `CallbacksAccounted`
lists the ways: its message id was not attached yet; the row was stamped with the worker's clock in
milliseconds and the callback with Meta's in seconds; a first attempt failed after storing the status
event (`messaging.service.js:699` takes the second for a duplicate, where `jobs/messaging.jobs.js`
promises to retry until it succeeds); a drain with an older status wrote last, after a check on a row
read before (`messaging.service.js:766`, where the comment at 131 has statuses only advance).

A job taken back from a run that stalled is handled again, also when the message was completed, which
`processInboundMessage` never asks (`DoneOnce`), where `jobs/inbound.jobs.js:52-54` is careful about it.
The API's replay of a dead letter enqueues nothing and answers `replayed: true`; the script's is
ignored while BullMQ keeps the failed job of the same id; a letter discarded can be replayed; jobs
that stalled twice never become one. `withIdempotency` is imported and never called, its table is not
in the schema, and a death leaves its row in `processing`. An update of Telegram that is answered by a
template posts its name in brackets; `unlinkPhone` is called by nobody and an erasure keeps the link.

**Identity and privacy.** The id of a provider's callback is a hash of its signature and time, which
two callbacks can share. The screening of a recipient is written to the profile of the sender, and a
review by an operator stamps `sanctionsScreenedAt`. `runVerificationExpirySweep` is called by nothing;
its reminder of an expired screening is sent again by every sweep; a callback of the provider replaces the
metadata, and the sweep forgets its reminder. `anonymizeLocal` writes null to columns that must not be null, and the
same `tokenHash` to every session, so that an erasure of a real user ends as failed; the sweep's
redaction of notifications and voice commands fails for the first reason. `heldUserIds` does not look
at `releasedAt`. A request whose server died stays `in_progress`; a provider retried after the end is
asked to delete a number that is null. `setCategoryConsent` says that its two writes share a
transaction and they do not; `User.messagingConsent` is not in the schema. `reactivateAccount` takes
the administrator who asks as the one who approves. `FOR UPDATE` is sent outside of a transaction. A
deactivation revokes no REST session, and a call that was let in goes on after a logout.

**Records and lists.** `verify` of the audit log recomputes hashes over columns that come back as null
or with other key order, and calls untouched rows altered (the model has its checks of the links);
a writer whose clock is behind makes every later row follow the same one; a row without a hash starts
a new chain. Two contacts of one owner whose numbers are equivalent keep
their old spelling, and are reported. The verification of the phone migration counts users who registered later as
mismatches; a user stored under an old spelling gets a second account. Ascending pages walked
backwards come in the wrong order (`utils/cursorPagination.js`), and the `OR` of a cursor takes the
place of the filter's. `AuditLogs.jsx` does not parse. On the Users page an answer that comes after its
dialog was closed is shown in the next one, if that one's own answer came before or does not come;
notes of a deactivation that was called off go with the next one, and so does the ticked `force`, which
not even a success resets; and a success closes the dialog of whomever it finds open (`Users.jsx:92`).
A window of the rate limit is fixed: twice the limit can pass around its end (`LimitsHold`).

Three things outside the models keep modelled code from running. `jobs/deposits.jobs.js:589` calls
`setGauge`, which that file does not import: `registerJobs` throws there, before it starts the deposit
poller, the audit poller, the inbox drain and the outbox sweep; the models describe the worker as it
is written to run. After a transient failure `persistOutboundNotification` writes a column `metadata`
that the `Notification` table lacks, so that the call throws instead of leaving a row to be retried
(`MarkUnresolved`). And columns and tables missing from the schema, named above, make the calls that
use them fail; `Callbacks` models its calls as if the table were there, `Consent` has either client.

## 6. Not modelled in what is modelled

Texts; the voice path of a message (its handler swallows errors); in `Conversation` a PIN is accepted
or refused (its count is in `Access`) and amounts do not occur (limits are in `SpendingLimits`);
webhook batches of messages (each message of a batch is handled by itself, the batch is answered 503
if any of them fails; status callbacks have their batches); the inline fallback of the queue, used
without Redis (the memory that stands in for a Redis command that fails is in `Ordering`); notifications over Telegram and messages without a durable record;
deposits in assets that are not trusted, which are told of without such a record; several wallets (a
sweep takes them one after the other, and the failure of one does not stop it); `replayEvent` of the
inbox and the replay and clean-up of the deposit outbox, which nothing calls; two sweeps of `runVerificationExpirySweep` at a time, which has no
scheduler at this commit. Hashes, signatures and
ciphers are ideal: two are equal only if what they were made of is.

Not modelled at all, each for the reason given: onboarding and evidence (reports that only read);
payment confirmations, `services/userErasure.service.js` and `support/privacy.service.js` (second versions that
nothing calls); exports of a customer's data (they only read); network profiles, the secrets registry,
routes, middleware, metrics and start-up (configuration and wiring, with no state of their own beyond
counters); language understanding and voice (external models and text); the simulator, the landing
page and the pages of the dashboard without a list (views over the API).

## 7. Plan

The runs, the properties and the files are as many as stay readable; what follows changes none of
their numbers, since a proof can live in one of the modules of theorems there are.

1. `PowersOfTen`, if a way around the induction is found, and the totals of a statement of any number
   of rows.
2. `Conversation` as an implementation of an abstract payment that is asked for, confirmed and
   executed once when `Slow` is false, on `ConvInv`.
3. Lemmas that two proofs state alike, in one place.
