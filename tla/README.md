# A verification of api-bricolaltd

`api-bricolaltd` is the server of a marketplace on which people rent tools to each
other: a NestJS application over MySQL (TypeORM), with Stripe for card payments,
Wise for payouts, Expo for push messages, S3 for files and crons inside the
process. This directory holds TLA+ modules of its parts, the TLC configurations
that check them, and TLAPS proofs. Paths below are relative to `src/src/` of the
repository.

What makes this code hard to get right is the same everywhere. A handler is a chain
of `await`s: it loads an entity, decides on it, calls other services and saves the
entity much later. There is no version column and, with few exceptions (the rows a
cancellation or a refund saves first in its open transaction), no lock. Wallet
calls use their own connection, outside the transaction of the handler that makes
them. Errors of inner steps are caught and logged. Providers deliver reports late,
twice or not in order. Nothing of this is visible in a test that calls one handler
at a time.

## Inventory

| Component | State | Operations | Hard behaviour | What makes it correct | Modelled in |
|---|---|---|---|---|---|
| Booking settlement (`bookings/bookings.service.ts`, `bookings/services/bookings-cancellation.service.ts`, `wallets/wallets.service.ts`, `disputes/disputes.service.ts`) | `bookings` row, Stripe payment, RENTAL_INCOME rows, two wallets | accept, confirm, reject, validate the code, return, pickup, report, complete, claim, pay out, three cancellations; what the webhooks save of a booking and credit to its owner | stale entities, lost wallet updates, swallowed errors, row locks held through calls to Stripe | wallets agree with the revenue rows; a rental starts on revenue; money leaves at one end | `BookingSettlement` |
| Booking creation and availability (`bookings/bookings.service.ts`, `tools/`, `admin/admin-tools.service.ts`) | `bookings`, `tools` | create with and without payment, change dates, remove, two availability checks | two creations look for conflicts before either inserts; the new booking is saved again after Stripe answered | only overlapping calls share a day of a tool; no unpaid booking keeps its days | `Calendar`, `Reservations` |
| Deposits (`bookings/services/deposit-scheduler.service.ts`, `stripe-deposit.service.ts`) | deposit columns, `deposit_capture_jobs`, setup and payment intents | confirm the card, announce, charge, refund, clean up | confirmation and crons in different states | what is scheduled is charged | `Deposits` |
| Payments (`payments/payment.service.ts`, both Stripe endpoints) | intents, PAYMENT transactions | create, confirm, cancel, hold; `payment_intent.*` events | events late, twice, reordered, at two endpoints | an unpaid intent is never taken for a paid one | `Payments` |
| Refunds (`refunds/refunds.service.ts`) | `refunds`, wallet | request, process by Stripe or Wise, set by hand | Stripe refunds, then something throws and all is rolled back | only what was paid is refunded; the wallet gives no more than Stripe | `Refunds` |
| Stripe webhooks (`webhooks/enhanced-*`, `webhooks/services/*`, `webhooks/webhook-cron.service.ts`) | `stripe_webhook_events` | deliver, check, store, handle, mark; retry and cleanup crons | overlapping and repeated delivery, crashes, cleanup of what makes a delivery a duplicate | a handler runs at most once, no row stays unprocessed | `EventOnce`, `StripeWebhooks` |
| Webhook rate limiting (`webhooks/services/webhook-rate-limit.service.ts`) | counters in memory | three levels per delivery, cleanup | counts spent by a delivery that a later level refuses | bounded bursts | `WebhookLimits` |
| Withdrawals (`wallets/*`, `admin/admin-withdrawals.controller.ts`) | WITHDRAWAL transactions, balance, transfers at Wise and Stripe | request, approve, cancel, complete, reports of Wise | debited only when Wise reports; lost answers; repeated reports | never paid more than available; debited once, which does not hold | `Withdrawals` |
| Exchange rates (`exchange-rates/exchange-rate.service.ts`) | cached tables, loads in flight, `exchange_rates` | ask, refresh, cron, clear | a shared promise, a cache cleared while a load runs, three sources | one load, nothing older over something newer, every request answered | `ExchangeRates` |
| Users and account deletion (`users/users.service.ts`) | 22 tables with foreign keys | some thirty DELETEs without a transaction, validation | rows that appear meanwhile, saves that bring rows back, refusals half way | takes nothing of others; a booking that goes on blocks it | `Schema`, `AccountDeletion` |
| Accounts and authentication (`users/users.service.ts`, `auth/auth.service.ts`) | columns of a user | register, verify, log in, suspend, activate, change, delete | whole users saved after other awaits | a suspended user stays out | `Accounts` |
| Tools, moderation, photos (`tools/`, `admin/admin-tools.service.ts`) | `tools`, `tool_photos`, files | edit, approve, reject, archive, make a photo primary, remove | whole rows saved late, two statements for one flag, files beside rows | nothing is confirmed unseen; one primary photo; no photo without file | `Listings`, `Gallery` |
| Notifications (`notifications/`) | push tokens | register, de-duplicate, disable | overlapping registrations | one active token per device | `PushTokens` |
| Reminders (`bookings/booking-scheduler.service.ts`) | what was told | four crons | lost runs, notices that fail, each cron with its own dates | no booking is forgotten | `Reminders` |
| Monitoring (`payments/monitoring/`) | rules in memory, figures of loaded rows | check, alert, change; compute | awaits between check and note; totals of strings | alerts keep their distance; distributions count each row once | `Alerts`, `Metrics` |
| 3-D Secure (`payments/three-d-secure/`) | – | whether to challenge | three rule sets, two spellings of currencies | two callers agree | `ThreeDSecure` |
| Reviews (`reviews/`, `admin/admin-reviews.service.ts`) | three tables | create, update, moderate, delete | looked up, then inserted | one per booking | `Reviews` |
| Editorial content (`news/`) | articles, sections, images, files | create, change, remove | files before rows, partial saves | what is shown is stored | `Editorial` |
| Administration (`admin/`) | – | reports, statistics, lists | queries that see different moments | parts fit the whole; no row is skipped | `Reports`, `Pages` |
| Request limits (`common/middleware/rate-limit.middleware.ts`) | records in memory | count, block, clean up | two limits share one record | bounded bursts, blocks hold | `RequestLimits` |
| Disputes, live updates, e-mail texts, categories, bookmarks, documents, settings, seeds, migrations | rows without a protocol | create, read, update, delete | – | – | – |

`PROJECT.json` lists every component with the reason where it is not modelled, and
the hazards at their lines with the properties that watch them.

## Modules

| Module | What it is |
|---|---|
| `BookingSettlement`, `MCBookingSettlement` | the handlers that move a booking through its life, and its money with it; amounts and sets of offered calls for TLC |
| `Calendar` | abstract: no day of a tool is given twice, except to rivals |
| `Reservations`, `MCReservations` | creation, change and removal of bookings; instantiates `Calendar` (`KeepsCalendar`) |
| `Deposits` | the deposit of one booking and its crons |
| `Payments`, `Refunds` | intents and transactions under events; refunds over them (`Refunds` extends `Payments`) |
| `EventOnce` | abstract: an event's handler begins at most once and ends at most once |
| `StripeWebhooks` | the endpoint, its table and its crons; instantiates `EventOnce` (`HandledOnce`) |
| `Withdrawals`, `MCWithdrawals` | the withdrawals of one user, Wise and Stripe |
| `ExchangeRates` | one table of rates and its loads |
| `Schema`, `AccountDeletion`, `MCAccountDeletion` | tables and foreign keys as data; the deletion over them; a small database |
| `RequestLimits`, `WebhookLimits`, `PushTokens`, `Alerts`, `Listings`, `Gallery`, `Reminders`, `Reports`, `Pages`, `Reviews`, `Editorial`, `Accounts` | a service each |
| `Metrics`, `ThreeDSecure` | formulas without state |
| `Platform`, `MCPlatform` | the twelve services in one specification, and the assumptions about the formulas |
| `*_proofs` | the theorems of `BookingSettlement`, `StripeWebhooks`, `Withdrawals`, `ExchangeRates`, `Refunds`, `Reservations` and of the services in `Platform` |
| `Sums` | sums over finite sets, for the theorems about money: they add up whatever the order |

Definitions marked "A mutant" are wrong versions of the definition that follows:
each shows that a property would notice the mistake, and no specification uses them.

### repository.save

Most modules share one piece of machinery. `repository.save(entity)` selects the row
again, compares, and updates the columns in which the loaded entity and the row
differ, whether the handler assigned them or not; a row that is gone is inserted
again; loaded children that are gone are inserted again with their parent. So a save
is three moments, load, select and update, with other calls between them, and each
module says which of its columns are told apart. `repository.update` is one
statement and leaves undefined values out. A find with a Date on a `date` column
compares with midnight.

### BookingSettlement

A call in flight is a slot `req[r]`: the operation, the booking, the entity as
loaded and assigned (`ent`), the columns the handler assigned (`cols`), the step it
is at, and the wallet it computed (`buf`). `Load` is `findOne` with the checks on
what it returned (`Guard`). `Following` gives the order of awaits of each handler:

* accept and payout: owner's wallet, admin's wallet, commit;
* validate: commit, owner's wallet, admin's wallet;
* the renter's cancellation: refund, wallets, commit, cleanup;
* the owner's cancellation: lock the row, refund, wallets, commit, cleanup;
* the forced cancellation: lock the row, refund, commit with its debits;
* the webhook's `payment_intent.succeeded` ("credit"): commit, owner's wallet;
* every other handler, among them every other event of a webhook ("notice"): commit.

Choices worth knowing:

* `SaveRow` writes the columns the handler assigned and any subset of the others in
  which entity and row differ: a change that another call made between load and
  select is written back, one made between select and update is not. A wallet save
  that only changes what is pending writes back the available balance it read, or
  not, for the same reason.
* `ForeignKeys` says whether the schema has the foreign keys the entities declare
  (`synchronize` is off in `config/database.config.ts`, so the code alone does not
  tell; `users.service.ts` and `seeds/index.ts` treat them as existing). With them,
  a refund row inserted in an open transaction holds a shared lock on the owner's
  wallet (`pin`), which the handler then updates on another connection: only the
  lock timeout ends that wait (`WalletTimeout`).
* The refund service is summed up as "refuses" (`RefundRefused`) or "refunds"; it
  has a module of its own.
* The forced cancellation debits the wallets by shares of the full price: `Gross`,
  which is more than the `Share` that accepting credits. Its debits, which belong to
  its transaction, are taken together with its commit.
* The webhooks save the whole booking with a payment status that its column does not
  declare (`payment_confirmed` and others; the ENUM is in `booking.entity.ts`).
  In strict mode MySQL refuses that save and the handler ends (`EnumRefused`);
  otherwise it stores the empty string, and `handlePaymentIntentSucceeded` goes on to
  credit the owner with the whole amount (`credited`). The repository sets no
  `sql_mode`, so both may happen. Intents of deposits name a booking too, so any
  booking may be credited, at any time and again (`MaxCredited` bounds it).
* `Offered` says which calls are made: handlers check less than the screens do.

### Calendar and Reservations

`Calendar` knows claimants, slots, who holds what, and `rivals`, the sets of
claimants that asked at the same time. `Reservations` maps its pending and accepted
bookings and the days of its tools to it. A creation is the query for conflicts, the
insert, Stripe, and the save of the booking that the insert returned; a change of
dates, an acceptance (a load, and a save that may write the whole booking back) and a
removal interleave with it; the other handlers of `BookingSettlement`, after which a
booking takes no days any more, are one step each. `create` looks for PENDING and ACCEPTED bookings only, so the calendar
is about those: a tool that is out (ONGOING) can be promised again, and the code
means it so or not, but says nothing. `Editable` are the statuses in which the
screens offer a change of dates.

### Deposits

One booking, its jobs and three chains: `confirmDepositSetup`, the notification cron
and the capture cron, each cut at its awaits. The clock has the phases that the crons
tell apart. `DepositCaptured` is violated, which is one of the project's findings: the
confirmation stores the payment method together with `depositCaptureStatus` SUCCESS,
both crons select PENDING ones, and so no confirmed deposit is ever charged. A second
reason lies behind it: `captureBookingDeposit` passes by a booking without
`stripeCustomerId` (`row.customer`), and no service stores one. The model leaves both
values, so that the first reason shows by itself.

### Payments and Refunds

An intent at Stripe posts an event per move, and either endpoint may apply it now or
later, again, and before earlier ones; applying it is a read of the transaction and
a save. `Refunds` adds the rows, the locks (`holder`), what Stripe has returned, the
wallets, and the other transactions a request may name: the validation admits a
withdrawal (`Withdrawal`) as it admits a payment, and no revenue (`Income`). The
reference of a withdrawal is a transfer's number, so Stripe refuses its refund, and
Wise pays it out a second time. A processing runs in a transaction whose rollback undoes neither what
Stripe did nor what the wallets service saved. Two facts of the code give it its
shape: a DECIMAL column comes back as a string, which has no `toFixed`, so every
processed refund throws at its notification and is rolled back; and a second
processing that waited for the row lock goes on with the status it read before.
Hence a payment may be refunded twice by Stripe, which is modelled and not claimed
away; the properties say what does hold.

### StripeWebhooks

A delivery checks the table, stores the event, runs its handler and marks the row,
one step each. A handler is a beginning and an end (`Begin`, `Finish`); what it writes
of a transaction is in `Payments`, and of a booking and its owner's wallet in
`BookingSettlement`. `age` is time: an event is deliverable, too old for
`validateEventConsistency`, or older than the thirty days after which its row is
deleted. `sweep` is the selection the retry cron works through; its limit of fifty and
its order are left out, and the backoff method the crons never reach. A delivery
refused by the rate limiter is one that never came. A delivery is assumed to take
less than thirty days.

### Withdrawals

As in BookingSettlement a call goes through its awaits and saves what it loaded.
`transfer` is the transfer at Wise of a withdrawal (one per withdrawal: the code
passes the id of the withdrawal as `customerTransactionId`), `seen` the states it
went through, each of which Wise may report now or later. `stripe` and `debited` are
histories, counted up to two. Wise reports a payment twice, as sent and as completed
(`Finals`), and the code debits for either: `alreadyFinalized` knows a transfer that
completed, not one that was sent, so that a withdrawal reported as sent and then as
completed debits the wallet twice, in order and with no call lost. The comment over
`finalizeCompletedWithdrawal` says "exactly once"; that (`DebitedOnce`) is false, and
what is claimed is how far it goes: `DebitedAgainOnlySent`, and `BalanceAccounted`,
which is exact only while nothing is debited again.
`AutoFund` is true where Wise funds transfers when asked; false stands for the
deployments where it is switched off or always refused.
`Orderly` is an assumption about the surroundings: Wise reports the state of the
moment, and administrators do not act against Wise. Several properties are claimed
under it only, because the code relies on it:

* a late "processing" report moves a completed or cancelled withdrawal back to
  PROCESSING, and then two can be active;
* a late report of a transfer that completed debits the wallet again when a report
  that it was sent comes in between;
* with automatic funding the withdrawal is completed without a debit, and until
  Wise reports, the balance can be asked for again: `NeverOverpaid` is claimed for
  funding by hand.

Bookings that settle meanwhile add to the same balance (`addAvailableFunds`,
`transferPendingToAvailable`); that is left out, and with it the update either side
can lose to the other.

### ExchangeRates

One table, with its cache entry (fresh, stale, gone), the load that requests join
(`inFlight`), the loads that run, and the database rows by currency. A load asks the
provider, then writes the rows one by one, or falls back to the rows and then to the
built-in rates. A request that finds nothing waits for the shared load (`waits`).
Clearing the cache forgets the load in flight: it goes on, and a second one starts.

### Schema and AccountDeletion

The tables are data: for each referencing column what the deletion of the row it
points to does. `Doomed` is what a deletion takes along, `Restrictors` what forbids it.
The deletion is a list of statements over lists of rows read before; each commits by
itself. Others insert rows meanwhile (`MaxLate`), update rows by load and save, which
inserts a deleted one again, and ask for the validation. That asks one query after the
other (`check`): the bookings as a renter, the tools, the bookings of these tools, the
disputes, the bookings not returned. An error of the first three forbids the deletion,
one of the last two counts as nothing found, against the comment at the end of the
function ("be conservative and don't allow deletion"): the model lets the step for the
disputes go on whatever is pending, and nothing is claimed of disputes. `steady` is
what has gone on since the validation began.

### The services of Platform

They share no row and no object that their properties are about. `Platform` picks one
of them (`focus`) at the start and gives it its variables; a product of the services
would only multiply their states.

* `RequestLimits`: one key of the middleware, reads and writes counted in one record.
* `WebhookLimits`: the three levels of a delivery. Both claim the bound a fixed
  window gives, two windows' worth in any stretch as long as a window.
* `PushTokens`: a registration is find, save, read the siblings, disable them.
  A token is also disabled by a request, by the ticket or by the receipt of a push.
* `Alerts`: a check awaits the metrics and each notification; an update replaces
  the rule's object, its cooldown too. `excused` remembers rules alerted by two checks at
  once, or replaced while a check was alerting on them. A test (`TestAlertRule`) sends an
  alert in the cooldown or not and notes nothing: `sent` is about the alerts of checks.
* `Listings`: `content` stands for what a moderator looks at. `reviewed` is what the
  confirming calls had loaded. `mixed` excuses a row that changed between the select
  and the update of a save.
* `Gallery`: photos are rows and files, one flag says primary. `crossed` excuses a
  photo made primary while another call was between looking at the flags and setting
  its own; `excused` the photos whose removal failed after the file was deleted, or
  that a save brought back.
* `Reminders`: time goes in quarters of a day; each of the four crons has its hour,
  its own comparison of dates, and a loop over the bookings it loaded.
* `Reports`: a report is stages of chains of counting queries; rows of the tables it
  reads appear, change status and go between the queries. `Compared` lists the reports
  that show parts and a whole; those whose queries run in parallel are not in it, as
  an insert between two of them contradicts them. A query says which bounds of the
  period it has: some leave its end open (`since`, `after`), and only the formatted
  report reads the clock a second time (`ReadsClock`).
* `Pages`: a reader turns pages by offset; each page is rows and a count, in the
  order the list has them.
* `Reviews`: three kinds of review, each looked up and then inserted.
* `Editorial`: an article with sections, or a section with its parts; the steps of
  create, change and remove, files before rows.
* `Accounts`: the flags of one user, and calls that load, await, select and update.
  `held` and `blended` are histories the property needs.

`Metrics` and `ThreeDSecure` have no state. Their claims are assumptions of
`MCPlatform`, which TLC evaluates over all lists of up to three of three rows and over
amounts around each threshold.

## Runs

Twelve, each a question of its own; one of them shows a property violated.

| Run | Configuration | Shows |
|---|---|---|
| `booking_serial` | one booking, one call at a time, every call in every status, two faults | `OngoingEarned`: a rental only starts on revenue recorded for it; `HandoverOrder`: the owner has the tool back only after it was handed out and returned |
| `booking_ledger` | two bookings, one call at a time, the calls the screens offer and the webhooks, no faults | `LedgerBalanced`: wallets agree with the revenue rows and the webhook's credits whenever nothing is in flight; `RefundedNotSettled`: no refunded booking's revenue was made available by a code or a payout |
| `booking_race` | one booking, two calls at once (accept, validate, cancel), foreign keys, fairness | `PendingNeverNegative` under every interleaving of reads and saves; `CallsEnd`: no call waits for ever |
| `webhook_delivery` | two events, two deliveries at once, two faults, fairness | `HandlerOwnsRow`; `HandledOnce` (refines `EventOnce`); `RowsSettle`; `ArrivalsHandled` |
| `withdrawals_manual` | two withdrawals, one call at a time, funded by hand, `Orderly`, fairness | `NeverOverpaid`: over all withdrawals; `DebitedAgainOnlySent`: no second debit but for a transfer that was reported as sent; `BalanceAccounted`: no first debit is cut off at zero, and nothing else is missing while none is repeated; `OneActive`; `PaidIsRecorded` |
| `withdrawals_auto` | one withdrawal, all ways of payment, two calls at once, reports in any order, one fault | `CompletedIsBacked`: a completed withdrawal was debited or handed to a provider |
| `reservations` | two bookings of a tool, two days, two calls at once | `KeepsCalendar` (refines `Calendar`); `UnpaidIsInFlight`: a booking whose payment was refused does not stay; `AnswersAgree`: the availability checks promise nothing that `create` refuses |
| `exchange_rates` | two requests, three loads, two currencies, one clearing, fairness | `OneLoad`; `NeverBack`: no older table over a newer; `RequestsAnswered` |
| `deposit_not_captured` | one booking, two jobs, fairness; violated | `DepositCaptured`: a scheduled deposit is charged, or its charge is tried and fails |
| `refunds` | one payment, one withdrawal, one revenue, two refunds, two calls, two events | `OnlyPaidIsRefunded`: a paid payment or a withdrawal, never a revenue; `NeverDeductedAhead`: a wallet loses no more than Stripe gave back, so nothing for a withdrawal; `LocksAreHeld` |
| `account_deletion` | two bookings with what was paid and refunded for them, a dispute, a review and a favourite of others, one late row | `OnlyKnownObstacles`: only refunds and late rows refuse the statements, as the comment on their order says; `ValidatedLosesNothing`: what has gone on since before a validation that allowed the deletion is not deleted; `KeepsOthers`: nothing goes that is not the account's |
| `platform` | twelve services, two calls at once each | `AdmittedWithinLimits`, `AlertsSpaced`, `OneActivePerDevice`, `ConfirmedWasSeen`, `NobodyForgotten`, `ReportsAgree`, `NoneSkipped`, `OneReview`, `ShownIsStored`, `SuspensionHolds`, `OnePrimary`, and `TypeOK` of the twelve |

The violated run is a finding: `PROJECT.json` quotes it with the message of the code that
promises what the run shows broken.

`TypeOK` is defined in every module. Those of `BookingSettlement`, `StripeWebhooks`,
`Withdrawals`, `ExchangeRates`, `Refunds` and `Reservations` are theorems; `platform`
checks those of the twelve services; those of `Deposits` and `AccountDeletion` hold in
the same configurations when they are added to them, and are left to that.

### Bounds

* Bookings: the handlers of different bookings share nothing but the wallets. Two
  bookings suffice to have one's money taken for the other's; one suffices where
  the property is about one booking's life or row lock. Two calls in flight give
  every race between a read and a save of the same row, and a waiter for every
  lock; a third adds waiters, not a new kind of wait.
* Amounts: `Share` differs between bookings so that mixing them up shows;
  `Gross > Share` as in the code.
* `MaxIncome` bounds how often revenue is recorded for one booking before an accept:
  a second pair of rows takes a second accept, which the guards exclude while the
  first stands.
* `reservations`: two bookings are a conflict, two days are dates that meet and dates
  that do not; the changes asked for (`AskedDates`) are one of each.
* Events: two, so that cleanup and retry of one run beside a delivery of the other;
  two deliveries give the overlap of a redelivery. `MaxEvents` of `Refunds`: two events
  are enough to apply them in the wrong order and one of them twice.
* Withdrawals: amounts 1 and 2 on a balance of 2 with the approval threshold at 1
  give both paths of createWithdrawal, a second request that fits and one that does
  not. `Several` = 2 stands for "twice or more".
* Exchange rates: three loads are the registered one, the forgotten one and one more
  that begins when the forgotten one unregisters it; two currencies let a load stop
  between its rows; two hours make an entry fresh, stale and expired.
* `account_deletion`: `Depth` is the longest chain of references between tables;
  the rows at the start are those of which a property can be violated.
* `platform`: limits of two and three requests with a window of three ticks and a
  clock of four windows; two tokens on one device and two users; seven days, which end
  after the automatic completion of a booking that begins on the first that can be
  accepted in time; three rows on pages of one; three photos, of which one is primary, one
  made primary and one left; two children of an article or section, so that a save
  that is out of date finds one that is new to it or brings one back.
* `MaxFaults` is one or two: a second failure can strike while the first is being
  cleaned up.

`CHECK_DEADLOCK FALSE` is set where the model ends: every event too old to be delivered
(webhooks), every tool deleted (reservations), the clock at its bound (platform,
deposits), the events used up (refunds), the account gone (deletion).

### Fairness

* `BookingSettlement`: strong fairness of each call's progress. Node runs
  continuations that are ready; InnoDB grants a row lock to its waiters in order, so
  a waiter that can proceed again and again is not passed over for ever.
* `StripeWebhooks`: a delivery in flight goes on, the retry cron runs again and
  again. Stripe is not obliged to deliver, faults are not obliged to happen.
* `Withdrawals`: a call in flight goes on; Wise repeats the report that the money
  was sent until it gets through.
* `ExchangeRates`: a load goes on: the HTTP client has a timeout, and a query
  answers or fails. Nothing makes requests come.
* `Deposits`: time passes and the crons run at their hours, with their steps.

No client call, administrator's action or fault is ever assumed to happen. The other
modules claim safety only and have no fairness.

## Refinement

* `StripeWebhooks` implements `EventOnce` (`HandledOnce`): checked in
  `webhook_delivery` and proved (`DeliveredOnce`). The abstract state is how often the
  handler of each event began, and which came to their end.
* `Reservations` implements `Calendar` (`KeepsCalendar`): checked in `reservations`
  and proved (`CalendarKept`). The abstract slots are the days of tools, held by pending and accepted bookings, and
  the rivals are a history that `Reservations` keeps.

## Proofs

All theorems hold for any number of rows, slots and calls (finite where a sum or a
count needs it), any amounts and any bounds, from the named assumptions on the
constants: `AmountAssumption`, `SlotAssumption`, `BoundAssumption`, `EventAssumption`,
`WithdrawalAssumption`, `SettingAssumption`, `RatesAssumption`, `NoTableAssumption`,
`PaymentAssumption`, `RefundAssumption`, `ReservationAssumption` and
`PlatformAssumption`. Where the code only keeps a promise under conditions, the
conditions are the theorem's hypothesis, written out below; they are those of the run
that checks the property, with sets and numbers left open.

Hardly any property is inductive by itself, always for the same reason: a call holds
in memory what it read, and saves it later. The invariants say what the memory of a
call has to do with the rows at each of its awaits.

### BookingSettlement_proofs

* `TypeCorrect`: every interleaving, fault and crash.
* `PendingSafe`: `PendingNeverNegative`, provided no forced cancellation is offered
  (`NoForcedCancel`; its debit is a plain decrement and does go below zero).
  `PendingInv` adds that the wallets computed by calls are not negative.
* `StartsOnRevenue`, `BackBeforePickup`: `OngoingEarned` and `HandoverOrder`, for calls
  on one booking that do not overlap (`~Overlap`); any number of bookings at once,
  every call in every status, every fault. `SerialInv` says that the entity of a call
  that has not saved yet is what its handler makes of the row as it is (`Faithful`),
  and that each row is `Sound` with the revenue recorded for it.
* `RefundedNeverSettled`: `RefundedNotSettled`, for `OnScreens`: calls do not overlap on a
  booking and do not fail halfway, no forced cancellation, owners cancel what is
  pending or accepted, and what is paid out is accepted. `RefundInv` says what a
  price returned, or revenue made available, tells of the row or of the call that is
  about to save it. The webhook's credit is not revenue that was settled: what it makes
  available to the owner stays with a refund, as `LedgerBalanced` shows.
* `LedgerKept`: `LedgerBalanced`, for `OneCall`: `OnScreens`, one call at a time, no
  foreign keys, finitely many bookings. `LedgerInv` makes each wallet the sum over all
  bookings of what the revenue rows say (`Owes`), corrected for the booking whose call
  has been to that wallet and not saved its row yet (`Visited`), and, in the owner's,
  all that the webhook credited.

### Withdrawals_proofs

* `TypeCorrect`, which includes that the balance is never negative.
* `CompletedBacked`: `CompletedIsBacked` with reports in any order and any faults.
  `BackedInv` adds that calls about to save COMPLETED are backed already, that calls
  creating a withdrawal carry PENDING, and that Wise only reports transfers it has.
  Nothing that backs a withdrawal ever goes away.
* `OneAtATime`, `DebitedAgainByHand`, `AccountedByHand`, `PaidFromWallet`: `OneActive`,
  `DebitedAgainOnlySent`, `BalanceAccounted`, `NeverOverpaid`, for `ByHand`: transfers at
  Wise funded by hand, reports of the moment, each any number of times, one call at a
  time, nothing lost, finitely many withdrawals. `ByHandInv` says which status, state of
  the transfer and number of debits go together (`Fits`), except while a call is about to
  save them, what such a call knows (`Knows`), that an active withdrawal not yet debited
  and all that was withdrawn fit into the funds of the start, and that the balance and
  what was withdrawn do, too, and make up the funds while nothing is debited again.
  `SentInv` follows the report that the money was sent: a row, a call or a second debit
  that tells of it has it from Wise.

### Refunds_proofs

* `TypeCorrect`, with a part of its own: a call works on a row that is there.
* `LocksHeld`: `LocksAreHeld`, which is inductive with the types.
* `RefundsArePaid`: `OnlyPaidIsRefunded`. The type check keeps revenues out; for a
  payment `PaidInv` follows the success of a payment through Stripe, its events, the
  calls that apply them, the transaction, and the request: nothing on that way is
  COMPLETED before the intent has succeeded, and no intent takes that back.
* `WalletCovered`: `NeverDeductedAhead`, for every transaction. `MoneyInv`: what the wallet lost and all that
  calls have still to take is no more than what Stripe gave back (`Covered`); and
  the same from the balance a call read before, without its own part.

### Reservations_proofs

* `TypeCorrect`.
* `CalendarKept`: `Reservations` implements `Calendar`. `CallInv` says that calls in
  flight together are rivals and what each knows of its row. `CalendarInv` adds that
  the days a call has found free are free still, but for rivals of its booking, and so
  are the days of a booking under acceptance, since the calendar was kept when the
  acceptance loaded it (`BookedIsClear`). So a step that grants days is a grant of
  `Calendar`.
* `UnpaidHeld`: `UnpaidIsInFlight`; `DueInv` says who has the booking in hand.
* `AnswersKept`: `AnswersAgree` is a fact about all tables, reached or not: the two
  availability checks look at every booking `create` looks at.

### ExchangeRates_proofs

* `RatesTyped`: the moment of a table read from the database is that of one of its
  rows, a least or greatest element of a finite set.
* `LoadsShared`: `OneLoad` for any finite set of load slots. `LoadsInv` counts the
  registered load apart: without one, the loads that run are at most the clearings,
  with one, at most one more. A forgotten load that unregisters its successor pays for
  it by ending itself.
* `TimeForward`: the action property `NeverBack`. As long as nobody cleared the cache,
  the registered load is the only one, and what it was told is as new as all that is
  stored (`Forward`).

### StripeWebhooks_proofs

* `WebhooksTyped`; `RowOwned`, `DeliveredOnce`: `OnceInv` says that an event's row
  exists from the storing delivery to the end of its handler, that it outlives every
  run while a delivery may still be accepted, and that one delivery at most works on an
  event. `HandlerOwnsRow` is a part of it; with it every step of `StripeWebhooks` is a
  step of `EventOnce` or leaves its variables alone.

### Platform_proofs

The focus never moves, so each service has an invariant of its own, about the states in
which it has the focus (the lemmas `ListingAlways` to `ReportsAlways`); the theorems
follow from them. `PlatformAssumption` asks for positive windows, limits and sizes,
for bounds that are naturals, for a finite set of reported rows, and, of the bookings of
`Reminders`, which start on day 2 and end four days before `LastDay`, that they do not
end before they start.

* `ConfirmedSeen`: `ConfirmedWasSeen`. What a call is about to save as confirmed was
  reviewed, and so is the row its update will leave, unless the row was written since
  the call selected it.
* `OneDevice`: `OneActivePerDevice`. Two active tokens of a user on one device have a
  registration in flight that will still look for the siblings, or has seen one.
* `SpacedAlerts`: the action property `AlertsSpaced`. A rule that is
  not excused has at most one check alerting on it, which found the cooldown over when it
  began, and nobody alerts on it again before that check has noted the alert.
* `SuspensionLasts`: `SuspensionHolds`. What a visit carries in memory, and what its
  update would leave of the row, by whether the user was suspended since its load.
* `SingleReview`: `OneReview`. Rows have subjects; unless its subject is named as
  doubled, a creation past its look is alone: no review appeared since, and no other
  creation is past its look.
* `OnePhotoFirst`: `OnePrimary`, with the files: which photos have one, which of them a
  job has in memory, and which it deleted (`PhotosHold`, `JobHolds`).
* `ImagesStored`: `ShownIsStored` of `Gallery`, a part of the previous invariant, and of
  `Editorial`: the steps of a call still to come follow the plan of its operation
  (`PlanHolds`), each file it is going to write into a row is stored or an earlier step
  of the plan stores it (`Backed`), and rows without an excuse have their files
  (`ImagesHold`).
* `RowsShown`: `NoneSkipped`. Of the rows in front of the page that is due, those not
  seen have appeared or moved since the first page was asked for; once the count of the
  rows says that a page is the last, that is so of all rows, and it stays so until the
  reader turns away.
* `RequestsAdmitted`: the action property `AdmittedWithinLimits`. `Windowed` says it of
  one count and of the requests of each of the last ticks: those since the start of the
  window are at most its count and its limit, and the older ones, which were let through
  by an earlier window, at most one limit more; without a window, one limit is all. A tick
  of the clock moves every request one tick back; a blocked key keeps its record, so that
  a clean-up takes only windows that are over. The same lemmas serve the three levels of a
  delivery (`KeyWithin`).
* `RemindedInTime`: `NobodyForgotten`. Each of the four crons has two runs that find a
  booking (`First`, `Second`). Until a run is over the booking is ahead of it, and
  afterwards it was served, or there was a fault; after the second run it was served, or
  there were two (`ServedOrFaulted`). The dates of a booking never change, so the hours
  at which the four comparisons of dates hold can be named once and for all (`JobsDue`).
* `ReportsConsistent`: `ReportsAgree`. Where a part is counted before the whole, it is at
  most what the whole would be by now (`PartFirst`); where the whole is first, what it
  counts is over, stays what it is, and has room for all parts counted later
  (`WholeFirst`). The attempt to prove it found an earlier version of the model wrong in
  two places, which are corrected: it took periods for closed that the queries leave open
  at their end, and let every report read the clock again for its second stage.
* `TypeCorrect`: `TypeOK`, from the twelve invariants, with two more that no other theorem
  needs: no row is listed twice (`ListedOnce`), and notices, faults and the clock of the
  crons keep within their bounds (`RemindersBounded`).

### Sums

Sums over finite sets are defined by a recursive function over subsets, and their laws
(`TotalSplit`, `TotalChange`, `TotalAtMost` and others) are proved from a smallest
counterexample, not from an induction theorem. `Refunds_proofs` does without: that its
sums exist is kept by the steps.

### Left to TLC

Out of the provers' reach are the liveness properties (`CallsEnd`, `RowsSettle`,
`ArrivalsHandled`, `PaidIsRecorded`, `RequestsAnswered`, `DepositCaptured`), ENABLED, and
what a recursive definition computes for every input (the laws of `Sums` are the
exception, as said).

Safety that is checked by TLC and not proved: `OnlyKnownObstacles`,
`ValidatedLosesNothing` and `KeepsOthers` of `AccountDeletion`. What the statements meet
depends on the rows: `OnlyKnownObstacles` is no theorem about every table of rows the
foreign keys allow, but about those the services write, in which `tool` and `verifiedBy`
of a document, `moderator` of a dispute and `dispute` of a transaction stay empty; a
document on a tool of the account would refuse its deletion as a refund does.

Under overlapping calls or faults the money
properties of `BookingSettlement` and `Withdrawals` are not theorems because they are
false there, as the next section says.

## What is not claimed

The models contain more misbehaviour than the violated runs show. What follows is
so in the code, is modelled where a module is named, and is why some properties are
stated with an excuse, or not at all.

* Money. With failures or overlapping calls the wallets do not balance: swallowed
  errors leave pending funds behind, overlapping transfers lose an update, and
  `withdrawPendingFunds` waits, under foreign keys, for a lock its own caller holds.
  The owner's cancellation has no status guard and ends ongoing and completed
  bookings; a forced one undoes a completion it raced with. Two approvals of a
  withdrawal, or a lost answer of Wise followed by Stripe, pay twice; a report that the
  money was sent, followed by another, debits twice, and so does a crash between a debit
  and its row; a report acknowledged before the transfer's id was saved is lost. The
  price that the webhook credits to an owner stays with him when it is refunded. Stripe
  may refund a payment twice, a payment may have two open refunds, and a withdrawal
  refunded by way of Wise is paid out again. (`BookingSettlement`, `Withdrawals`, `Refunds`)
* Webhooks. The retry cron marks an event as successfully processed although
  `processStripeEvent` only logs it. (`StripeWebhooks`)
* Tools and photos. `deleteTool` asks for booking statuses that do not exist, and the
  foreign key takes the bookings along (`Reservations`). Administrators' deletions
  leave files in the store. A stale `setToolPhotoPrimary` inserts a removed photo
  again, whose file is gone; two photos made primary at once both are (`Gallery`).
  `isPrimary=false` sent in a form is converted to true.
* Accounts. `clear*Tokens` pass undefined, so the columns stay, and login's exception
  for a reset in progress never ends. Deactivated users can log in but not refresh. A
  stale save inserts a deleted user again, without a wallet (`Accounts`). Deletions
  end half way at a refund (`AccountDeletion`). The bulk deletion works only for users
  without preferences.
* Reminders. Both notices that say "tomorrow" go out two days ahead as well; only
  ACCEPTED bookings are looked at, so nobody whose tool is out is reminded.
  `checkDepositReminders` and `checkOverdueDeposits` return at once, and
  `BookingNotificationsService` has no callers. (`Reminders`)
* Figures. Amounts are strings, so totals added in JavaScript are concatenated
  (`Metrics`, as lists). Statistics counted in parallel (of users, tools, refunds,
  notifications, requests, security logs) may contradict themselves; filters written
  with `gte`/`lte` or `$gte`/`$lte` are not TypeORM operators; the low-success alarm
  rings when there are no transactions; the chart and the figures of the formatted
  analytics have different periods. (`Reports`, `Alerts`)
* Lists. Rows that go or change places hide another one; bookings and security logs
  count before they fetch; the search of withdrawals has an OR without brackets.
  (`Pages`)
* 3-D Secure. A currency in capitals escapes the rules of its area; EUR billed in GB is
  challenged from 25. (`ThreeDSecure`)
* Reviews and news. Two creations make two reviews; the legacy creation always fails
  (`Reviews`). Creating an article saves its sections twice, changing one with new
  sections replaces them and then fails at its save (`Editorial`).
* Exchange rates. Decimal columns come back as strings, which `filterSupportedRates`
  drops: a table served from the database lacks the currencies with a direct row.
  (`ExchangeRates`)
* Push. A message that is too big disables the token it was for; the
  receipt of an earlier push disables a token registered since. (`PushTokens`)

## Not modelled

* Texts: e-mails, messages, `sendBookingNotification`, exports, formatting.
* Single rows without a protocol: categories, bookmarks, documents, preferences,
  sessions, settings, contact, activities, disputes beside their bookings.
* Administrators' updates of transactions (`admin-transactions.service.ts`), which set
  any status by hand and pass by every rule of payments and refunds.
* `retryTransfer`, quotes, recipients and the administrator's test withdrawals;
  `createPaymentIntentWith3DS` beyond the decision to challenge; the release of held
  funds; the fields of PATCH /bookings besides the dates; the changes of alert rules
  besides their switch and their cooldown; the FCM fallback.
* 3-D Secure sessions: `createThreeDSession` inserts a row without columns that must not
  be null, so none is ever stored. The functions of exchange rates for one pair
  (`getExchangeRate` and those it calls) have no callers.
  The branch of `update` that replaces a tool's primary image cannot be reached,
  because `FileUploadMiddleware` accepts the field `files` only.
* Live updates push what was saved and keep nothing; seeds and migrations run by hand.

## Plan

1. `OnlyKnownObstacles` of `AccountDeletion`: an assumption on the rows that says which
   columns the services set, and an invariant that says, for each statement, which of the
   rows that would refuse it are gone.
2. `KeepsOthers` of `AccountDeletion` one statement at a time: every row that a statement
   names, and every row that falls with it, is the account's.
3. Composition: bookings that settle while a withdrawal is debited, on one wallet; the
   refunds of `Refunds` in place of the summary in `BookingSettlement`.
