# AfriStable Pay: a TLA+ development

AfriStable Pay is a wallet and payments platform: a Fastify API over one
PostgreSQL database (Prisma), a Redis with BullMQ queues, and workers that talk
to mobile-money, bank and chain providers. This directory holds its
specifications, the TLC configurations that check them and the proofs TLAPS
checks. Paths below are relative to `src/`.

## 1. The system

### Components, their state, their operations

| Component | State | Operations | What makes it correct | Module |
|---|---|---|---|---|
| Ledger `packages/ledger` | `LedgerAccount`, `LedgerEntry`, the projection `Wallet.availableBalance` | `post`, `getAccountBalance`, `assertWalletHasFunds`, `recomputeWalletBalance` | books balance; no wallet overdrawn; projection equals ledger | `Payments`, `Deposits` |
| Transfers `packages/payments/src/transfer-service.ts` | `Transaction`, `ApprovalQueueItem` | `sendInternal` | a key debits once; a quote is spent once; a frozen wallet pays nothing | `Payments` |
| Withdrawals `.../withdrawal-service.ts` | the same, and a destination row, `OutboxMessage` | `withdrawOnchain`, `withdrawMobileMoney`, `withdrawBank` over `executeWithdrawal` | the same; a held withdrawal is reserved; a payout is enqueued with its posting | `Payments` |
| Quotes `.../quote-service.ts` | `PaymentQuote` | `create`, `consume` | single use, in time, priced as signed | `Payments`, `Pricing` |
| Approval queue, suspension `apps/api/src/routes/admin.ts` | `ApprovalQueueItem`, `User.status`, `Wallet.status` | `/approvals/decide`, `/users/suspend` | decided once; what was reserved is what is released | `Payments`, `Escrow` |
| Outbox dispatcher `apps/api/src/workers/outbox-dispatcher.ts` | `OutboxMessage`, Redis | poll, add, mark | a committed row reaches its queue | `Payouts` |
| Payout dispatcher `.../payout-dispatcher.ts` | job, `MobileMoneyPayout`/`BankPayout`, `Transaction` | send, record, set PROCESSING | a payout is sent once; a status is not taken back | `Payouts` |
| Webhooks `routes/webhooks.ts`, `workers/webhook-processor.ts` | `WebhookEvent`, `Transaction` | intake, process | each report is stored once and settled; the outcome is the provider's | `Payouts` |
| Chain indexer `workers/chain-indexer.ts` | `StablecoinDeposit`, ledger, projection | tick | a deposit is credited once, when confirmed | `Deposits` |
| Idempotency middleware `middleware/idempotency.ts` | `IdempotencyKey` | consume, store | a replay gets the first answer | `Requests` |
| Limits `packages/compliance/src/limits.ts` | reads `Transaction` | `assertWithinLimits` | what a user moves stays within the tier | `Requests` |
| KYC `packages/compliance/src/kyc-service.ts` | `KycRecord`, `User.kycTier` | `submit`, `screen`, `review` | a decision stands; a tier rises by approval only | `Kyc` |
| Accounts `routes/auth.ts` | `User`, `Session`, `OtpChallenge` | signup, login, otp, refresh, logout | lockout and attempt caps hold; a refresh token is single-use | `Accounts` |
| Fraud `packages/fraud` | `RiskEvent`, `FraudAlert` | `evaluate` | verdict follows the scores | `Fraud`, `Requests` |
| Pricing `packages/payments/src/pricing` | - | `computePricing`, `getRate` | fee and spread against the user, never negative | `Pricing` |

### How they interact

A request passes the idempotency middleware and calls a service. The service
reads the user on `this.db`, then opens one Serializable transaction that
consumes the quote, checks the wallet, the funds (ledger, same transaction),
the limits and the fraud verdict (both on `this.db`, another connection), and
writes everything: transaction, posting, queue item or outbox row. Admins decide
held items in a transaction of their own. After the commit, and outside any
transaction, the outbox loop moves rows to BullMQ, the payout dispatcher calls
the provider, and the provider's webhooks come back through `WebhookEvent`.

### What is hard

* Requests of one user race on a wallet, a quote or a key, in several processes.
* State read before a transaction opens is used inside it (`admin.ts:131`,
  `transfer-service.ts:62-79`, the limits).
* A suspension commits between a request's checks and its commit.
* The pipeline after the commit writes to two stores in turn, retries whole
  handlers, and races with webhooks.
* Read Committed transactions (suspend, wallet creation, chain indexer) next to
  Serializable ones.

`PROJECT.json` lists these places line by line under `hazards`, with the
properties that watch them.

## 2. Plan

Most important first: where money is debited, then where it leaves, then where
it comes in, then who may move it.

| Order | Module | Content | State |
|---|---|---|---|
| 1 | `Payments` | transfers, withdrawals, quotes, decide, suspend, wallets | checked |
| 2 | `PaymentsProofs` | its inductive invariant, all its properties | proved |
| 3 | `Escrow`, `PaymentsEscrow` | what the approval queue does to SUSPENSE, and the refinement mapping | checked |
| 4 | `PaymentsEscrowProofs` | `Payments` implements `Escrow`, and SUSPENSE adds up | proved |
| 5 | `Payouts` | outbox, queue, payout dispatcher, webhooks; faults, liveness | checked |
| 6 | `PayoutsProofs` | all its invariants | proved |
| 7 | `Deposits` | chain indexer, projection, drift job; liveness | checked |
| 8 | `DepositsProofs` | all its safety properties | proved |
| 9 | `Accounts` | login and lockout, sessions, OTP, suspension | checked |
| 10 | `AccountsProofs` | all its invariants | proved |
| 11 | `Kyc`, `Fraud`, `Pricing` | KYC workflow; fraud rules and prices as pure operators | checked in 12 |
| 12 | `Requests` | idempotency, tier, limits and fraud, composed with 11 | checked |
| 13 | `RequestsProofs` | all its invariants; the fraud rules add up | proved |
| 14 | `SumProofs`, `PricingProofs` | what 2, 4 and 13 need of sums over finite sets and of fractions | proved |

Who extends whom: `PaymentsEscrow` extends `Payments` and instantiates `Escrow`;
`Requests` extends `Kyc`, `Fraud` and `Pricing`; each `MC` module extends the
module it gives values to; each `Proofs` module extends what it is about.
`PricingProofs`, `PaymentsProofs` and `PaymentsEscrowProofs` rest on `SumProofs`,
`RequestsProofs` on both. `Payments` and `Requests` are two views of one request: the first has the ledger
and its concurrency control, the second the checks in front of it. They meet in
`KeyBindsBody`, which `Requests` shows and `Payments` assumes.

Left: bounds for what the limits let through where the code enforces none (a
transaction that a provider reports failed and then completed, which is counted
late, and two wallets of one user against one limit).

## 3. `Payments`: the money-moving core

### Steps

One execution of `sendInternal` or `executeWithdrawal` is a *handler*, and a
request is its idempotency key: a key stands for one request
(`idempotency.ts:34`, and `KeyBindsBody` of `Requests`), so `Order[k]` is a
constant. (The middleware compares the JSON and not the route, so a client that
reuses a key on the other route is outside this module.) A handler
takes three steps, because the code reads at three times:

1. `Check`: the replay lookup and the user checks on `this.db`
   (`transfer-service.ts:55-79`, `withdrawal-service.ts:159-172`). `Replay` is
   the early return of an existing transaction.
2. `Enter`: BEGIN, and every read and test of the transaction
   (`transfer-service.ts:82-114`, `withdrawal-service.ts:175-201`). A
   Serializable transaction of PostgreSQL reads a snapshot, so the reads are one
   step. Reads on another connection (limits, fraud) only choose between going
   on, review and abort, and each is possible at any time. `Enter` also fixes
   the rows the transaction will write (`WriteSet`).
3. the commit: `SettleTransfer`, `QueueTransfer`, `SendWithdrawal` or
   `ReserveWithdrawal`, one per return of the code, each with *all* writes of
   that branch; or `Abort`.

Concurrency control is the database's, and is modelled as PostgreSQL does it:
a transaction is `doomed` when a row it writes was written by a transaction
that committed since its snapshot (first updater wins). The rows whose
conflicts matter are the quote (`consume` updates it) and the wallets
(`post` ends in `recomputeWalletBalance`, which updates the row of each wallet
it touches; `suspend` and wallet creation write wallet rows too, under Read
Committed). The read-write conflicts Serializable detects in addition only
abort more transactions: any handler may `Abort` at any step, and every
invariant holds without them. The unique column `Transaction.idempotencyKey`
is the guard `status[k] = "NONE"` of `MayCommit`.

The decide route reads the item outside its transaction (`ReadItem`) and then
runs a transaction that depends on nothing that can change (the wallet it looks
up by user and currency exists since the reservation), so BEGIN to COMMIT is one
step: `ApproveWithdrawal`, `RejectWithdrawal` or `DecideTransfer`.

### State

`balance` is credits minus debits of each ledger account, the number
`getAccountBalance` computes for a wallet. `postings` counts the postings
made per transaction and memo. `quote`, `status`, `item`, `walletStatus`,
`userStatus` are the columns of these names; `LAPSED` is an `ACTIVE` quote past
`expiresAt` (the code's update to EXPIRED is rolled back by the exception that
follows it, `quote-service.ts:120-123`). `outbox` counts outbox rows.

`System` is the set of seeded system accounts: `seed.ts:31-62` has no SYSTEM_FEE
for NGN, KES, GHS and ZAR and no EXTERNAL_RAIL for USD and ZAR, so in those
currencies some commits and approvals throw. NGN has two EXTERNAL_RAIL accounts
and the code takes any; they are one account here.

Left out: users that are PENDING or CLOSED (no operation of the code closes
one; PENDING users cannot send and become ACTIVE by an OTP, see `Accounts`), the `lockedBalance` that nothing ever sets, audit and risk rows
(nothing reads them back here), the projection `availableBalance` (it never
decides anything; see `Deposits`), `post`'s duplicate guard (each
caller passes a fresh random `transferId`, so it rejects nothing).

### Runs

| Run | Instance | Shows |
|---|---|---|
| `payments` | 2 users, 1 currency, 3 quotes, 4 keys, 2 handlers, 2 admins; 358 000 states | all safety properties of section 3 |
| `escrow` | 2 withdrawals that are held, one with a spread, 1 transfer for the quote of the other, 2 handlers, 2 admins; 103 000 states | `Payments` implements `Escrow`; SUSPENSE adds up |
| `double_decision` | as `payments` | `PaidOutOnce` is violated |
| `spread` | as `payments`, 1 admin | `DecisionEmptiesSuspense` is violated |
| `approved_transfer` | as `payments` | `ApprovalMovesMoney` is violated |

Why the instance is enough for the interesting cases: the wallet of `u1` holds
5 and the quotes cost 4 and 3, so any two requests that both passed the funds
check overdraw it; `k1` and `k2` race for one quote; two handlers can run one
key; `u2` can pay only what it received; `AutoApprove` = 4 makes one quote need
an approval whatever the verdict; `u2` has no wallet at the start, so
`ensureWallet` and wallet creation race; `q1` has a spread. Handlers and admins
are interchangeable (`SYMMETRY`). Deadlock is checked.

* `NoOverdraft`, `QuoteSpentOnce`, `DebitedOnce`, `FrozenKeepsFunds` are what the
  write conflicts and the unique key buy; their mutants weaken these (Read
  Committed instead of first updater wins, an unwritten quote row, neither conflict nor unique key).
* `BooksBalance` covers the two ways a withdrawal is booked.
* `PendingIsReserved`, `DispatchIsFunded` tie item, transaction, postings and
  outbox together under concurrent admins.
* `ImplementsEscrow`: what the services and the decide route do to SUSPENSE is
  what `Escrow` allows. A withdrawal is held at most once, is decided only once it
  is held, and at most as often as there are admins who may have found it
  PENDING; a decision takes out an amount of its own. The refinement mapping reads
  what was held and the number of decisions off the postings, and takes the SUSPENSE
  balances as they are. `double_decision` shows that the second decision happens,
  `spread` that the amounts differ; `Escrow` says that nothing worse does.
* `SuspenseAddsUp`: the balance of SUSPENSE is accounted for, to the unit, by what
  each withdrawal left there: all of its reservation while it waits, the spread
  once it is decided, less by the whole release with every decision after that.

## 4. `Payouts`: after the commit

A withdrawal enters with `Commit` (the transaction and its outbox row, as
`DispatchIsFunded` of `Payments` has it). A dispatcher reads unpublished rows
(`ReadRows`; the row locks of the query end with its statement, since it runs
outside a transaction), and for each adds a job (`AddJob`) and marks the row
(`MarkPublished`). A job slot takes a job, calls the provider (`Send`), records
its reference (`RecordAck`), sets the transaction PROCESSING (`MarkProcessing`)
and returns (`Complete`); an on-chain withdrawal calls nothing, its submission
is a TODO in the code. The intake stores a report once (`Receive`), the
processor applies it (`ApplyEvent`) and marks it (`MarkProcessed`).

Faults: a call that throws (`SkipRow`, `Throw`, `FailEvent`), a loop or worker
that ends (`EndDispatcher`, `StopWorker`, `EndProcessor`), a lock that expires
under a live worker (`Stall`), which then goes on beside its successor.
`MaxFaults` bounds them. The queries of both loops, and the updates that record an
error, are outside any `try` (`outbox-dispatcher.ts:27,54`,
`webhook-processor.ts:18,31`), and `index.ts:28-31` only prints what they throw: a
loop that ended stays `Ended` until somebody starts a new process
(`StartDispatcher`, `StartWorker`, `StartProcessor`), which need not happen. BullMQ and the providers are external: `jobId`
deduplication, `attempts`, stalled jobs and `removeOnComplete` are modelled as
the code configures and relies on them, and `Attempts` is 2 where the code says
5, `MaxStalled` 1, BullMQ's default. A provider reports at most one outcome per
request it got.

| Run | Instance | Shows |
|---|---|---|
| `payouts` | 1 withdrawal, 2 dispatchers, 2 slots, 1 processor, 3 faults; 2 950 000 states | the safety properties |
| `payouts_liveness` | 3 withdrawals (mobile money, on chain, and one whose queue name is refused), 1 of each loop, 1 fault; 77 000 states | `CommittedIsDispatched`, `ReceivedIsSettled` |
| `paid_twice` | 1 withdrawal, 1 fault | `PaidOnce` is violated |
| `terminal_overwritten` | 1 withdrawal, no fault | `TerminalIsFinal` is violated |

Three faults are what it takes to use up two attempts and a stall and to ask
for one payment more, so that `RequestsAreBounded` is tight. Withdrawals do not
share rows, so one is enough for safety. The system may stop when all is
done: deadlock is not checked.

Fairness: weak, per loop, on its own steps, and on BullMQ's check for stalled
jobs, which its workers do. What justifies it is `while (true)`: a loop that has
not ended goes on. There is none on `StartDispatcher`, `StartWorker` and
`StartProcessor`, for nothing in the code starts a loop again; none on commits,
on reports or on faults. So the two liveness properties say what the code
gives: a committed withdrawal of a rail that has a queue and a worker is carried
out or its job uses up its runs, *unless* all dispatchers or all workers are down
for good; an acknowledged report is settled *unless* all processors are. With one
process, as `index.ts` runs it, the first error outside a `try` is enough for
that: the withdrawal stays committed and debited, and nobody sends it.

Read beside the model: the topics contain colons
(`withdrawal.dispatch.onchain:base`), and the locked BullMQ (5.76.10) refuses such
queue names when the queue is made, inside the `try`. `Refused` is the set of
withdrawals with such a topic: their rows stay unpublished (`RefuseRow`), and
`CommittedIsDispatched` excludes them. As the names are now it is every
withdrawal; the runs describe the pipeline for names that are accepted, beside one
that is not. `ReadRows` takes every unpublished row where the code takes the first
100: as long as fewer than 100 wait, that is the same, and 100 refused rows would
keep all later ones out. A failed payout is never given back to the wallet
(`webhook-processor.ts:57`): no action here does either. `bank:generic` has no
worker and is outside `Served`.

## 5. `Deposits`: money that comes in

`LedgerService.post` writes entries and then recomputes `Wallet.availableBalance`
from the sum of the account. The services call it under Serializable; the
indexer opens its transaction with the default, Read Committed
(`chain-indexer.ts:49`), so the sum it read may be old when it writes the wallet
row, and nothing makes it abort. `ledger` (what the entries add up to) and
`available` (the projection) are therefore two variables.

* Indexer: `ReadPending` (`findMany`, no order), `Ask` (one provider call per
  deposit; a failed call leaves the count that was read), `NoteConfirmations`,
  `SkipDeposit` (no wallet), `OpenCredit` and `CommitCredit` (the transaction,
  split between its read of the sum and its commit), `StopTick` (an exception
  or the end of the process: an open transaction rolls back).
* `EnterMove`, `CommitMove`, `AbortMove`: one Serializable transfer, doomed when
  another commit wrote a wallet row of its own.
* `ReadWallet`, `SumWallet`, `EndJob`: `walletProjectionDrift`, which reads all
  wallet rows and sums each account later, in no transaction. The code walks the
  wallets one after the other; the model follows any one of them, which is all
  a statement about one wallet can tell apart.
* `Mine`, `Reorganise`, `OpenWallet`: the chain and the users.

| Run | Instance | Shows |
|---|---|---|
| `deposits` | 2 wallets (one opened), 3 deposits, 2 transfers, 1 indexer, batch of 2, 1 fault, at most 2 credits of one deposit; 164 000 states | all properties of `Deposits` |

* `CreditedOnce` holds although the credit has neither a status guard nor a
  repeatable `transferId`: only because a deposit that was not committed is read
  again, and one tick is over before the next begins. The code has no guard
  against two processes that run the loop, so the property speaks of histories
  without overlap (`overlapped`), and `DepositsProofs` proves it for any number
  of indexers. With an overlap a deposit is credited twice (an instance of two
  indexers and two deposits reaches it).
* `NoOverdraft` and `TransferHeals`: a projection that drifted decides nothing,
  because the funds test sums the ledger, and lasts until the next committed
  transfer. `SECURITY.md:26` says that balances are "recomputed atomically per
  posting" and `SECURITY.md:28` that all money-moving transactions are
  Serializable; the indexer's is not.
* `ReportIsRight` bounds what the drift job may be believed: it is right, in both
  directions, unless a posting touched the wallet while it looked.
* `ConfirmedIsCredited` (liveness). Fairness: weak on each indexer's steps, since
  the loop is `while (true)` around a tick whose errors are caught, and on
  `Mine`. It needs the deposits that can never be credited to be fewer than a
  batch (the code takes 100 in no order): here the batch is 2 and one deposit
  may wait for a wallet for ever.

The batch of 2 with three deposits makes the unordered `findMany` choose; the
two transfers need what the deposits bring; `Faults` = 1 is one failed call, stop
or dropped block, in any state. No code of the repository writes the rows of
`stablecoin_deposits`, so they are there from the start.

## 6. `Accounts`: who may ask

One user's account, with the requests on it. No route of `auth.ts` runs in a
transaction: it reads a row, decides, and writes by id. Each of these is a step,
and `handler[h]` holds what was read: the failure count and lock (`Login`, then
`WrongPassword`, `LoginRefused`, or `OpenSession` and `ClearFailures`), the
session (`Refresh`, then `Rotate`), the challenge (`Guess`, then `WrongCode`, or
`RightCode` and `Confirm`). `Drop` is a stop in between: what was written stays.
`Suspend` writes the status alone; sessions and challenges stay, and refreshing
does not look at the status.

Since checks and writes are apart, the caps of the code are not exact. The
properties say what they are worth, counted by history variables: `tries`,
`late`, `uses`, `guesses`.

* `PasswordTriesAreBounded`: at most `LockAt - 2 + 2 * N` passwords are tested
  between two locks with `N` requests at a time: the count is incremented in the
  database, the lock is decided on the count that was read.
* `LogoutIsFinal`, `TokenIsSingleUse`, `GuessesAreBounded`: exceeded by the
  requests in flight only.
* `SealedStaysSuspended`: a user who was ACTIVE when suspended is not made ACTIVE
  again by `otp/verify`, because the e-mail code of the signup is used up by then.
  A PENDING user who is suspended is made ACTIVE by it (`auth.ts:226` updates by
  id), as is one whose code is in flight; both are excluded by `sealed`.

| Run | Instance | Shows |
|---|---|---|
| `accounts` | 2 requests at a time, 2 sessions, the e-mail challenge, `LockAt` 2, `OtpMax` 1, 4 tokens; 2 150 000 states | all properties of `Accounts` |

`LockAt` is 5 in the code; the bound is reached at 2 with two requests, and
`AccountsProofs` has every value from 2. Two sessions are what a rotation of the
wrong row takes. Time is an action for each limit it ends (`LockEnds`,
`SessionExpires`, `ChallengeExpires`). A system where all has expired stops:
deadlock is not checked. Left out: challenges that name no user (`otp/send`
issues them with no `userId`, so they confirm nobody), `phoneVerifiedAt`, devices,
and the verification of access tokens, which are stateless.

## 7. `Requests`: what stands before the ledger

A request here is `Receive` and `Claim` (the middleware: find the row, create
it), `FindReplay` or `ReadTier` (the service's reads on `this.db`), `Begin`,
`CheckLimits`, `Judge` (inside the transaction, but on another connection),
`Commit`, and `Store` (the response, after the commit). `Drop` ends it anywhere:
a check that fails, a client that is gone, a stop, or the database driver ending
a transaction that waited too long. What comes afterwards changes what the limits
and the fraud rules count. An admin finds the item of a held withdrawal PENDING
(`ReadItem`) and later decides it by its id (`Decide`, or `GiveUp` when the route
throws): up to `Admins` of them, each writing PROCESSING or CANCELLED over whatever
the status is by then (`admin.ts:131`, `175`, `193`). `Dispatch` is the payout
dispatcher, which writes PROCESSING over anything, as often as its job is run
(`payout-dispatcher.ts:70-72`), and `Report` a provider's COMPLETED or FAILED; both
need the outbox row, and their order is left open (`Payouts` has it). `Age` moves a
transaction out of the windows of the limits, as far as the bound `Oldest`. `Kyc` runs beside it (`Submit`, `Screen`, `Review`;
the screening is not awaited, so it ends at any time or never), and sets the
tier that `ReadTier` reads.

A body stands for all of a request: its user, its route and the JSON it carries.
The middleware hashes the JSON alone and never compares the endpoint it stored
(`idempotency.ts:30`, `46`), so a row binds the JSON, and bodies for two
routes may carry one JSON. The JSON names a quote, which one user can spend.

Balances and wallet status are left to `Payments`: funds suffice here. What
transactions conflict on is kept (`stale`): the quote row, and the row of one
wallet. A transfer whose quote is for two currencies ends at `Begin`
(`transfer-service.ts:84`).

`Fraud` has every rule of `rules.ts` and the thresholds of `engine.ts` as pure
operators: `Verdict(event, facts)`. In `Requests` the number of COMPLETED
transactions is that of the model, and everything else a rule can find is
enumerated on both sides of its threshold. `Pricing` has `getRate` (direct,
inverse, by way of USD), the fee and the spread on exact fractions, and the
terms of a quote; `Terms` are computed from what each body asked for.

| Run | Instance | Shows |
|---|---|---|
| `requests` | 1 user of tier 1, 1 KYC record for tier 2, 2 keys, 3 bodies, 2 requests and 2 admins at a time, transactions up to a day old and then up to 30; 1 431 000 states | all properties of `Requests` and `Kyc` |

The bodies are a transfer of 600 USD, one of 1000 (the limit of a day at tier 1
and the threshold of a large first transaction, and the two together exceed the
day), and a withdrawal with the JSON of the first, open to tier 2 only. Two admins
are what a decision over a decision takes; a third would repeat the second.
Nothing gets older than 30 days (`Oldest` is `"month"`): two transactions are
worth 1600 USD at most, so the month of tier 1, 5000, turns nothing away that an
older one would let through. The theorems hold for every `Oldest`.

* `KeyBindsBody`: although two first requests with one key race between the
  find and the create, and a row without an answer lets a retry through, a key
  never carries out anything but the JSON on record. `Payments` rests on it.
* `WalletStaysWithinLimit`: the limits are read outside the transaction that adds
  to them; two requests that overlap meet on the wallet row, which is the only
  reason the sum stays in bounds. So it holds per *wallet*: two wallets of one
  user do not meet, although the limit is the user's. Nor does it cover what
  did not count when the others were checked: a held withdrawal that is approved
  later, or one reported failed and then completed.
* `MovesFollowReview`: no money moves without an officer's *approval* of a record
  for a tier that allows it, unless the user began with such a tier; although
  a record can be decided in any status, any number of times, and an approval may
  lower the tier. A later rejection does not take the tier back, and the property
  does not say so.
* `HitsAreQueued`: hits that arrive after an approval put the record back in the
  officers' queue. That is what the unconditional write of IN_REVIEW is good for;
  the cost is that a decision made meanwhile is overwritten
  (`kyc-service.ts:135`).
* `LargeFirstIsHeld`: a transaction of 1000 USD or more that moved money without
  being held has another of its user that was COMPLETED before. "Was" is a history
  (`completed`): the payout dispatcher and a second decision write PROCESSING or
  CANCELLED over COMPLETED, so no row need show it any more, and the next large
  transaction may then be held although it is not the first.
* `VerdictIsMonotone`: more suspicious facts, or a larger amount, never make
  the verdict milder.
* `CountedIsFair`: what a request counts against the limits is between the value
  of what arrives and of what is taken, whichever way the rate was found. It
  needs rates that agree with one value per currency (`ValueAssumption`). The
  seeded feed is of that kind: it has one row for each currency, against USD
  (`seed.ts:175-184`).

Read beside the model:

* The fixed fee is divided by the rate to USD where it would have to be
  multiplied (`fee-policy.ts:79`): 0.30 USD at 129.40 KES is 0.0023 KES instead of
  38.82 KES. `Pricing` has the code's division.
* A quote asked for by the amount to arrive delivers less than that: the fee and
  the spread are taken from what the rate alone gives.
* `too_many_failed_otp` can never match: it counts challenges of a user, and at
  most the two of the signup carry a `userId`. `trustedAt` is never set.
  A request without a device fingerprint skips two rules.

Left out: the signature of a quote, whose digits depend on how Prisma returns a
Decimal (`quote-service.ts:125`); rounding to 8 and 18 decimals; rows added to the
feed between a quote and its use; names, documents and scores of KYC.

## 8. What the runs found

| Finding | Run |
|---|---|
| Two admins who both read an item as PENDING both commit their decision (`admin.ts:131`) | `double_decision` |
| A decision releases less than was reserved when the quote has a spread (`admin.ts:159`) | `spread` |
| Approving a transfer moves nothing (`admin.ts:145`) | `approved_transfer` |
| A retried payout job asks the provider again (`payout-dispatcher.ts:40`) | `paid_twice` |
| A report applied before the dispatcher is done is overwritten by PROCESSING (`payout-dispatcher.ts:70`) | `terminal_overwritten` |

## 9. Proofs

Each theorem is of `Spec`, for every value of the constants that satisfies the
assumptions named in the module: no bound on users, wallets, keys, processes,
admins or jobs (they are finite where something is summed over them), and the counters that TLC needs bounded are bounded by any
natural number. None of the invariants is inductive alone; each module has an
`IInv` of named parts, a lemma per action (or per group of actions that touch
the same rows), and `StepIInv` that puts them together.

**`PaymentsProofs`.** Assumption: types; a quote's fee is at most its amount,
and what is received at most the rest, as `QuoteService.create` ensures; wallets
start without debt. Proved: `TypeOK`, `NoOverdraft`, `QuoteSpentOnce`,
`DebitedOnce`, `PendingIsReserved`, `DispatchIsFunded`, `BooksBalance` and the
action property `FrozenKeepsFunds`. `IInv` adds

* `InFlight`: a transaction that is not doomed still sees the truth about the
  rows it writes: its quote is unspent, and the wallet it debits is ACTIVE and
  has the funds. This is the argument for first updater wins, and what
  `NoOverdraft` and `FrozenKeepsFunds` follow from. `StillInFlight` is its
  central lemma: a step preserves it if every undoomed transaction that
  survives the step kept its rows.
* `Untouched`: a key without a transaction has no posting, item or outbox row.
* `Held`: an item an admin has read exists (it may be decided by now).

`BooksBalance` is about sums over all accounts of a currency, for any (finite)
number of users and currencies (`FinitelyManyRows`). Each action that posts moves
amounts between two or three accounts of one currency (`IsTransferOf`,
`IsPosting`), and a move by `n` on one account changes the sum of its currency by
`n` and no other (`MovedSum`); what a posting moves adds up to nothing. The
accounts of a posting must be different ones, so the proof carries along that a
transfer past its first check is between two users (`TwoSided`).

**`PaymentsEscrowProofs`.** `Payments` implements `Escrow` (`Refinement`) under the
assumptions of `Payments` alone, with finitely many admins: any spread, any
number of decisions that overlap, whatever SUSPENSE holds at the start.
`EInv` adds two things to `IInv`. `ItemsReserved`: a withdrawal with an item has its
reservation. `AdminsSuffice`: the decisions made on a withdrawal, plus the admins
that have read its item and are still to decide, are no more than the admins. A
decision moves one admin from the second term to the first; an admin is added to
the second only while the item is PENDING, and then the first is 0. So a
reservation is `Hold`, a decision is `Decide`, and everything else leaves what
was held, the decisions and SUSPENSE alone (`Stutter`).

`SuspenseAddsUp` is proved with it (`SuspenseAccounted`): `Hold` changes what one
withdrawal leaves by its reservation, `Decide` by its release, the SUSPENSE account
of its currency by the same, and the sum over that currency's withdrawals with
them (`PotAndRemainsMove`).

**`PayoutsProofs`.** Assumption: types, and finitely many job slots. Proved:
`TypeOK`, `PublishedIsQueued`, `CompletedJobHasPaid`, `RequestsAreBounded`,
`OutcomeWasReported`. `IInv` has three groups.

Loops and workers may end in any state and be started again, or not.

* The queue: a loop that is about to mark a row has added its job (`AddedFirst`);
  a job is active exactly when a slot holds its lock, and a job that waits or
  runs has attempts left (`JobsAreOwned`).
* The payment: a slot that is past the call holds a reference that exists
  (`AcksAreStored`); and `RunsAreCounted`, the argument for the bound: requests
  sent, plus slots about to send, plus runs the job has left, never exceed the
  jobs accepted times `Attempts + MaxStalled`. A retry or a stall turns a run that
  is left into a slot about to send; forgetting a job allows a new one, which
  counts as accepted again.
* The report: a stored report follows a request, and what a processor holds is
  a stored report (`ReportsAreStored`).

**`DepositsProofs`.** Assumption: types. Proved: `TypeOK`, `CreditedOnce`,
`NoOverdraft`, `ReportIsRight` and the action property `TransferHeals`. `IInv` adds

* `SeenIsReal`: a deposit a tick finds confirmed is confirmed;
* `OneTick`: while no two ticks have overlapped, at most one indexer is active,
  and every deposit it still holds is uncredited and held once. This carries
  `CreditedOnce`;
* `MoverSees`: a transfer that is not doomed holds the sums of the ledger as it
  is, from which `NoOverdraft` and `TransferHeals` follow;
* `JobSees`: while no posting touched the wallet, what the job read is what is
  there.

**`AccountsProofs`.** Assumption: finitely many requests at a time, one e-mail
challenge, `LockAt` at least 2, `OtpMax` at least 1. Proved: `TypeOK`,
`PasswordTriesAreBounded`, `LogoutIsFinal`, `TokenIsSingleUse`,
`GuessesAreBounded`, `SealedStaysSuspended`. The bounds are inductive once what is
in flight is counted: `GuessBound`, `LogoutBound`, `TokenBound` and `TriesBound`
each add the number of requests that may still do it to what was done: a read
adds one to the second term, only while its guard holds, and the write that
follows moves it to the first. `CodeSpent`: a user who was ACTIVE has an
e-mail challenge that is used up.

**`SumProofs`.** What the proofs need of `SumFunctionOnSet`: that the recursive
function it is defined by exists and picks elements in an order that does not
matter, then the sum of a set with one element more or less, of two disjoint
sets, of functions that agree, of naturals, and after one EXCEPT. Induction over finite
sets is done with sets in place of predicates: were there an exception, the set
of exceptions would have a member that contains no other (`SmallestSubset`, from
the well-foundedness of strict inclusion), and removing an element from that one
contradicts the step (`GrowSet`, and `GrowNumber` for the naturals).

**`PricingProofs`.** That `Gcd` exists as a function (the largest common divisor
satisfies its equation) and divides both numbers, so that `Frac` keeps the value
of a fraction; then the laws of `Times`, `Over`, `Plus`, `Minus` and `AtMost` up to
equality of value. With them, `GetRateIsWorth`: if the rows agree with a value of
each currency, a rate is worth the ratio of the two values whether `getRate`
found it in a row, inverted a row or crossed two of them through USD; and a quote
never promises more than the amount is worth at the spot rate (`QuoteFacts`,
`SpreadIsAtMostOne`).

**`RequestsProofs`.** Assumption: those of `Kyc`; finitely many keys; bodies whose
ask has a quote and a rate to USD; for `CountedIsFair` also that the rates agree
with one value per currency. Proved: `TypeOK`, `KeyBindsBody`, `MovesFollowReview`,
`HitsAreQueued`, `CountedIsFair`, `VerdictIsMonotone`, `LargeFirstIsHeld` and
`WalletStaysWithinLimit`. `IInv` adds
`TiersAreGranted` (a tier the user did not start with was the target of a
record that was approved) and `ChecksStand` (what a request read of the tier allowed its
body). A review that lowers a tier does not undo the review that raised it. The
last four rest on more:

* `CountedIsFair`: a withdrawal counts as the amount times a rate that is worth
  what it should be, by `GetRateIsWorth`; a transfer counts as what is received at
  the *sender's* rate, which is right because a transfer for two currencies is
  refused when its quote is consumed.
* `VerdictIsMonotone`: the score is the sum of what each rule adds (`MatchedScore`:
  the rules never give the same reason twice, so the union of their results loses
  nothing), and each addend grows with what is found. `RulesAddUp` says so for
  all events and all facts, not only those near a threshold that the run
  enumerates.
* `LargeFirstIsHeld`: a large transaction of a user with none COMPLETED gets 40 points
  or more, with a device fingerprint or without (`LargeFirstScores`); so one that
  was let through has seen a COMPLETED one. The invariant that carries it,
  `LargeHaveSeenOne`, says this of a request between its verdict and its commit;
  that a transaction was COMPLETED stays true whatever is written over it
  (`HistoryHolds`).
* `WalletStaysWithinLimit` is not inductive: the request that made the sum fit may
  age out of the window, or fail, and the rest would fit nothing. `EveryPartFits`
  is: *every* part of what a wallet has spent fits the tier of one of its
  members, namely of the last one that was committed, which was checked against
  all the others. The check still stands at the commit (`RoomLeft`): what
  the wallet has spent since wrote the wallet row, so the transaction is stale
  and does not commit. This is what keeps a limit that is read outside the
  transaction, and why it is kept per wallet.

## 10. Only model-checked

Every invariant of every passing run is also a theorem, and so are the action
properties and the refinement. What remains with TLC:

* `CommittedIsDispatched`, `ReceivedIsSettled`, `ConfirmedIsCredited`: liveness
  under fairness, and with it ENABLED, is out of the prover's reach.
* The violations of section 8: their counterexamples are TLC's.

## 11. Not modelled

| Part | Why |
|---|---|
| Web application, health routes, HTTP parsing, rate limits, wiring | no state of the platform's own |
| Audit log, risk events, alerts | inserted and read back by nothing that decides |
| Passwords, tokens, PII, webhook and quote signatures, configuration | pure functions; a password, a code or a signature is right or wrong |
| `Money` | amounts are naturals or exact fractions; its currency check is a guard |
| Providers' protocols | external: a provider accepts or throws, and reports at most once per request |
| Payment requests | a row no code reads |

`PROJECT.json` has the components one by one.
