# A formal model of the garant escrow service

garant is an escrow service behind a Telegram web application: users fund a
balance, a buyer and a seller agree on a deal, the buyer's money is held until
the deal is finished, cancelled or decided by an arbiter, and users withdraw
what they own through CryptoBot. The backend (`src/backend/app`, FastAPI,
SQLAlchemy, PostgreSQL) holds all authority; the web client and the bot are
views of it. These modules model the parts that move money and the protocols
around them (PIN, second factor, accounts, sockets, limits, moderation, start-up),
check them with TLC on small instances and prove the main invariants with TLAPS.

## 1. Inventory

### State

| table or store | what the handlers decide on | modelled in |
| --- | --- | --- |
| `deals` | status, parties, amount, commission, `commission_paid`, `cancellation_initiator_id`, `topup_deposit_id` | `Escrow` |
| `wallet_deposits` | status, provider, purpose, `amount`, `linked_deal_id` | `Deposits` (`wallet`, `trust`), `Escrow` (`deal_topup`) |
| `provider_webhook_events` | status of each update a provider sent: processing, processed, failed | `Deposits` |
| `user_balances` | `amount` (spendable) and `locked` (pots of deals and open withdrawals, in one column) | `Escrow`, `Withdrawals`, `Deposits` |
| `users` | `deals_total`, `deals_success`, `deals_failed`, `deals_arbitrage`; `trust_deposit_balance` | `Escrow`; `Deposits` |
| `wallet_withdrawals` | status, amount, age | `Withdrawals` |
| the SQLAlchemy session | copies of rows read before a lock was given up | `Withdrawals`, `PinGate`, `SecondFactor`, `Accounts`, `Catalogue` |
| CryptoBot, Crystalpay | transfers executed, one per `spend_id`; payments received and updates sent | `Withdrawals`, `Deposits` (external) |
| `users` (PIN columns, `totp_*`, epochs) | attempts, locks, reset codes, epochs of sessions, last code | `PinGate`, `SecondFactor` |
| `users` (identity, roles, bans), `account_transfer_codes` | who a Telegram account is, who is an admin | `Accounts` |
| `admin_approval_requests`, `deals.arbitration_resolved_by` | the second signature, the claim of a dispute | `Desk` |
| `services`, `reviews`, `users.good/bad` | quota of active services, rating counters | `Catalogue`, `Reviews` |
| `admin_broadcasts`, `notifications`, `deal_messages` | chunks and counts, lists read in pages | `Broadcast`, `Inbox` |
| `app_settings`, each process's cache of it | the maintenance flag | `Maintenance` |
| Redis: claims of codes, call counters, channels | single use, limits, events between processes | `SecondFactor`, `RateLimit`, `Realtime` |
| memory of a process: sockets, queues, fallback buckets | who hears what | `Realtime`, `RateLimit` |
| `alembic_version`, the advisory lock, seed tables | revision, what a fresh installation has | `Boot` |
| ledger, audit trail, outbox | journals nothing decides on | left out, section 7 |

There is no column for the pot of a deal. What a deal holds is implied by its
status; the `locked` column of its buyer is the sum over all deals and
withdrawals, and every decrement is clamped at zero. Most hazards follow from
this: a pot that is unlocked twice, or that was never locked, does not fail, it
silently eats into another pot.

### Components, operations, interaction

* **Deal lifecycle** (`services_deals.py`, `routers/deals.py`): creation, funded
  from the balance or waiting for an invoice; the payment of that invoice, in
  five outcomes; accept, decline, finish, request / revoke / accept
  cancellation, arbitration and its two verdicts; two sweeps. Correct if a pot
  is filled once by its buyer and emptied once to its own parties, if the
  commission is kept once, and if a closed deal stays closed.
* **Admin deal desk** (`routers/admin/deals.py`): force release, refund, split,
  arbitration, delete. It competes with the participants and the sweeps for the
  same pots, through the same row locks.
* **Wallet deposits** (`services_wallet.py`, `services_payments.py`,
  `routers/payments.py`, `services_webhooks.py`, `routers/admin/deposits.py`):
  invoices, webhook and poll deliveries, expiry sweep, admin mark-paid and
  refund. They call the deal lifecycle for `deal_topup` deposits. Correct if a
  payment is booked once and as received, whatever is repeated, reordered or cut
  short, and if a payment made in full arrives.
* **Withdrawals** (`services_wallet.py`, `routers/admin/withdrawals.py`): the
  amount is locked and committed, CryptoBot is called without a lock, the row is
  read again and settled. Three actors settle: the request itself, an admin, and
  the stale sweep. Correct if a withdrawal leaves the locked column exactly
  once, if it is booked as CryptoBot executed it, and if it never stays pending.
* **Money arithmetic** (`money.py`): rounding half to even, percentages, splits.
* **Background loops** (`main.py`): one task per sweep, each pass in a session
  of its own, errors logged and retried after a back-off.
* **PIN** (`routers/pin.py`, `deps.require_pin_session`): setup, check, change,
  reset by a free or paid code, admin reset and invalidation. Correct if guesses
  are bounded over all of them and a revoked session stays revoked.
* **Second factor** (`auth_2fa.py`, `routers/admin/twofa.py`): enrolment, rotation,
  removal, consumption of codes through Redis or the row. Correct if a code
  authorises one request and a session ends with its epoch.
* **Accounts and roles** (`auth_helpers.py`, `services_account.py`,
  `routers/admin/users.py`): first contact, transfer to another Telegram account,
  roles and bans. Correct if nothing is discarded with a row and somebody can
  still act as an admin.
* **Realtime** (`ws.py`, `routers/ws.py`, `redis_client.py`): sockets under a cap,
  a bounded queue each, two Redis channels, eviction and revocation.
* **Desk and arbitration** (`routers/admin/deals.py`, `routers/admin/arbitration.py`):
  approvals of large moves, claims and verdicts. Correct if a large move had two
  admins.
* **Catalogue, reviews, broadcasts, lists** (`routers/services.py`, `services.py`,
  `routers/admin/content.py`, `routers/admin/broadcasts.py`,
  `routers/notifications.py`, `routers/deal_messages.py`): each counts rows, or
  reads them in parts, while others change them.
* **Rate limit, maintenance, start-up** (`rate_limit.py`, `maintenance.py`,
  `main.lifespan`, `db.py`, `seed.py`, `alembic/env.py`): what several processes
  must agree on, with a cache, a fallback or a lock.

The components share two things: the balance row, always written under `FOR
UPDATE`, and the row of the deal, deposit or withdrawal. `Escrow` therefore has
the effect of withdrawals and wallet credits on the balance (`Border`) next to
the deals, and `Deposits` lets the user move balance away and back (`Spend`,
`Recover`).

### What is hard

Handlers, webhooks and sweeps interleave at row locks. A handler that calls a
provider gives its locks up half way and re-reads the row, sometimes through a
stale session copy. Payments arrive late, in part, or for a deal that is gone.
An HTTP answer can be lost after the transfer was made. A sweep commits all its
rows at once. `PROJECT.json` lists each hazard at its line, with the properties
that would catch it.

## 2. Modules

| module | role |
| --- | --- |
| `Money` | rounding, percentages, the clamp, sums |
| `Escrow` | deals, their invoices and the balances: one action per handler or sweep |
| `EscrowPromise` | what the service promises, without statuses, invoices or a locked column |
| `EscrowRefines` | the refinement mapping from `Escrow` to `EscrowPromise` |
| `Withdrawals` | request, admin and sweep at the grain of their commits |
| `PayoutPromise` | what the withdrawals promise, without requests, admins, sweeps or calls |
| `Deposits` | invoices, webhooks with their inbox, polls, expiry and the admin desk for wallet and trust deposits |
| `PinGate` | attempts, locks, reset codes and PIN sessions of a user, and the admin's actions on them |
| `SecondFactor` | an admin's secret, codes, claims and sessions |
| `Accounts` | identities, transfer codes, roles, bans and freezes |
| `Realtime` | sockets, queues and channels over several processes |
| `Desk` | approvals of large moves, claims and verdicts of disputes |
| `Catalogue`, `Reviews` | the quota of services; the counters of reviews |
| `Broadcast`, `Inbox` | a broadcast in chunks; lists read in pages |
| `RateLimit`, `Maintenance` | the limit of calls; the flag and its caches |
| `Boot` | migrations, the advisory lock and the seeders at the start |
| `MCEscrow`, `MCWithdrawals`, `MCWithdrawalsOneHand`, `MCDeposits`, `MCBoot` | the instances TLC checks of the money and the start |
| `MCSessions`, `MCPlatform` | the instances of all the others, section 3 |
| `MoneyTheorems` | lemmas about sums over finite intervals and about rounding |
| `EscrowProofs` | the theorems about the rows, balances and sums of `Escrow` |
| `EscrowPromiseProofs` | that `Escrow` implements `EscrowPromise`; the theorems about invoices, outcomes and closed deals |
| `WithdrawalsProofs` | the theorems about `Withdrawals`; that it implements `PayoutPromise` |
| `DepositsProofs` | the theorems about `Deposits` |
| `PinGateProofs` | the theorems about `PinGate` |
| `SessionsProofs` | the theorems about `SecondFactor` and `Realtime`, as `MCSessions` composes them |
| `PlatformProofs` | the theorems about the other parts of `MCPlatform`, a section for each |

### `Escrow`

**Grain.** The handlers re-read the deal under a row lock
(`routers/deals._get_locked`, `_get_deal_or_404` with `lock=True`), lock the
balances and commit once. Whatever another transaction does comes before or
after; one handler is one action, and a handler that raises, is rolled back or
loses a deadlock is no step. The provider call that issues an invoice happens
inside that transaction, and its failure rolls everything back.

**State.** `status`, `terms`, `commission_paid`, `initiator` and `topup` are the
deal's columns; `invoice` the `deal_topup` deposits; `amount` and `locked` the
balance; `stats` the public counters; `onHold` what open withdrawals bind. `net`,
`fees` and `unattached` are ledgers of the observer: money taken in less money
paid out, commission the platform kept, and payments for deals that are gone.
`forced` remembers how an admin took a deal to arbitration. `terms` of a deleted
deal are a memory of the row.

**Abstractions.** One currency (a deal, its invoice and the balances it locks
share one). Amounts are in quanta of the currency, which is what `quantize_money`
makes of every amount the handlers compute. Time is abstracted: any row that may
be stale may be swept at any time. A sweep takes its rows one per step; it
commits them together in the code, but every row is independent of the others
and locked, so the same states are reached. Rows get the lowest free id.
`CreateFunded`, `CreatePendingTopup` are the two branches of
`create_deal_with_topup`; the five `Topup...` actions are those of
`complete_deal_topup_payment`; the others bear the names of their functions.

### `Withdrawals`

One user and one currency: `amount`, `locked`, and a row per withdrawal.
`calling` and `deciding` are the requests between their first and their last
commit; `delivered` is what CryptoBot has executed, a set because `spend_id` is
derived from the row's id. `sweep` is the run of the stale sweep: candidates
read without a lock, the answer of the last lookup, and the statuses written but
not committed (`marks`), whose rows and balance it keeps locked. `RowFree` and
`BalanceFree` are the row locks that live across actions.

`create_withdrawal` re-reads with a fresh row (`StillPending`);
`decide_withdrawal` and the sweep re-select with `FOR UPDATE` but get the copy
their session already holds (no `populate_existing`, and `expire_on_commit` is
off), so their status checks see what they wrote or read before: `FinishApproval`
and `SweepApply` have no guard on the status. This is how SQLAlchemy's identity
map works and the source of two of the findings.

`Admins` are requests to decide that may run at once; `AdminPresence` the answers
`admin_exists` may give; `CarefulAdmins` restricts rejecting and marking by hand
to admins who look CryptoBot up first, as the comments on the recovery paths of
`decide_withdrawal` ask for.

### `Deposits`

One user, one currency, deposits of both providers with purpose `wallet` or
`trust`. `status`, `provider`, `purpose`, `amount` are columns; `balance` and
`trust` what a credit goes to; `inbox` the status of each event; `request` how far
each webhook or poll request has come. External are `received` (what the
provider has been paid), `updates` (what it has sent) and `acked` (what was
answered with 200). `creditor`, `elsewhere` and `faults` belong to the observer.

**Grain.** A webhook request commits three times: `Accept` takes the event into
the inbox, `HandlePaid` or `HandleExpired` applies it, `Finish` marks it processed
and answers. Between two commits another request, a poll, the sweep or an admin
may act, and the request may raise (`Fail`) or die (`Crash`). An update stays in
`updates`, so that it may be delivered any number of times and in any order. A
poll asks the provider without a lock (`PollAsk`), then locks the row and looks at
its status again (`PollApply`). The deposit and the balance are locked together
in one transaction each; that is one action.

**Events.** `Event` is the number the inbox knows an update by: CryptoBot's own,
and for Crystalpay the invoice and its state, so that two reports of one
Crystalpay invoice are one event. An event that is processing is a duplicate for
ten minutes (`AnswerDuplicate`) and taken again afterwards (`Accept`); the model
has no clock and allows both. `_mark_webhook_failed` reads `event.id` after a
rollback that expires it; under the asynchronous session this raises, so that the
mark is lost and the event stays processing, unless the handler had committed and
begun nothing new. `Fail` has both outcomes.

**Abstractions.** Time, as in `Escrow`. Amounts are in quanta. A provider reports
the total paid for an invoice so far and lets the payer complete a short payment
but not pay more than once what is already enough (`Pay`). Invoices of deals
(`deal_topup`) are in `Escrow`.

### The modules around the money

All of them are written at the same grain: what a handler does under a row lock,
or in one statement of Redis, is one action; where it reads without a lock and
writes later, `Read...` is the one and the action with the handler's name the
other, and the copy travels in `work`. `PinGate.Written` is the unit of work of
SQLAlchemy: the commit writes the columns that differ from the copy over whatever
the row holds by then. Clocks are ticks, as fine as the limits need.

* `PinGate` counts in `guesses` the wrong codes since a code was minted or the PIN
  proved. `crossed` remembers that an unlocked increment of the epoch was lost.
* `SecondFactor` has the row, the claims in Redis with their lifetime, and requests
  that claimed a code but have not committed. With Redis off the code is consumed
  by a conditional UPDATE instead; the two are never mixed in one behaviour
  (`Modes`), since mixing admits a code twice (section 6).
* `Accounts` lets a child row appear between any two steps; a row that is locked
  for deletion blocks it (the foreign key's share lock). `data` stands for all the
  rows the gate of the transfer queries; `pin` and `trust` are columns of the user,
  which the gate reads from the copy of the request (finding 20).
* `Realtime` numbers events and lets Redis stop, which loses what is in its
  channels and makes publishers fall back to their own process.
* `Catalogue`, `Reviews` hold the lock of the owner's row, or of the reviewed
  user's, across the count and the commit.
* `Desk` follows two moves of one deal and their approvals while the rate, the
  admins and the deal change.
* `Broadcast` lists the ids of the recipients once, takes slices of the list and
  reads the users of a slice again, while users join and leave. `Dispatch` spawns
  the message by Telegram that each notification has of its own, `Echo` ends one;
  `Push` is the messages the broadcast sends and counts itself.
* `Inbox`: a row has the time its transaction began, its number when it is flushed,
  and is visible after the commit, so neither order is that of appearance.
* `RateLimit`: one principal, the shared entries with their ages and the buckets of
  each process; `skew` is the difference of a worker's clock. The shared entries
  survive an outage, so the bound assumes that Redis keeps its keys; where it
  restarts empty (the compose file gives it no volume), a window may let through the
  limit once more.
* `Maintenance`: a process answers from its cache, loads in two steps (read, store)
  and may be told to forget while a load is under way.
* `Boot`: a group of rows that are inserted together is one value; `revision` 0 is
  any before the migrations that build indexes concurrently, 1 any between these and
  the one that inserts the fiat currencies, 2 and 3 those of the two builds. There
  are three concurrent ones (`b8adfad43818`, `c8f4a2e91d35`, `c4e7b1d903fa`), of
  which the first stands for all: `BuildIndexes` commits `columns` without the
  revision and gives up the advisory lock, `EndUpgrade` is the rest of the upgrade,
  without it. From a later revision `EndUpgrade` is the whole upgrade, in one
  transaction under the lock. `Deadlock` is PostgreSQL's answer to an index build
  that waits for a transaction which waits for the table. `rerun` remembers that an
  upgrade began on one that was half committed.

## 3. Runs

| run | question | result |
| --- | --- | --- |
| `escrow` | all orders of participant, admin, webhook and sweep steps over two deals and three invoices | holds: `TypeOK`, `EscrowBacked`, `Conservation`, `CommissionOnce`, `InvoiceDiscipline`, `OutcomesCounted`, `ClosedIsFinal` |
| `escrow_border` | a deal next to credits, adjustments and withdrawals on the same balances; rounding ties; liveness | holds: `Conservation`, `NothingWaitsForever` |
| `escrow_refines` | do the handlers keep the promise of `EscrowPromise`? | holds when no unpaid deal is forced into arbitration: `KeepsPromise` |
| `withdrawals` | payouts by the request, by one admin request at a time or by the stale sweep, with lost answers, crashes, failing lookups and aborted runs | holds: `TypeOK`, `LockedBacked`, `NothingLost`, `SweptAsDelivered`, `SettledIsFinal`, `PayoutsKeepPromise`, `StaleReconciled` |
| `deposits` | a deposit of either provider and purpose under repeated, reordered and concurrent updates, failing requests, polls, the sweep and the admin desk | holds: `TypeOK`, `Books`, `CreditedAsReceived`, `CrystalpayStaysClosed`, `PaymentsArrive` |
| `sessions` | second factor, and sockets over two processes | holds: `CodesAuthoriseOnce`, `SessionsEnd`; `CapKept`, `NewestReached`, `RevokedHearNothing` |
| `platform` | the other parts around the money | holds: `TypesOK`, `GuessesBounded`, `RevokedStayRevoked`, `SomeoneCanAct`, `NothingDiscarded`, `AdmittedBounded`, `WritesStopSoon`, `QuotaKept`, `RatingFollowsReviews`, `LargeMovesSeconded`, `CountsBacked`, `BootsSurvive`, `PagesComplete` |
| `escrow_unfunded`, `withdrawals_race`, `withdrawals_stale`, `deposits_retry`, `boot_seed` | what the code's comments say, each against the code | violated, section 6 |

**Unions.** The parts of `sessions` and `platform` share no rows and no memory, as
far as they are modelled: PIN columns, identity and role columns, and rating
counters are different columns of `users`, written by different handlers, and the
unit of work writes changed columns only. A product of their behaviours would
multiply states and show nothing. `MCSessions` and `MCPlatform` therefore choose
one part at the start (`part`) and leave the others in one initial state; every
behaviour of each part's `Spec` is there. A property of a part holds trivially
while it rests, and is checked over all of the part's behaviours otherwise.

**Bounds.** *Escrow:* two users are both roles at once, since each deal may run
in either direction and the deals then share both balances; two deals are what
it takes for one deal to eat another's pot. Three invoices allow a chain of two
replacements for one deal, or a deal with a replacement next to a deal with its
first invoice. With `Amounts = {2}` and rate 50 the commission is 1; payments of
1 and 3 reach all five outcomes (1 is below the total and, with a rate of 100
in `escrow_border`, below the commission of 2). `MaxNet` caps the money inside and so
the number of payments. In `escrow_border` an amount of 1 split by half is a tie
of the rounding, so that the shares of buyer and seller round differently.
*Withdrawals:* three rows let the sweep have two candidates while a third is
under way; `Bound = 2` is a deal's pot in the same column, which makes a double
unlock visible instead of clamped; `Funds = 3` with amounts 1 and 2 reaches an
empty balance. `MaxFaults = 2` lets a run skip a candidate and another abort.
In `MCWithdrawalsOneHand` the hand that decides is chosen at the start: admins, of
whom one waits for a transfer at a time (`Alone`), or the sweep. With two admins
at once, or an admin and the sweep, the properties are false (findings 3 and 4).
*Deposits:* one deposit, because deposits share nothing but the balance and what
could be confused between them is proved for any number (`Books`,
`CreditedAsReceived`). Of a deposit of 3 the sums 1, 2 and 4 are a short payment,
one within the tolerance and too much; `Funds = 4` makes the refund of a trust
deposit possible, or impossible after spending. Two requests are two deliveries at
a time or a delivery and a poll; one fault is what it takes for an event to be
delivered again after it was handled.
*Sessions:* two secrets make a rotation, two requests the overlap of two readers;
the window of three counters is that of `verify_totp`. Two sockets at a cap of one
and a queue of one reach eviction and overflow with two events and one outage.
*Platform:* `MaxAttempts = 2` with a lock one tick longer than the life of a code,
the least `PinAssumption` allows (the defaults are an hour and ten minutes); one
unlocked PIN request, since two admins' increments lose one another (section 6). Two accounts of admins and a
third row, one code, two requests. A limit of 1 in a window of 3 ticks with a skew
of 1. Two services at a quota of 1; two reviews of either user; two moves and two
approvals of three admins and an arbiter; three recipients in chunks of 2; two
processes at the start, of builds 2 or 3, at any of the four revisions; four rows in
pages of 2 with equal times. Symmetry is used in the sets of interchangeable values
only, such as the confirmations of a transfer.
Deadlock is not checked in these runs: the bounded system stops when ids and
money are used up and nothing waits.

**Mutants.** For every property of a passing run `PROJECT.json` names a mutated
definition under which the run fails: a clamp or a status re-check dropped, a
guard widened, an invoice left open, a share rounded on its own, an age check
forgotten. The mutated operators stand in the modules next to the originals,
each with a comment that begins `Mutant:`; no action uses them.

## 4. Fairness

* `Escrow.SweepFairness`: weak fairness of the three sweeps, per row. `main.py`
  runs one loop per sweep for as long as the process does; an error is logged
  and the pass repeated; a pass takes every stale row that no transaction holds,
  and no handler holds one across its commit. It assumes what the settings
  default to: the sweep cadences and the expiry times are positive (a cadence of
  0 starts no loop). Nothing is assumed of users, admins or providers.
* `Withdrawals.Fairness`: an HTTP call ends with an answer, an error or its
  timeout of 15 seconds (a crash is also an end). `MCWithdrawalsOneHand` adds
  `SweepFairness`: where the sweep is the hand at work, it is started while there
  are stale rows and goes on once started. The cutoff is a day, so that the call
  of a stale row is over. Failed lookups and aborted runs are limited by
  `MaxFaults`: a CryptoBot that never answers again would keep rows pending, in
  the code as well. Nothing is assumed of admins.
* `Deposits.Fairness`: a webhook or poll request ends (its statements end or it is
  cut off). The report of a payment that was not answered with 200 is delivered
  again, and is heard when a request is free: strong fairness, because `Requests`
  bounds the model and not the server. The repetition is what the code relies on
  (`maintenance.py:46-49`: CryptoBot retries on non-2xx). Only as many requests
  fail as `MaxFaults` says; a provider that gives up first is not modelled.
  Nothing is assumed of the payer, the user, the sweep or admins. `PaymentsArrive`
  is stated for CryptoBot; for Crystalpay it is false, because a closed deposit is
  not credited and the report of a completed payment is a duplicate of the short
  one. It excepts updates that were dropped, finding 7.

The other modules state safety only: what must happen in the end there is the
client's retry, a human, or a lapse of time, none of which the code makes fair.

## 5. Proofs

TLAPS checks the theorems below for all values of the constants that satisfy the
assumptions of the module they are about:

* `EscrowAssumption`: natural numbers of rows, positive amounts, percentages from 0
  to 100; `WithdrawalsAssumption`, `DepositsAssumption`: natural numbers of rows
  and faults, positive amounts;
* `PinAssumption`: a lock outlives a code, limits are positive;
* in `MCSessions`, `FactorAssumption` and `ChannelAssumption`; in `MCPlatform`, one
  assumption for each part (`AccountsAssumption` to `PagingAssumption`). They say
  that tables and sets of processes are finite, that limits, lifetimes and sizes
  of pages are natural numbers, that a first admin exists, and that no request has
  the name that stands for an unheld lock.

| theorem | statement | argument |
| --- | --- | --- |
| `EscrowProofs!RowsCorrect` | `Spec => []Rows` | the inductive invariant `Rows == TypeOK /\ RowsOK` |
| `EscrowProofs!TypeCorrect` | `Spec => []TypeOK` | from `Rows` |
| `EscrowProofs!EscrowIsBacked` | `Spec => []EscrowBacked` | inductive together with `Rows` |
| `EscrowProofs!CommissionKeptOnce` | `Spec => []CommissionOnce` | inductive together with `Rows` |
| `EscrowProofs!MoneyIsConserved` | `Spec => []Conservation` | `Rows`, `EscrowBacked` and the linking of invoices to deals that exist |
| `EscrowPromiseProofs!EscrowKeepsPromise` | `DisciplinedSpec => KeepsPromise` | refinement, step by step, under `Disciplined` |
| `EscrowPromiseProofs!InvoicesAreDisciplined` | `Spec => []InvoiceDiscipline` | inductive with `InvoicedDeals` and `Invoicing` |
| `EscrowPromiseProofs!OutcomesAreCounted` | `Spec => []OutcomesCounted` | inductive with `Counting` |
| `EscrowPromiseProofs!ClosedStaysClosed` | `Spec => ClosedIsFinal` | step by step, from `Rows` |
| `WithdrawalsProofs!WithdrawalsTypeCorrect` | `Spec => []TypeOK` | inductive |
| `WithdrawalsProofs!LockedIsBacked` | `OneHandSpec => []LockedBacked` | `Guarded /\ Books` |
| `WithdrawalsProofs!NothingIsLost` | `OneHandSpec => []NothingLost` | `Guarded /\ Books` |
| `WithdrawalsProofs!SettledStaysSettled` | `OneHandSpec => SettledIsFinal` | `Guarded`, step by step |
| `WithdrawalsProofs!BookedAsDelivered` | `OneHandSpec => []SweptAsDelivered` | inductive together with `Guarded` and `Informed` |
| `WithdrawalsProofs!PayoutsKeptPromise` | `OneHandSpec => PayoutsKeepPromise` | refinement, step by step, under `Guarded /\ Books` |
| `DepositsProofs!DepositsTypeCorrect` | `Spec => []TypeOK` | inductive |
| `DepositsProofs!DepositsBookedOnce` | `Spec => []Books` | inductive together with `TypeOK` |
| `DepositsProofs!CreditsMatchPayments` | `Spec => []CreditedAsReceived` | inductive together with `TypeOK` and `Reports` |
| `DepositsProofs!CrystalpayKeepsClosed` | `Spec => CrystalpayStaysClosed` | step by step, from `TypeOK` |
| `PinGateProofs!PinTypeCorrect` | `Spec => []TypeOK` | inductive with the types of the observers |
| `PinGateProofs!GuessesAreBounded` | `Spec => []GuessesBounded` | inductive with `Guessing` |
| `PinGateProofs!RevokedAreRevoked` | `Spec => []RevokedStayRevoked` | inductive with `Epochs` |
| `SessionsProofs!CodesAlwaysAuthoriseOnce` | `Spec => []CodesAuthoriseOnce` | inductive: `Factor` |
| `SessionsProofs!SessionsAlwaysEnd` | `Spec => []SessionsEnd` | inductive: `Factor` |
| `SessionsProofs!CapIsKept` | `Spec => []CapKept` | inductive: `Channel` |
| `SessionsProofs!NewestIsReached` | `Spec => []NewestReached` | inductive: `Channel` |
| `SessionsProofs!RevokedAlwaysHearNothing` | `Spec => []RevokedHearNothing` | inductive: `Channel` |
| `PlatformProofs!LargeMovesAreSeconded` | `PlatformSpec => []LargeMovesSeconded` | inductive: `Seconding` |
| `PlatformProofs!QuotaIsKept` | `PlatformSpec => []QuotaKept` | inductive: `Quota` |
| `PlatformProofs!RatingsFollowReviews` | `PlatformSpec => []RatingFollowsReviews` | inductive: `Rating` |
| `PlatformProofs!SomeoneCanAlwaysAct` | `PlatformSpec => []SomeoneCanAct` | inductive: `Authority` |
| `PlatformProofs!NothingIsEverDiscarded` | `PlatformSpec => NothingDiscarded` | `Authority`, step by step |
| `PlatformProofs!CallsAreLimited` | `PlatformSpec => []AdmittedBounded` | inductive: `Limiting` |
| `PlatformProofs!WritesAlwaysStopSoon` | `PlatformSpec => []WritesStopSoon` | inductive: `Stopping` |
| `PlatformProofs!CountsAreBacked` | `PlatformSpec => []CountsBacked` | inductive: `Delivery` |
| `PlatformProofs!BootsSurviveTogether` | `PlatformSpec => []BootsSurvive` | inductive: `BootedSafely` |
| `PlatformProofs!PagesAreComplete` | `PlatformSpec => []PagesComplete` | inductive: `Paging` |
| `PlatformProofs!TypesAreCorrect` | `PlatformSpec => []TypesOK` | the invariants above, with `TicksLimited`, `Restarted`, `Tallied` and `Seedlings` |

`TypeOK` is not inductive: `ForceRelease` and `TopupLate` credit a party of the
deal, and that the party is a user follows only from the deal having been
inserted. `RowsOK` says so, that the two parties differ (otherwise a split would
credit one user twice in an `EXCEPT`), and that a deal forced into arbitration
unpaid never becomes a live deal again, which `EscrowBacked` needs when it drops
the users it says nothing about. `EscrowBacked` in turn carries `Conservation`:
the clamp at zero loses no money only if the locked column covers the pot, and
`BuyerCovered` derives that from the sum being exact. `CommissionOnce` needs that
`commission_paid` is not set on rows that do not exist, and that `CommissionDue`
is zero once it is set.

The refinement maps each step to one step of `EscrowPromise` or none. Its invariant,
`Disciplined`, collects what the steps need: with `EscrowBacked` and nobody tainted,
what is left of the locked column is what the withdrawals bind (`ReservedIsOnHold`),
so that no step of a deal touches the abstract `reserved`; `Priced` gives the
promise a pot that is really filled; `InvoicedDeals` and `Issued` that a payment has
a user it can be credited to. `SettleStep`, `FundStep`, `PayInStep`, `AbandonStep`
and `WithinPhase` are then the five ways the handlers look from above, and every
handler is shown to be one of them. Without the discipline the statement is false
(finding 1).

`InvoiceDiscipline` is not inductive: an expired invoice can still be paid, so that
of two unpaid invoices of one deal the older could complete it. `CurrentOnly` says
that there is never more than one, open or expired. `OutcomesCounted` is a bound on
counters that only grow; what makes it inductive is `OutcomesOwed`, which adds the
deals whose outcome is still to be counted, so that a verdict moves a deal from one
side to the other, and `ForcedDisputed`, by which an admin's force is counted once.

Sums over users and deals are the function `Total`, defined by a recursive
function on `0..n`. `MoneyTheorems` proves what is needed of it: that it exists
and is a natural number (`PartialSums`, by an induction on an interval that
rests on the least element of a set of naturals), how it changes with one
argument (`TotalUpdate`), and that it covers each of its terms (`TotalCovers`);
also the bounds of `RoundHalfEven` and `PercentOf`, from which a split pays out
exactly the pot.

The theorems about withdrawals are about `OneHandSpec`, the behaviours of
`MCWithdrawalsOneHand`: requests settle next to either admins, one after another,
or the sweep. Of `Spec` they are false, which is what findings 3 and 4 show.
What makes them inductive is `Custody`. The admin's last transaction and the
sweep's commit write a status without looking at the row again, so the row must
still have the status they believe it has: approved for the admin, pending and
not being paid for every row the sweep has read, pending for the request that
may refund. `Books`, the two sums, then holds through each of them because a row
that is open is covered by the locked column, so that the clamp at zero does not
bite; for the sweep's commit, which moves many rows at once, `TotalPlus` adds the
sums of the rows it sends, rejects and leaves. `Informed` adds for
`BookedAsDelivered` that what the sweep has been told of a transfer is still so
when it commits: a stale row has no call under way that could execute it later.

`PayoutPromise` knows a user who asks and withdrawals that end, paid or returned,
several at once if need be. `MCWithdrawalsOneHand` maps the rows to it: an open row
is on hold, whoever has it; what is on hold for others is the locked column less the
open rows. `Books`, before and after a step, says that the latter is `Bound` and so
that no step draws on it; `MovePromised` is what the request and the admin do to one
row, `CommitPromised` what the sweep's commit does to all it has marked, and
`Custody` makes both of them ends of withdrawals that are still on hold. All other
steps are invisible from there.

For the deposits, `Books` follows from how the sum of the paid deposits changes
with one row (`SumUpdate`): each action that makes a row paid, or takes it back,
moves the balance by what the row adds to the sum, and the guards under the row
lock say from which statuses that is. `CreditedAsReceived` needs `Reports`: of all
the reports of an invoice only the last can match its amount, since a payer
completes what is short and nothing more; so a webhook that passes the comparison
credits what was last received, although it may handle an old report.

For the PIN, `Guessing` says what the counters must tell: while a code can still be
guessed, the wrong guesses so far are counted in the attempts, or the lock outlives
the code. `Epochs` says that the epoch of the row is the number of revocations as
long as none was lost, and that no copy or token is ahead of it.

*The second factor.* With Redis a code is refused because of a claim, without it
because of the row, so `Factor` has a part for each: `ClaimsOutlive`, that the claim
of an accepted code lives at least as long as the code, and `RowReached`, that the
row has reached the counter of an accepted code of its secret and that the secret
being enrolled is not the old one. `EpochsBehind` says that whatever copy of the row
a request holds, its epoch is not ahead of the row, and behind it once revoked. The
attempt showed that a `Setup` that hands out a secret a second time breaks
`RowReached`; secrets are random in the code, and `SecondFactor.Setup` now says so.

*The sockets.* `NewestReached` is about where an event is: on the channel of a
process, in the queue of a socket, being sent, or received. `OnTheWay` gives each of
these its numbers: an unread channel holds the latest events, the queue those just
before, without a gap, and what was sent lies before both. An overflow drops the
oldest event of the queue, so that a gap opens only between the queue and what was
sent, never ahead of it. `Cut` says of a revoked
socket that a revocation lies unread ahead of everything newer than it. Both hold
while Redis has not failed (`Calm`), as the properties say.

*The desk, the quota, the counters.* `Signed` says who can have answered a request:
while it is pending it names who asked, unless he is no longer in office, and whoever
agreed to it is another admin. `Announced` says that a request that counted the active services holds the
owner's lock and that its count leaves room. `Rated` and `Counted` say that counters
are those of the committed reviews, and what a request has counted under the lock
of the user is what they will be when it commits; `Apart`, that two requests that
hold locks are about different users. `Authority` keeps an admin by what each check
has seen: `_ensure_not_last_admin` counts under the lock of the admins' rows, and
`Aimed` says that nobody takes away his own authority.

*The limit.* `AdmittedBounded` cannot be proved from what Redis holds now, since a
window slides. `Limiting` says for every m up to the window that what was let
through in the last m ticks was counted in Redis, by a process of its own, or by a
process that has restarted since. The sum over the processes is `Total` over an
enumeration of them (`Roster`); `RecentHit` and `RecentOlder` say what a call and a
tick do to a sum over the last ticks.

*The flag.* `Stopping` gives the age of every copy: a read under way that found the
flag off is at least as old as the flag's change, and a cached copy of it ends within
`Soon`.

*Broadcasts and lists.* Recipients and processes are listed in an order
(`SetsCanBeListed`, an induction on the number of elements through the least number
for which it fails). `EachUserOnce` says that whoever is ahead of the cursor has got
nothing, `EchoesBehind` that an echo is under way only for a notification that has had
none, and `CountsBehind` that the row is behind memory and memory behind what was
sent. `SeenAhead` and `Due` say which side of the cursor a row is on that was, or is
still to be, on a page.

*The start.* `UpgradesAlone` says that a process that upgrades from a revision past
the concurrent indexes holds the lock and has seen the revision as it is; that one
process at most is past its index build, with the columns there and the revision
still 0; and that an upgrade which finds the columns there and the revision 0 is what
`rerun` remembers. So two upgrades overlap only where the second is such a one, and
only that, or a process which waits for it, can crash. `SettingsSeeded` says that a
process that has come past the settings found or wrote them, whatever became of the
others.

*The types.* Each part's type invariant needs a little more than itself. `Tallied`
says that a broadcast's counters never exceed the recipients whose turn is over, from
which they stay within the number of recipients; `TicksLimited` and `Restarted` that
time and restarts stop at their bounds; `Seedlings` that a table which seeders fill
holds nothing but what they have for it. The attempt showed that the type of the
counters of `Reviews` was too narrow: an admin may set them to any number, also to
more than there can be reviews.

Every safety property of a passing run is now stated by a theorem. Left to TLC for
good: the three liveness properties (`NothingWaitsForever`, `StaleReconciled`,
`PaymentsArrive`; fairness and `ENABLED` are not supported) and what a recursively
defined function computes for every input beyond the facts above (induction over an
arbitrary predicate). No module declares a `RECURSIVE` operator.

## 6. Findings

1. `force_arbitration` accepts a deal that waits for its invoice; then an active
   deal holds no money, and releasing, splitting or deciding it creates money or
   consumes another deal's pot (`escrow_unfunded`). `EscrowBacked`, `Conservation`
   and `KeepsPromise` hold exactly outside of this case, which their statements
   name (`Tainted`, `FundedOnly`, `DisciplinedSpec`).
2. `delete_deal` says it returns the commission and does not (`Escrow.DeleteReturnsCommission`, which TLC refutes when it is checked).
3. Phase 3 of `decide_withdrawal` checks the status of a stale copy: a withdrawal
   another admin rejected, and refunded, is then marked sent (`withdrawals_race`).
   This is why `withdrawals` has one admin request at a time.
4. Phase C of the stale sweep does the same (`withdrawals_stale`). This is why
   `withdrawals` has no admin at work where the sweep is.
5. Without an admin, a lost answer refunds a withdrawal CryptoBot has executed
   (`Withdrawals.ErrorsAreNotRefunds`, refuted likewise). `SettledAsDelivered` is stated for the other rows.
6. The header of `services_payments.py` promises that retries never credit twice.
   `handle_invoice_paid` looks for `paid` only, so that an update whose request died
   after the credit, delivered again after an admin refunded the deposit, credits
   it again (`deposits_retry`). `handle_crystalpay_invoice` refuses:
   `CrystalpayStaysClosed`.

Without a run of its own, because no text of the repository promises otherwise:

7. A delivery that arrives while an event is marked processing is answered with
   200, for ten minutes, also when the request that took the event has died or has
   failed without its mark (see `Deposits`, *Events*). The provider then stops
   repeating and the payment waits for a poll or an admin; `Dropped` in
   `PaymentsArrive` is this case.
8. The report of a completed Crystalpay payment has the number of the short one
   before it and is answered as a duplicate.

### Around the money

9. A fresh installation opens without the ten crypto currencies: the migration that
   adds the fiat ones makes the table non-empty before the seeder looks
   (`boot_seed`).
   A fiat currency an admin deletes comes back at the next start.

The next ones are statements of the code's comments for which the modules have a
definition, or whose exception a property names. TLC refutes them when they are
added to a run:

10. `Catalogue.OnlyAdminsUnban`: an owner's change read before a ban lifts it.
11. `Reviews.InsertsNeverDeadlock`: two first reviews of one user can wait for each
    other, through the share locks of their foreign keys.
12. `Accounts.CodesMoveOnce`: of two confirmations that have selected the same code
    the second moves the account again. `SomeoneCanAct` excepts an admin's account
    that is given up as the target of a transfer (`surrendered`) and a request that
    outlives its actor's authority (`crossed`).
13. `Realtime.PublishersListen`: a process that starts while Redis is away publishes
    through it later and never listens.
14. `PinGate`: an admin's increment of the epoch, made without a lock, is lost
    together with another one (`crossed`). A paid reset charges also when the code
    could not be delivered.
15. `SecondFactor`: a claimed code commits out of order and rewinds
    `totp_last_counter`, which `/disable` and `/enable` alone consult; a code used
    with Redis is accepted again without it. `CodesAuthoriseOnce` holds within a mode.
16. `RateLimit`: the score is the wall clock of the worker, so that a slice is exact
    up to the skew, which `AdmittedBounded` has in it.
17. `Maintenance`: a load that read before the commit stores the old flag after the
    cache was told to forget; `WritesStopSoon` bounds the delay by the time to live and
    the length of a load. Admins are exempt under `/api/admin` only, and the bot gates `/start` too.
18. `Desk`: an arbiter decides any dispute, claimed or not, of any amount and without
    the second admin; arbiters cannot use the force actions their module's header
    says they reuse.
19. `Broadcast`: a broadcast whose process dies stays `sending`; `CountsBacked` says
    that it at least claims nothing it did not deliver.

The last four have a configuration of their own beside the runs, each of which ends
in a counterexample of a few steps (`tlc -config AccountsTrust.cfg Accounts`):

20. `_has_tradable_data` looks at the trust deposit of the object that was loaded when
    the caller was authenticated. The row is selected again under the lock, and the
    comment there speaks of the freshly locked instance, but without
    `populate_existing` the session returns the object it has. A trust deposit that an
    admin sets in between is deleted with the row (`Accounts.TrustNotDiscarded`,
    `AccountsTrust.cfg`). `NothingDiscarded` covers what the gate queries, deals,
    deposits and balances, and a trust deposit that was there when the request began.
21. A broadcast sends every in-app notification by Telegram as well, unless the user
    has switched system messages off: with the messages by Telegram left off, the
    default, it arrives there all the same, and with both on it arrives twice
    (`Broadcast.TelegramAsChosen`, `BroadcastTelegram.cfg`). `CountsBacked` holds,
    since what the broadcast counts are the messages it sends itself.
22. The advisory lock of an upgrade is gone from the first concurrent index build on,
    and a second process may begin the same upgrade (`Boot.UpgradesSerialized`,
    `MCBootUpgrade.cfg`). Its columns are there, so it crashes, or the two wait for
    each other. The comments of the migrations warn of this; that of `env.py` promises
    the opposite. `BootsSurvive` excepts it (`rerun`): it takes a database from before
    these migrations.
23. An upgrade that is cut off while it builds these indexes cannot be repeated, also by
    a process that is alone, because the columns cannot be added twice
    (`Boot.RetriesIdempotent`, `MCBootRetry.cfg` with one process). The migration says
    it is idempotent under retries.

## 7. Not modelled, and why

* Init-data signatures, formats, serializers and validators (`security.py`,
  `schemas.py`, `serializers.py`, `media_signing.py`): functions of one request.
* The ledger, the audit trail and the outbox: appended in the transaction they
  describe, read by listings only.
* Read marks and counters of notifications, comments, profiles, uploads, client
  error and CSP reports, ratings set by hand: single-row writes without a protocol.
* Next to `Accounts.SetTrust`: `set_trust_deposit` writes an absolute value without a
  lock and can lose a credit that arrives at the same time. The credit is in
  `Deposits`, the admin's write is not.
* Analytics, dashboards and other listings: reads.
* The bot's dialogues and the web client: no authority over the state. What the
  bot's gate and its messages decide is in `Maintenance` and `Broadcast`.
* Migrations other than the one that inserts rows and those that build indexes
  concurrently: they change the shape of tables, each in the transaction it shares
  with its neighbours. Of the three concurrent ones `Boot` has the first; a
  database between the first and the last behaves like one at revision 0, with the
  columns and enum values of the next one in the place of the first one's.
* The back-off of the sweep loops, shutdown and the IP purge.
* `create_deal`, a predecessor of `create_deal_with_topup` that no endpoint calls.
* Mark-paid and refund of a deal's invoice by an admin: they would move the
  spendable balance and leave the deal as it is.
* Row locks as such: deadlocks between the payment webhook (deposit, then deal)
  and the cancellation (deal, then deposit), and between the stale sweep and an
  admin, are listed as hazards. PostgreSQL aborts one side, which is a handler
  that did not happen, so no safety property above depends on them.

## 8. Plan

What would add most from here, in this order:

1. `RowLocks`: the locks each transaction takes in order, to show which pairs of
   handlers can deadlock and that no other can.
2. An abstract specification of the deposits (a payment is credited once, or
   reported as not credited) that `Deposits` implements, and its composition with
   `WalletCredit` of `Escrow`; the admin desk on the invoices of deals.
3. `Ledger`: which balance changes the journal misses.
