# A formal model of the Stellar security-token platform

This directory models the part of the platform that moves money and security
tokens: the Soroban contracts, and the backend services that drive them and keep
the database in step with the chain. The modules are written in TLA+, checked
with TLC on small instances, and the central results are proved with TLAPS for
every value of the constants. `PROJECT.json` lists the components, runs, mutants,
theorems, findings and hazards, and maps every definition to the lines of the
source it stands for. Paths below are relative to `src/`.

    tlc -workers 2 -config MCTokenSale.cfg MCTokenSale.tla      # a run
    tlapm PurchaseProofs.tla                                    # proofs

## 1. Inventory

The platform sells tokens of an *offer* (a collateralised debt or an equity
project) to investors for USDC, pays interest while the offer runs and returns
the principal at maturity. Investors and companies hold passkey smart wallets on
Stellar; the platform sponsors and submits their transactions.

| Component | State it keeps | Operations | Interacts with |
|---|---|---|---|
| `token_sale` contract | the offer (admin, prices, cap, deadline), spent per buyer, block list | create, trade, withdraw, emergency_drain, set_active, updt_price, propose/accept_admin, freeze_buyer | both token ledgers |
| `maturity_settlement` contract | config, deposits, settled investors, count, pause, admin | initialize, deposit, settle_batch, withdraw, refund, pause/resume, propose/accept_admin | USDC ledger, clawback of the security token |
| `yield_distributor` contract | admin, pause flag | distribute, pause/resume, set/propose/accept_admin | USDC ledger |
| investment purchase flow | `investments`, `token_distributions` | purchaseInvestment, submitInvestmentTx | `token_sale`, Horizon, RPC |
| SorobanReconciler | none of its own (a timer) | reconcile, expirePending | `investments`, RPC |
| settlement execution | `interest_payments`, `offers.status` | executeFullSettlement | `maturity_settlement`, RPC |
| company payments and yield jobs | `yield_payment_jobs`, `interest_payments` | prepare, processSignedBatches, submitSingleBatch, reconcile | `yield_distributor` |
| payment schedule and defaults | `offers.paymentDueStatus`, `nextPaymentDue`, `periodicPaymentsCompleted`, `status` | four daily jobs (00:30 and 09:00 UTC), markDefaulted, collateral distribution | payments, settlement, pausing |
| multisig admin transactions | `multi_sig_transactions`: an XDR, signatures, a status | queue, rebuild, sign, submit, reject, expire, effects | every contract |
| deposit relay and payment monitor | stream cursor and reconnection state (memory), a deposit row per memo | onmessage, handleStreamError, handleIncomingPayment, forwardAsset, admin retries | Horizon stream, treasury account |
| event indexer | a cursor per contract | pollContract | RPC events, alerts |
| ramp orders (fiat on/off) | `ramp_orders`, `ramp_webhook_events`, the relayer account | create, webhook, reconcile, cancel, sign and submit a transfer | Etherfuse (the anchor) |
| offer lifecycle | `offers.status`, `sorobanInitStatus`, the token row | review, issue, activate, retry, six chained transactions | multisig queue, contracts |
| channel accounts | a round-robin index | getNextChannelKeypair | every submission |
| frontend, e-mail, toml, ipfs, backups, audit log | none that decides a transfer | | |

What makes the platform hard is not any single handler. The database and the
chain are two stores with no common transaction; between every two `await`s of a
handler another request, a timer or a crash may run; a transaction may land after
whoever sent it has given it up; and an answer obtained from an RPC server may be
old when it is used. What must hold, part by part:

* **token_sale** — the cap is a cap over the whole life of the offer; a payment and
  the tokens for it change hands together and at the quoted price; the contract is
  a pass-through for USDC.
* **purchase flow** — one row in flight per investor and offer; whatever is broadcast
  is anchored in a row; a booked row has its own landed trade; nothing stays in
  flight; a failed row did not land (it may, see the findings).
* **maturity_settlement** — nobody is settled twice, nobody is paid without losing
  all tokens in the same step, the fee is capped, deposits stay refundable.
* **settlement execution** — records follow the chain, once; a closed offer is fully
  recorded; a funded offer gets settled.
* **yield payments** — a period is paid once (it may not be, see the findings), counted
  and confirmed only when everybody was paid, and a payment is recorded only
  if its batch landed.
* **multisig** — what the queue sends was approved by a threshold of signers, over that
  very transaction; an approved row executes at most once; a row comes to an end.
* **offer lifecycle** — an offer is shown active only after its sale was created, given
  the tokens and resumed; the recorded progress is never ahead of the chain; an
  undisturbed activation goes through.
* **payment schedule** — an offer is in default only after its grace period; a company
  that has paid is not shown as late for ever, one that has not is.
* **relay and monitor** — an investor's payment is forwarded at most once, a deposit
  does not stay half-way, the stream is opened again after errors. (Payments that arrive
  while nobody listens are lost, and so are deposits cut off where nothing catches, see
  the findings.)
* **ramp orders** — a row has a status the anchor announced and no ending but the anchor's,
  follows the anchor in the end, and the anchor is paid only for a transfer on record.
* **event indexer** — raises alerts for administrators only; not modelled.

## 2. Modules

| Module | Models | Run |
|---|---|---|
| `TokenSale` | `contracts/token_sale/src/lib.rs` | `token_sale` |
| `InvestmentFlow` | `investmentController.js` (purchase, submit), `sorobanReconciler.js`, `submitWithSponsorship`, the ledger, restarts | `investment_flow`, `flow_failed_but_landed` |
| `PurchaseProofs` | theorems about `TokenSale` and `InvestmentFlow` | |
| `SettleOnce` | the promise of a settlement, abstractly | |
| `MaturitySettlement` | `contracts/maturity_settlement/src/lib.rs`; implements `SettleOnce` | `maturity_settlement` |
| `SettlementExecution` | `executeFullSettlement` on top of `MaturitySettlement` (it extends that module: the contract's variables and calls, a next-state relation of its own) | `settlement_execution` |
| `SettlementProofs` | theorems about `MaturitySettlement`, `SettlementExecution` and how the one drives the other | |
| `YieldDistributor` | `contracts/yield_distributor/src/lib.rs` | inside the next one |
| `YieldPayments` | prepare and submit of `companyPayment.service.js`, `yieldDistributor.service.js`, `yieldPaymentReconciler.js`, composed with `YieldDistributor` (by `INSTANCE`) | `yield_payments`, `yield_settles` |
| `PaymentSchedule` | the daily jobs (`payment.service.js`, `companyPayment.service.js`, `paymentReminder.service.js`) and the requests that write the same columns | `payment_schedule` |
| `PaymentProofs` | theorems about `YieldPayments` and `PaymentSchedule` | |
| `MultiSig` | `multiSigTransaction.service.js` and its routes: the approval queue | `admin_transactions` |
| `MultiSigProofs` | theorems about it | |
| `OfferActivation` | `offerController.js` (review), `offer.service.js` and the hooks of the queue that take an offer live, composed with `MultiSig` (by `INSTANCE`) | `offer_activation` |
| `OfferActivationProofs` | theorems about it | |
| `DepositRelay` | `paymentMonitor.service.js`, `depositRelay.service.js`, the transfer of `stellar.service.js` | `deposit_relay` |
| `DepositRelayProofs` | theorems about it | |
| `RampOrders` | `rampOrder.service.js`, `rampOfframp.service.js`, `rampWebhookController.js`, `rampOrderReconciler.js` | `ramp_orders` |
| `RampOrdersProofs` | theorems about it | |
| `NumberTheorems` | lemmas the proofs share: truncating division, largest elements, sums over finite sets | |

Definitions whose comment begins with `Mutant` are plausible bugs, used to test
that each property can fail; no specification refers to them. Where one proof module
covers two models, the second one's names carry a prefix (`FlowInit`, `ScheduleNext`,
`ServiceSpec`), so that both can be extended.

### How code becomes state and action

* **Contracts.** A Soroban call is atomic: an error or a trap rolls it back. An
  action is a successful call, its guard is the negation of every error in the code.
  `require_auth` of the current admin or seller is a fact about the caller, not about
  the state, so those actions have no guard for it; who the caller may be shows up as
  the recipient (`withdraw` pays `admin`) and in `accept_admin`. Amounts are integers,
  the width of `i128` is the constant `MaxI128` in the guards of the checked
  operations. Token contracts are external: a balance per account, `CanSend`, `Transfer`.
* **Handlers.** What lies between two awaits is one action. A request has a program
  counter; a crash (`Restart`), a database error or a thrown call moves it to a dead
  end at any place. Names of the actions follow the sections of the handler.
* **Transactions.** `tx` is the ledger's view: built, pending, then success, failed or
  expired. It goes on after the handler that sent it has died.

### InvestmentFlow

One request inserts at most one row and builds one transaction, so a request names
both. An intent stands for the wallet-signed auth entry: the ledger takes its nonce
once, so a second transaction of the same intent fails. Reads before the first await
that only refuse (KYC, the maturity cutoff, missing fields, the HMAC) are taken as
passed; the in-memory rate limiter is a nondeterministic refusal. A signer other than
the investor of the context fails the enforcing simulation. Three facts of time are
in guards instead of clocks: a handler is younger than the 30 minutes of
`expirePending`, the 30 seconds a transaction is valid end before the 10 minutes of the
reconciler's orphan age, and the RPC server still knows a landed transaction at that
age. The reconciler's branches for rows without a hash, or of offers without a
contract, cannot be reached from this flow (the anchor writes the hash, the submit
handler serves contract offers only).

### SettlementExecution

The offer is a bullet offer with locked tokens, the only kind that can settle (a zero
fee cannot be encoded, see the findings). `Rows` is the breakdown, one row per distributed
investment (each has a wallet and an amount, so the code's filter on the two drops none), and
`PlatformFee` the spread, both in stroops: the interest arithmetic that yields them is
a constant of the model, the rounding that splits the fee is not. The company funds the
contract in any number of deposits, and `Validate` takes a balance `DEPOSIT_TOLERANCE`, one
stroop, below `Required` for enough or not, as the code's comparison of floating-point
numbers does. A request is an
execution `e`, repeated by an operator after its last transaction was decided; a second
execution runs beside it without any lock, as in the code. `Throw` is the end of the
60 seconds of polling, an RPC or database error, or a restart.

### YieldPayments

A periodic payment is prepared for the investments that are `distributed` at that moment
(`size`, a prefix of `Investments`), signed batch by batch, and submitted in a request
that names neither the job nor the period. `Jobs` are numbered by `createdAt`,
`Submissions` by arrival. A signed batch is an authorisation with a nonce; each attempt
carries it in a transaction of its own, so `pending` and `landed` name batches of a
submission and the ledger takes each authorisation once (`Spent`). When a batch has been
attempted before, which of its transactions lands is not told apart: `Answer` may then
find the batch landed and its own transaction failed. A request with the batches of an
old, of the newest or of an already submitted preparation is as possible as a second one
beside it, for no lock is ever acquired. The reconciler's snapshot (`stale`) is taken and
used in separate steps; jobs are found ten minutes old and failed at an hour, which is a
matter of when. `Prepare` is one action, though it reads first and inserts last: what it
read is what it is about. Offers with unlocked tokens, whose breakdown comes from chain
balances, are not in the model; the due dates are in `PaymentSchedule`.

### PaymentSchedule

One offer of any of four kinds (bullet or periodic, debt with collateral or a sale). A
day has its jobs in the order of the two cron entries (`stage`); each job is a `Find…`
that reads and decides, and a write by id that follows later (`cron`), since the code
sends mail or computes interest in between. Requests run at any time between the two, in the same two
halves (`req`). An exception or a restart ends the callback in work and skips to where the
next one starts (`Lost`). Days are numbers, a month is a number of days, the payment day
a place in it. `Frequency` is both the months of `paymentType`, from which the next due date
is computed, and `paymentFrequency`, which decides when a notice is sent: creating an offer
refuses any other combination (`backend/src/services/offer.service.js:86-94`; a zero or
blank field skips that check and is stored as 1, which is not modelled, and nothing
changes the two afterwards). After `LastDay` the calendar is cut back by one period (`Tick`), which
keeps the space finite and every difference between dates that matters. `missed` is a
history variable: some due date on the row, or the maturity, has been past by more than
the grace. The settlement contract is taken to be deployed; the penalty rates, zero
unless configured, are left out.

### MultiSig

A row holds an XDR, told apart by its build and sequence number, and the signatures
collected so far, each over the XDR it was made for. Every request reads the row, decides
on its copy and writes back by id: signing writes the whole signature map it read,
rejecting and expiring overwrite whatever status is there by then. Fetching the XDR
replaces it (`Rebuild`) and leaves the signatures. The network executes a transaction
only if it has the sequence number that is next. `SendSigned` is the route that sends
whatever XDR a client with the keys of all signers posts to a row: it is compared neither
with the row's XDR nor with its status, the row's effects run when it has landed
(`Approve`), and it is written over the row's XDR (`StorePosted`), while the signatures stay.
So `built` counts a row's builds apart from the XDR it holds, number 0 stands for an XDR
the queue has not built, and `Posts` are the transactions posted to a row. That effects
are only applied to a row whose own transaction has executed is not a property of this
code (see the findings); what the queue itself sends (`queued`) is what the properties
speak of.
An approval may add a row to the queue (`MayQueue`), as the hooks of an offer's transactions
do; what else it changes is left open in this module.

### OfferActivation

The queue of `MultiSig` with the issuer as the only signer, and six operations in
`Slots` rows each. Its `Approve` and `Undo` are conjoined with what
`processEffects` and `processRejectionEffects` do for each operation: the hook writes the
progress and queues the next transaction, whose simulation reads the chain (`Succeeds`).
`HookFails` is the same hook with an exception after its first write. Review, issue,
activation and retry are runs of their own (`act`), cut at their awaits. `trouble` counts
the timeouts, rejections, expiries, exceptions, restarts and overlapping requests of a
behaviour: it bounds them and lets a property speak of an undisturbed activation.

### DepositRelay

The monitor's fields are one record (`mon`), the open stream is another. The cursor moves
when a message arrives, before its handler has run; it starts at "now" and is lost in a
restart. There is one row per memo and a memo per investor, so the payments of an
investor share a row. `forwardAsset` reads, claims, takes the treasury's sequence number,
submits, and records the answer, each in a step of its own. A failure may be a timeout
(`Answer`); an admin's retry names an asset of its own. The database may throw at every
read and write of a handler: before the row is there the payment is just ignored, inside
the `try` the catch writes 'failed' (over a transfer that has landed, if it is the last
write that throws), and in the two places that nothing catches, the read before the `try`
and the write in the catch, the row stays as it is. `dropped` is the history of the deposits
this has happened to, or a restart, and the exception of `RelayEnds`.

### RampOrders

The anchor is external: its order moves forward, and every status it takes may be
delivered by a webhook, late, out of order, or never (`posted`); repeated deliveries are
dropped by `ramp_webhook_events`. Webhooks, the timed reconciler, reads that reconcile,
and cancellations all read the row, check the transition, and write by id.

The timed reconciler, `Cron`, takes the `BatchSize` open rows whose `updatedAt` is
oldest, and a row it finds unchanged is not written and keeps its place: `older` is the
order of the rows' last writes, `Sweep` reads a batch, `Visit` takes one row of it after the other. Rows that never
change, such as on-ramp orders nobody pays (`Abandoned`), thus keep newer rows out
of every sweep. `Crowded` says that a row is kept out, and is an exception of
`FollowsAnchor`.

An off-ramp order moves tokens twice: a transfer the investor has signed (they may sign
several), and a payment from the relayer account to the anchor. One token stands for the
amount. The code takes any answer with a hash for success, so `Move` and `Pay` may go on
although nothing has landed, and what is `pending` may land at any time after that. The row
has one place for the hash of a transfer (`hold`), which a second submission overwrites: a
transfer that landed may drop off the record (see the findings), and what is left to
hold is that no payment to the anchor is made, and no `burnTransaction` shown, without a transfer on record
(`PaidIsOnRecord`).

## 3. Runs

Bounds are chosen so that every action fires and every guard is met from both sides.

| Run | Instance | Distinct states | Shows |
|---|---|---|---|
| `token_sale` | a buyer who can afford more than its cap, the company, a stranger; three prices, one of them invalid; 2 tokens, deadline 1, ledgers 0..2, `MaxI128` 5 | 357,126 | cap, delivery versus payment, pass-through |
| `investment_flow` | 2 submissions, 2 intents, 2 investors, 1 restart | 506,548 | one in flight, backed, anchored, final, resolved |
| `maturity_settlement` | 2 investors, 2 depositors (one is an investor), batches up to 2, payouts and fees from -1, cap one half, `MaxI128` 3, tokens may move | 60,087 | refinement of `SettleOnce`, count, deposits, fee cap |
| `settlement_execution` | 2 executions, 2 batches, deposits in parts, 3 faults | 11,068 | records follow the chain; liveness without faults |
| `yield_payments` | 2 preparations, 2 submissions with 2 attempts per batch, batches of one, one investor and one who joins; one period; a purse for two payments | 3,003,796 | counter, job status and records are never ahead of the chain |
| `yield_settles` | 2 preparations, 1 submission with 3 attempts | 41,076 | jobs and submissions end |
| `payment_schedule` | months of 3 days, payments on the first, maturity after two of them, 1 day of grace; 2 requests, 1 lost job or restart | 1,216,824 | default needs the grace period; the late status comes and goes as it should |
| `admin_transactions` | 1 row, 2 signers who both have to sign, 2 requests, 2 builds, 1 post of a client, 1 restart | 1,261,924 | approval, single execution, rows end |
| `offer_activation` | 2 requests on the queue, 1 on the offer, 2 rows per operation, 1 thing that goes wrong | 94,400 | order of going live, progress, completion |
| `deposit_relay` | 1 investor paying in USDC and in XLM, 2 handlers, 2 reconnection attempts, 1 retry, 1 restart, database errors | 1,071,204 | single forwarding, the stream returns, deposits end |
| `ramp_orders` | 2 orders, one of them abandoned, sweeps of 1 row, 1 request beside the reconciler, 2 signed transfers, 1 fault | 1,315,134 | statuses and endings are the anchor's, the anchor is paid for what is on record, rows follow the anchor |

Two of everything that competes is enough for the races in question: each is between
two submissions, two requests or a handler and a timer, and nothing in the code
counts beyond two. What two cannot show (three submissions of one investor, three
signers, several memos) is covered by the theorems where there are any. In `yield_payments` the
joining investor makes the second preparation a two-batch one, so
that one- and two-batch submissions meet; a third submission would only repeat either.
`offer_activation` allows a single disturbance, of any kind and at any place; since a
pipeline that was disturbed starts over from a retry, a second one meets the same states
again, with more rows. One row in `admin_transactions` is enough, for rows share nothing but the account's sequence
number; one post to it is enough to put the row on an XDR the queue has not built, or has
replaced, and the theorems are for any number. In `ramp_orders` the second order is
abandoned and a sweep takes one row, so that one order can crowd the other out; fifty
rows in the code do the same to a fifty-first. The investor signs two transfers, so that the
second's hash overwrites the first's, and one of the transactions is answered too early or
not at all, or the process restarts; several of these at once are the theorems'. In
`deposit_relay` database errors are not counted: they strike at any read or write of a
handler.

Deadlock is not checked in `offer_activation`, `deposit_relay` and `ramp_orders`: an offer that is rejected,
a monitor that has used up its attempts, and an order that has ended really stop.

### The run that ends in a violation

`flow_failed_but_landed` checks a sentence of a comment, quoted in the findings of `PROJECT.json`, against what
the code does: `FailedDidNotLand` is violated when a Horizon timeout marks the row failed, the
trade lands, and nobody looks at failed rows again.

Further disagreements between text and code, found while modelling, are findings without
a run of their own. The most consequential ones:

* rows in `trade_submitted` are missing from the supply check, and the daily cap never refuses;
* an investor with two investments is refused as a duplicate, so the offer never settles,
  and neither does one with a settlement batch that lands after its poll has given up, or
  one whose deposit is a stroop short and passes for covered;
* two preparations of one period may both be signed and submitted, and everybody is then
  paid twice; who joins between preparing and recording is recorded as paid;
* offers without a spread can neither settle nor pay interest (a zero fee is not encoded);
* a transaction posted with the keys of all signers is never compared with the row whose
  effects it triggers;
* signatures over an XDR that was replaced make a multi-signature row unsubmittable, and a
  timeout marks an executed transaction as failed;
* a timeout in the activation pipeline deletes the token row of an existing token contract,
  and two submissions of one row both run its hook, so the supply may be deposited twice;
* a second payment of an investor whose deposit is completed is ignored, a retry of a
  failed deposit does nothing, payments made while the process is down are never seen, and a
  database error outside the `try` leaves a deposit half-way for ever;
* a webhook is acknowledged before it is applied, an off-ramp order can be cancelled
  after its tokens have left the investor, a second submission overwrites the hash of the
  first transfer, and fifty orders that never change starve the reconciler's others;
* a payment made a month late skips a period, a notice moves the due date of a company that has
  paid, and a settled offer can be declared in default.

### Fairness

* `InvestmentFlow`: the event loop runs started handlers on (weak fairness of
  `HandlerStep`), time passes (`Expire`), and the two intervals of
  `SorobanReconciler.start` keep firing (`Scan`, `Query`, `Resolve`, `ExpirePending`).
  Nothing obliges investors to submit or the network to include a transaction.
* `SettlementExecution`: the event loop, a network that decides every pending
  transaction, an operator who prepares the contract and repeats failed requests. This
  is more than the code can count on; `CoveredSettles` holds under it when there is no
  fault and the contract has held the whole sum before its first batch; one stroop less and
  it may fail. With one it does not, even with that help (see the findings).
* `YieldPayments` (`yield_settles`): the event loop runs each started submission on, and
  the reconciler's interval, started with the server, finds and treats each stale job.
  The network owes nobody an answer; `NoAnswer` is part of what the handler does.
* `PaymentSchedule`: days pass, each with its jobs, and started requests run on. Neither
  the company nor an admin has to do anything, and the two liveness properties are about
  what then happens if they do, or do not.
* `MultiSig`: the event loop; time passes (`Lapse`); the expiry job finds its rows
  (strong fairness, as the job is not one of the few handlers of the model and does not
  wait for one). Neither admins nor the network owe anything.
* `OfferActivation`: the event loop, a network that decides what is sent, and an issuer who keeps
  signing what is waiting; without those signatures no offer can go live.
* `DepositRelay`: the event loop runs handlers and timers. The stream and the network owe
  nothing.
* `RampOrders`: the event loop; a sweep begins every five minutes and visits every row it
  has read; a fetch may fail, but not every time an order is visited. Which rows a sweep
  reads is not assumed but modelled (`Batch`). Webhooks and the anchor owe nothing, and a
  request that reads an order is never certain.

## 4. Proofs

All theorems hold for every value of the constants that satisfies the named
assumptions of the modules (addresses are distinct where they must be, amounts are
naturals); TLC evaluates those assumptions in every run.

* **TokenSale.** The inductive invariant is `TypeOK /\ CapHolds`: `CapHolds` ties the
  stored total to the history of payments, without which the cap check says nothing
  about the past. `TypeOK` is not inductive by arithmetic alone: a balance stays
  natural because a transfer is guarded, also when sender and receiver coincide
  (`TransferFacts`), and a trade's three USDC transfers compose for any coincidence of
  buyer, company and treasury (`TradeEffect`). `DivFacts` bounds the truncating
  division; `PaidMeansDelivered` and `NoUsdcKept` follow step by step.
* **InvestmentFlow.** `IInv` adds to the checked invariants what each place of the
  handler knows: which statuses its row and transaction may have there, that a landed
  transaction has used up its intent's nonce, and, for the reconciler, that an answer
  `SUCCESS` names a landed and `GONE` or `FAILED` a finished transaction. That last part
  is why a stale answer cannot overwrite a confirmation. `SingleFlight`, `BookedIsBacked`,
  `CrashAnchor` and `SuccessIsFinal` are its consequences. TLC checked `IInv` before it
  was proved.
* **MaturitySettlement.** `TypeOK` and `CountMatches` are inductive together: the count
  needs that a batch names as many investors as it has items (`NamedCardinality`, from
  the dedup of the code). `Implements` is the refinement
  `Spec => SettleOnce!Spec`: initial states map to initial states, `settle_batch` to
  `Settle`, `MoveTokens` to `Trade`, everything else to a stutter. `DepositsBacked` compares
  a sum over depositors with one balance: a deposit and a refund change one summand and
  the balance alike (`SumExcept`), and a batch or a withdrawal makes the invariant silent.
  `FeeCapped` is about a step: what investors received in it is the batch's total
  (`BatchPaysTotal`, a sum over investors regrouped into one over items), so what is left
  of the balance's change is the fee, which `FeeAllowed` has bounded.
* **SettlementExecution.** The checked invariants say nothing about requests; `ServiceInv` does.
  A request's place limits its batch and transaction (`Stages`); the batches it has left
  behind are settled (`Behind`); and since the contract settles the first batch once, at
  most one request ever gets past it (`OneOwner`). That is why overlapping and repeated
  requests cannot both write records, though nothing locks the offer: the one owner writes
  each payment once, after all batches (`Books`). `RecordedWasSettled` and `ClosedMeansRecorded`
  follow. `PaidOnce` says that a settled investor received what one of its rows owes; with
  one row each (`OneRowEach`) that is all it is owed, which is `PaidInFull`. The condition
  is needed: an investor with two rows is refused as a duplicate (see the findings), and
  the run has one row each for the same reason.
* **Service over contract.** `DrivesContract` is a second refinement: `ServiceSpec => Spec`. Every
  step of requests, network and faults is a call the contract's own specification allows,
  or leaves it alone. With `Implements` the composition settles once (`SettlementIsOnce`).
  The contract takes any amounts (`AnyAmounts`), a hypothesis that no TLC instance meets,
  as it needs infinite sets of amounts, and that the code meets: its arguments are numbers
  of the full width.
* **YieldPayments.** The properties compare the database with the ledger, so `IInv` follows
  a result from one into the other: what a handler holds for confirmed has landed
  (`Results`), and it records only after all its batches did (`Booked`). Counter and jobs are
  bounded by numbers of submissions (`Counted`): the counter by those all of whose batches
  landed (`Served`), the confirmed jobs by those of them that have ended (`Ended`), although
  a job need not be closed by its own submission. Each such submission has paid every
  first investor with an authorisation of its own (`PaidPerSubmission`), whence
  `CounterNeverAhead`, `ConfirmedNeverAhead` and `RecordedWasPaid`. That a row is in the
  same batch of every preparation is arithmetic (`RowsFacts`).
* **MultiSig.** Signatures are told apart by signer wherever they are, in the row or in a
  request's copy, and what is `ready` has enough of them (`Collected`): hence
  `SentWasApproved`. `ExecutedOnce` is the harder one, as a row may be rebuilt and
  submitted again: once an XDR is chosen for sending, every set of signatures, also a stale one that
  a request will write back, keeps a signature over that XDR or an older build
  (`Settled`). So no newer XDR ever has matching signatures only, and the sequence number
  lets one transaction land once. `Tracked` says that the row's XDR is the last one built as
  long as nothing was posted to the row. A post may take the row back to an XDR whose signatures are
  complete, and that it is then executed again is why the property, like the theorem, excludes it.
* **DepositRelay.** `ForwardedOnce` rests on the cursor: it is the stream's place if it is
  anything (`Placed`), so a payment has one handler; `Guarded` says when the monitor's guard
  is set, `Tracked` what a handler has made sure of, and `Single => Sole` that a lone,
  unretried payment has one handler, which only waits for the answer once it has sent.
* **RampOrders.** `StatusWasAnnounced` needs that a job carries announced updates only
  (`Tracked`) and that the anchor's present state is announced (`Known`). `EndingsAgree` needs
  that an ending, once announced, is not taken back (`Final`): whatever old update a
  job carries, if it is an ending it is the anchor's. `PaidIsOnRecord` needs that a submission records its
  transfer before it pays, and that a payment nobody waits for was made by one that has
  (`Paying`), and that an order is inserted once, before its tokens move (`Inserted`), or an
  insert would wipe the record.
* **OfferActivation.** A hook only runs for a transaction that has executed, and an
  executed transaction has left its mark on the chain, which only goes forward
  (`Executed`). The last transaction of the pipeline is queued by the hook of the deposit,
  so wherever it exists the sale was created and given its tokens (`Prepared`): hence
  `ActiveInOrder` and `InitNotAhead`, whatever is rejected, repeated or lost. The queue's
  rows are followed through its own steps and those composed with them.
* **Pipeline over queue.** `RunsOnTheQueue` is a third refinement: the `Spec` of
  `OfferActivation` implies that of `MultiSig`, for the issuer as its only signer. A run that
  queues a transaction takes a free row, and an approval and what its hook queues are one
  step of the queue. What is proved of every queue so holds of the pipeline's, among it that
  what is sent is signed over; `EachLandsOnce` goes on to say that no row executes twice, as
  here nothing reaches the network but through the queue (`Landings`). The model fetches an XDR
  anew only while its row waits for the signature, and nothing is posted to its rows
  (`MaxPosts` is 0); `ExecutesOnce` lacks the first condition and has the second.
  `MultiSig` is instantiated twice, in the model and by way of its theorems, and the lemmas
  named `Same...` say that the two are equal.
* **PaymentSchedule.** `DefaultNeedsGrace` needs what each pending write was decided from
  (`Decided`, `Asked`) and that the history misses no date, also when the calendar is cut
  back (`Noticed`); that a payment moves the date forward is arithmetic
  (`AdvanceIsLater`).

Sums and counts over finite sets (`MapThenSumSet` of the community modules is a fold) are
reasoned about in `NumberTheorems`: `SumOf` unfolds the fold, and facts about all finite
sets are proved by a smallest counterexample, from the library's theorem that the strict
subsets of a finite set are well-founded, since an induction rule that takes an operator
cannot be instantiated by the provers. The assumptions this adds to the models are that
investors and depositors are finitely many.

`TypeOK` (`FlowTypeOK`, `ScheduleTypeOK`, `ServiceTypeOK`) is a conjunct of each inductive
invariant, and proved for every specification. Every invariant and action property that a
passing run checks is proved. For `PaidInFull` the theorem has the hypothesis named above,
every other one holds for all constants the modules assume.

Left to TLC: liveness (`InFlightIsResolved`, `CoveredSettles`, `JobsSettle`,
`SubmissionsEnd`, `PaidUpClears`, `UnpaidEscalates`, `RowsEnd`, `PipelineCompletes`,
`MonitorReturns`, `RelayEnds`, `FollowsAnchor`), which needs fairness and ENABLED. Left to
the comparison of model and code: what recursive or folded definitions compute beyond the
facts above, for instance that the shares of a fee add up to it, which `CoveredSettles`
exercises on its instance.

## 5. Not modelled

* `upgrade` of the contracts (it replaces the code), storage TTL and archival, events.
* The interest and accrual arithmetic, penalties, KYC, authentication, the WebAuthn
  verification and everything else that decides who may call.
* What single contract operations of the queue change (pause, price, withdrawals, freezes,
  drains, admin changes), the retry endpoint of yield payments, offers with unlocked tokens.
* The anchor's customers, bank accounts and identity checks.
* The components listed as `not_modelled` in `PROJECT.json`, with the reason there: the event
  indexer, channel accounts, sessions and wallets, notifications and pure I/O, the frontend.

The lines mapped are a small share of the repository, and stay so when the plan is
carried out: more than half of the code is user interface, and most of the backend
validates and formats requests, queries for pages, sends mail, encodes contract calls and
logs. What remains, the code that decides a transfer or a status, is what is modelled.

## 6. Plan

1. Composition: price changes of `TokenSale` under `InvestmentFlow` (the booked token
   amount against the delivered one); purchases booked during `SettlementExecution`.
2. Proofs: what a settlement pays in fees, summed over its batches; safety parts of the
   liveness properties (what a fair step leads to).
3. `EventIndexer`: its cursor against the RPC's page limit and retention window.
4. The effects of single contract operations in the queue, and the retry endpoint of
   yield payments.
