-------------------------- MODULE MaturitySettlement --------------------------
(***************************************************************************)
(* The maturity_settlement contract: the company deposits USDC, the admin  *)
(* settles the investors of one offer in batches, each paid and stripped   *)
(* of its tokens in one step, with a capped fee to the treasury.  A failed *)
(* call is rolled back, so an action is a successful call.  Both tokens    *)
(* are external.  Deposits, withdrawals and refunds move USDC only.        *)
(***************************************************************************)
EXTENDS Integers, Sequences, FiniteSetsExt

CONSTANTS
  Accounts,      \* addresses outside the contract
  Contract,      \* the contract's own address
  Investors, Depositors,
  Admins,        \* the accounts the admin role may be proposed to
  Issuer,        \* Config.admin
  Treasury,
  MaxFeeBps,     \* Config.max_fee_bps, 0 for no cap
  Scale,         \* the 10_000 of the basis points
  MaxBatch,      \* MAX_BATCH_SIZE
  Payouts, Fees, Transfers,   \* the amounts callers pass
  Recipients,    \* the accounts withdrawals go to
  Purse,         \* initial USDC of every account
  Holding,       \* initial security tokens of every investor
  MaxI128,       \* largest integer of the contract's arithmetic
  Tradable,      \* the offer's tokens may change hands
  NoOne

ASSUME Addresses ==
  /\ Investors \subseteq Accounts /\ Depositors \subseteq Accounts /\ Admins \subseteq Accounts
  /\ Recipients \subseteq Accounts
  /\ Issuer \in Accounts /\ Treasury \in Accounts
  /\ Contract \notin Accounts /\ NoOne \notin Accounts

ASSUME Parameters ==
  /\ MaxFeeBps \in Nat /\ Scale \in Nat \ {0} /\ MaxBatch \in Nat /\ MaxI128 \in Nat
  /\ Payouts \subseteq Int /\ Fees \subseteq Int /\ Transfers \subseteq Int
  /\ Purse \in [Accounts -> Nat] /\ Holding \in [Investors -> Nat]
  /\ Tradable \in BOOLEAN

ASSUME Finite == IsFiniteSet(Investors) /\ IsFiniteSet(Depositors)

Holders == Accounts \cup {Contract}

VARIABLES
  initialized,   \* DataKey::Config is set
  override,      \* DataKey::Admin
  pendingAdmin,  \* DataKey::PendingAdmin
  paused,        \* DataKey::Paused
  deposits,      \* DataKey::Deposit, 0 when absent
  settled,       \* the investors with DataKey::InvestorSettled
  settledCount,  \* DataKey::SettledCount
  usdc,          \* the USDC ledger
  tok,           \* the security tokens of the investors
  received,      \* history: the payouts each investor got
  withdrawn      \* history: the admin has withdrawn USDC

admins == <<initialized, override, pendingAdmin, paused>>
money  == <<deposits, usdc, received, withdrawn>>
vars   == <<admins, deposits, settled, settledCount, usdc, tok, received, withdrawn>>

TypeOK ==
  /\ initialized \in BOOLEAN /\ paused \in BOOLEAN /\ withdrawn \in BOOLEAN
  /\ override \in Accounts \cup {NoOne} /\ pendingAdmin \in Accounts \cup {NoOne}
  /\ deposits \in [Depositors -> Nat]
  /\ settled \subseteq Investors /\ settledCount \in Nat
  /\ usdc \in [Holders -> Nat] /\ tok \in [Investors -> Nat]
  /\ received \in [Investors -> Nat]

Init ==
  /\ initialized = FALSE /\ paused = FALSE /\ withdrawn = FALSE
  /\ override = NoOne /\ pendingAdmin = NoOne
  /\ deposits = [d \in Depositors |-> 0]
  /\ settled = {} /\ settledCount = 0
  /\ usdc = [h \in Holders |-> IF h = Contract THEN 0 ELSE Purse[h]]
  /\ tok = Holding
  /\ received = [i \in Investors |-> 0]

initialize ==
  /\ ~initialized
  /\ initialized' = TRUE
  /\ UNCHANGED <<override, pendingAdmin, paused, settled, settledCount, tok, money>>

-----------------------------------------------------------------------------
CanSend(from, n) == usdc[from] >= n
Transfer(from, to, n) == [[usdc EXCEPT ![from] = @ - n] EXCEPT ![to] = @ + n]

deposit(d, n) ==
  /\ initialized /\ ~paused
  /\ n > 0
  /\ CanSend(d, n)
  /\ deposits[d] + n <= MaxI128
  /\ usdc' = Transfer(d, Contract, n)
  /\ deposits' = [deposits EXCEPT ![d] = @ + n]
  /\ UNCHANGED <<admins, settled, settledCount, tok, received, withdrawn>>

-----------------------------------------------------------------------------
\* The items of a batch: a sequence of [investor, payout].
Named(items)       == {items[k].investor : k \in DOMAIN items}
PayoutOf(items, i) == items[CHOOSE k \in DOMAIN items : items[k].investor = i].payout
Total(items)       == MapThenSumSet(LAMBDA k : items[k].payout, DOMAIN items)

\* Mutant: the same investor may appear twice in a batch.
Repeatable(items) == TRUE

\* Within-batch dedup.
Distinct(items) ==
  \A j, k \in DOMAIN items : items[j].investor = items[k].investor => j = k

\* Mutant: no cross-batch dedup.
FreshAnyway(items) == TRUE

\* Cross-batch dedup.
Fresh(items) == Named(items) \cap settled = {}

\* An investor without tokens is not paid.
NoPhantom(items) ==
  \A k \in DOMAIN items : items[k].payout > 0 => tok[items[k].investor] > 0

\* Mutant: the cap rounds up.
FeeRoundedUp(items, fee) ==
  fee > 0 /\ MaxFeeBps > 0 /\ Total(items) > 0 =>
    fee <= (Total(items) * MaxFeeBps + Scale - 1) \div Scale

\* The fee cap, applied when there is a fee, a cap and a payout.
FeeAllowed(items, fee) ==
  fee > 0 /\ MaxFeeBps > 0 /\ Total(items) > 0 =>
    /\ Total(items) * MaxFeeBps <= MaxI128
    /\ fee <= (Total(items) * MaxFeeBps) \div Scale

Signed(items, fee) == fee >= 0 /\ \A k \in DOMAIN items : items[k].payout >= 0

\* The transfers out of the contract trap unless it holds all of it.
Covered(items, fee) == Total(items) + fee \in 0..usdc[Contract]

\* What settle_batch validates, apart from the caller.
Accepts(items, fee) ==
  /\ initialized /\ ~paused
  /\ Len(items) \in 1..MaxBatch
  /\ Signed(items, fee)
  /\ Distinct(items) /\ Fresh(items) /\ NoPhantom(items)
  /\ FeeAllowed(items, fee)
  /\ Covered(items, fee)

\* The payouts of a batch, the clawback of all tokens of its investors, and the fee.
settle_batch(items, fee) ==
  /\ Accepts(items, fee)
  /\ settled' = settled \cup Named(items)
  /\ settledCount' = settledCount + Len(items)
  /\ received' = [i \in Investors |->
       IF i \in Named(items) THEN received[i] + PayoutOf(items, i) ELSE received[i]]
  /\ tok' = [i \in Investors |-> IF i \in Named(items) THEN 0 ELSE tok[i]]
  /\ usdc' = [h \in Holders |->
       IF h = Contract THEN usdc[h] - (Total(items) + fee)
       ELSE usdc[h] + (IF h \in Named(items) THEN PayoutOf(items, h) ELSE 0)
                    + (IF h = Treasury THEN fee ELSE 0)]
  /\ UNCHANGED <<admins, deposits, withdrawn>>

-----------------------------------------------------------------------------
\* Emergency recovery, to anyone; the deposit records stay as they are.
withdraw(to, n) ==
  /\ initialized /\ ~paused
  /\ n > 0
  /\ CanSend(Contract, n)
  /\ usdc' = Transfer(Contract, to, n)
  /\ withdrawn' = TRUE
  /\ UNCHANGED <<admins, deposits, settled, settledCount, tok, received>>

\* Mutant: the deposit record is not cleared.
RefundKeepsRecord(d) ==
  /\ initialized /\ ~paused
  /\ settledCount = 0
  /\ deposits[d] > 0
  /\ CanSend(Contract, deposits[d])
  /\ usdc' = Transfer(Contract, d, deposits[d])
  /\ UNCHANGED <<admins, deposits, settled, settledCount, tok, received, withdrawn>>

refund(d) ==
  /\ initialized /\ ~paused
  /\ settledCount = 0
  /\ deposits[d] > 0
  /\ CanSend(Contract, deposits[d])
  /\ usdc' = Transfer(Contract, d, deposits[d])
  /\ deposits' = [deposits EXCEPT ![d] = 0]
  /\ UNCHANGED <<admins, settled, settledCount, tok, received, withdrawn>>

-----------------------------------------------------------------------------
pause ==
  /\ initialized
  /\ paused' = TRUE
  /\ UNCHANGED <<initialized, override, pendingAdmin, settled, settledCount, tok, money>>

resume ==
  /\ initialized
  /\ paused' = FALSE
  /\ UNCHANGED <<initialized, override, pendingAdmin, settled, settledCount, tok, money>>

propose_admin(a) ==
  /\ initialized
  /\ pendingAdmin' = a
  /\ UNCHANGED <<initialized, override, paused, settled, settledCount, tok, money>>

accept_admin ==
  /\ pendingAdmin # NoOne
  /\ override' = pendingAdmin
  /\ pendingAdmin' = NoOne
  /\ UNCHANGED <<initialized, paused, settled, settledCount, tok, money>>

-----------------------------------------------------------------------------
\* The token's own rules: an investor may pass tokens on when the offer allows it.
MoveTokens ==
  /\ Tradable
  /\ \E i, j \in Investors :
       /\ i # j /\ tok[i] > 0
       /\ tok' = [tok EXCEPT ![i] = @ - 1, ![j] = @ + 1]
  /\ UNCHANGED <<admins, settled, settledCount, money>>

Batches == UNION {[1..n -> [investor : Investors, payout : Payouts]] : n \in 1..MaxBatch}

Next ==
  \/ initialize
  \/ \E d \in Depositors, n \in Transfers : deposit(d, n)
  \/ \E items \in Batches, fee \in Fees : settle_batch(items, fee)
  \/ \E to \in Recipients, n \in Transfers : withdraw(to, n)
  \/ \E d \in Depositors : refund(d)
  \/ pause
  \/ resume
  \/ \E a \in Admins : propose_admin(a)
  \/ accept_admin
  \/ MoveTokens

Spec == Init /\ [][Next]_vars

-----------------------------------------------------------------------------
(***************************************************************************)
(* Properties                                                              *)
(***************************************************************************)

\* The promise to investors: over any batches, in any order and with tokens that
\* move between investors, each is settled once and paid only as its tokens burn.
Promise == INSTANCE SettleOnce WITH holding <- tok
SettlesOnce == Promise!Spec

\* The counter refund() is guarded by counts the settled investors.
CountMatches == settledCount = Cardinality(settled)

\* Until a withdrawal or a settlement the contract can refund every depositor:
\* deposits and refunds of several depositors, in any order, keep it covered.
DepositsBacked ==
  ~withdrawn /\ settled = {} =>
    MapThenSumSet(LAMBDA d : deposits[d], Depositors) <= usdc[Contract]

\* What a batch takes from the contract beyond the payouts stays within the cap
\* when the batch pays anything.
FeeCapped ==
  [][settled' # settled /\ MaxFeeBps > 0 =>
       LET paidOut == MapThenSumSet(LAMBDA i : received'[i] - received[i], Investors)
           fee     == usdc[Contract] - usdc'[Contract] - paidOut
       IN  paidOut > 0 => fee * Scale <= paidOut * MaxFeeBps]_vars

=============================================================================
