--------------------------- MODULE YieldDistributor ---------------------------
(***************************************************************************)
(* The yield_distributor contract: it pays one batch of investors and the  *)
(* platform's fee out of the company's wallet in a single call.  All it    *)
(* stores is who administers it and whether it is paused.                  *)
(***************************************************************************)
EXTENDS Integers, Sequences, FiniteSetsExt

CONSTANTS
  Accounts,      \* holders of USDC
  Payer,         \* the company's wallet
  Treasury,      \* fee_recipient
  Admins,        \* whom the admin role may be handed to
  Deployer,      \* the admin given to the constructor
  NoOne,         \* no pending admin
  MaxBatch,      \* MAX_BATCH_SIZE
  MaxI128,       \* the largest i128
  Purse          \* USDC of each account at the start

VARIABLES admin, pendingAdmin, paused, usdc

vars == <<admin, pendingAdmin, paused, usdc>>

TypeOK ==
  /\ admin \in Admins
  /\ pendingAdmin \in Admins \cup {NoOne}
  /\ paused \in BOOLEAN
  /\ usdc \in [Accounts -> Nat]

\* __constructor.
Init ==
  /\ admin = Deployer
  /\ pendingAdmin = NoOne
  /\ paused = FALSE
  /\ usdc = Purse

-----------------------------------------------------------------------------
\* recipients and amounts, zipped: a sequence of [to, amount].
PayoutOf(items, S) == MapThenSumSet(LAMBDA k : items[k].amount, S)

Payout(items) == PayoutOf(items, DOMAIN items)

To(account, items) == PayoutOf(items, {k \in DOMAIN items : items[k].to = account})

\* At most 70% of the payout; its product is an unchecked i128.
FeeAllowed(payout, fee) ==
  fee > 0 => payout * 7 <= MaxI128 /\ fee <= (payout * 7) \div 10

\* Every check of distribute, the payer's balance included.
Accepts(items, fee) ==
  /\ ~paused
  /\ Len(items) \in 1..MaxBatch
  /\ fee >= 0
  /\ \A k \in DOMAIN items : items[k].to # Payer /\ items[k].amount > 0
  /\ \A k, l \in DOMAIN items : items[k].to = items[l].to => k = l
  /\ Payout(items) <= MaxI128
  /\ FeeAllowed(Payout(items), fee)
  /\ Payout(items) + fee <= usdc[Payer]

Credit(account, items, fee) ==
  To(account, items) + (IF account = Treasury THEN fee ELSE 0)

distribute(items, fee) ==
  /\ Accepts(items, fee)
  /\ usdc' = [a \in Accounts |->
       usdc[a] + Credit(a, items, fee) - (IF a = Payer THEN Payout(items) + fee ELSE 0)]
  /\ UNCHANGED <<admin, pendingAdmin, paused>>

-----------------------------------------------------------------------------
pause  == paused' = TRUE  /\ UNCHANGED <<admin, pendingAdmin, usdc>>
resume == paused' = FALSE /\ UNCHANGED <<admin, pendingAdmin, usdc>>

set_admin(a) ==
  /\ admin' = a
  /\ pendingAdmin' = NoOne
  /\ UNCHANGED <<paused, usdc>>

propose_admin(a) ==
  /\ pendingAdmin' = a
  /\ UNCHANGED <<admin, paused, usdc>>

accept_admin ==
  /\ pendingAdmin # NoOne
  /\ admin' = pendingAdmin
  /\ pendingAdmin' = NoOne
  /\ UNCHANGED <<paused, usdc>>

\* The calls of the platform's admin.
Administer ==
  \/ pause
  \/ resume
  \/ \E a \in Admins : set_admin(a) \/ propose_admin(a)
  \/ accept_admin

=============================================================================
