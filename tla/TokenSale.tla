------------------------------ MODULE TokenSale ------------------------------
(***************************************************************************)
(* The token_sale contract: one offer that sells a security token for USDC *)
(* at a fixed price, with a flat fee on top, a deadline, a minimum, a cap  *)
(* per buyer and a block list.  A call that returns an error or traps is   *)
(* rolled back by the ledger, so an action is the successful call and its  *)
(* guard is the negation of every error of the code.                       *)
(* The two token contracts are external: a balance per account, a transfer *)
(* that traps when the sender is short.                                    *)
(***************************************************************************)
EXTENDS Integers, FiniteSets

CONSTANTS
  Accounts,      \* addresses outside the contract
  Sale,          \* the contract's own address
  Outsider,      \* an account that sends stray USDC and never trades
  Creator,       \* the admin named at create()
  Seller, Treasury, Company,
  Fee,           \* fixed_fee
  Deadline,      \* deadline_ledger, 0 for none
  MinBuy,        \* min_buy_amount, 0 for none
  MaxBuy,        \* max_buy_per_buyer, 0 for none
  Quotes,        \* the price pairs <<sell_price, buy_price>> the seller uses
  Purchases,     \* the buy_token amounts callers pass
  MaxI128,       \* largest integer of the contract's arithmetic
  Purse,         \* initial USDC of every account
  Inventory,     \* security tokens the company holds at the start
  LastLedger,    \* bound on the ledger sequence
  NoOne          \* no pending admin

ASSUME Addresses ==
  /\ Sale \notin Accounts /\ NoOne \notin Accounts
  /\ {Creator, Seller, Treasury, Company, Outsider} \subseteq Accounts

ASSUME Parameters ==
  /\ Fee \in Nat /\ Deadline \in Nat /\ MinBuy \in Nat /\ MaxBuy \in Nat
  /\ Purse \in [Accounts -> Nat] /\ Inventory \in Nat /\ LastLedger \in Nat /\ MaxI128 \in Nat
  /\ Purchases \subseteq Nat
  /\ Quotes \subseteq (Nat \X Nat)

Holders == Accounts \cup {Sale}
Buyers  == Accounts \ {Outsider}

VARIABLES
  created,       \* DataKey::Offer is set
  admin, active, quote,     \* the fields of Offer that calls change
  pendingAdmin,  \* DataKey::PendingAdmin
  spent,         \* DataKey::BuyerSpent, 0 when absent
  blocked,       \* the accounts with DataKey::BuyerBlocked
  seq,           \* the ledger sequence
  usdc, tok,     \* the ledgers of buy_token and sell_token
  paid           \* history: what each buyer has paid in for tokens, fees aside

contract == <<created, admin, active, quote, pendingAdmin, spent, blocked>>
vars == <<contract, seq, usdc, tok, paid>>

TypeOK ==
  /\ created \in BOOLEAN /\ active \in BOOLEAN
  /\ admin \in Accounts
  /\ pendingAdmin \in Accounts \cup {NoOne}
  /\ quote \in {q \in Quotes : q[1] # 0 /\ q[2] # 0} \cup {<<1, 1>>}
  /\ spent \in [Accounts -> Nat] /\ paid \in [Accounts -> Nat]
  /\ blocked \subseteq Accounts
  /\ seq \in 0..LastLedger
  /\ usdc \in [Holders -> Nat] /\ tok \in [Holders -> Nat]

Init ==
  /\ created = FALSE /\ active = FALSE
  /\ admin = Creator /\ pendingAdmin = NoOne /\ quote = <<1, 1>>
  /\ spent = [a \in Accounts |-> 0] /\ paid = [a \in Accounts |-> 0]
  /\ blocked = {}
  /\ seq = 0
  /\ usdc = [h \in Holders |-> IF h = Sale THEN 0 ELSE Purse[h]]
  /\ tok = [h \in Holders |-> IF h = Company THEN Inventory ELSE 0]

(***************************************************************************)
(* token::Client::transfer: traps when `from` is short, leaves the total   *)
(* unchanged, and is harmless when sender and receiver coincide.           *)
(***************************************************************************)
CanSend(ledger, from, n) == ledger[from] >= n
Transfer(ledger, from, to, n) ==
  [[ledger EXCEPT ![from] = @ - n] EXCEPT ![to] = @ + n]

\* Mutant: the division rounds up, so rounding favours the buyer.
RoundedUp(n, q) == (n * q[1] + q[2] - 1) \div q[2]

\* Tokens for a payment at a price: checked_mul, then a division that truncates.
TokensFor(n, q) == (n * q[1]) \div q[2]

create ==
  /\ ~created
  /\ \E q \in Quotes :
       /\ q[1] # 0 /\ q[2] # 0
       /\ quote' = q
  /\ created' = TRUE
  /\ active' = FALSE
  /\ UNCHANGED <<admin, pendingAdmin, spent, blocked, seq, usdc, tok, paid>>

NotExpired == Deadline = 0 \/ seq <= Deadline

\* A buyer's running total, kept only when the offer has a cap.
WithinCap(b, n) == MaxBuy = 0 \/ (spent[b] + n <= MaxI128 /\ spent[b] + n <= MaxBuy)

\* Mutant: the total is overwritten by the last trade.
ChargeLast(b, n) == IF MaxBuy = 0 THEN spent ELSE [spent EXCEPT ![b] = n]

Charge(b, n) == IF MaxBuy = 0 THEN spent ELSE [spent EXCEPT ![b] = @ + n]

\* Mutant: the fee is not pulled from the buyer.
PullWithoutFee(n) == n

\* The fee is additive: it comes on top of the investment.
TotalPull(n) == n + Fee

(***************************************************************************)
(* trade(buyer, n): the checks in the order of the code, then the four     *)
(* transfers, all or nothing.                                              *)
(***************************************************************************)
trade(b, n) ==
  LET out    == TokensFor(n, quote)
      pulled == Transfer(usdc, b, Sale, TotalPull(n))
      funded == Transfer(pulled, Sale, Company, n)
  IN
  /\ created
  /\ n > 0
  /\ active
  /\ NotExpired
  /\ MinBuy = 0 \/ n >= MinBuy
  /\ b \notin blocked
  /\ WithinCap(b, n)
  /\ n * quote[1] <= MaxI128
  /\ out > 0
  /\ TotalPull(n) <= MaxI128
  /\ CanSend(usdc, b, TotalPull(n))
  /\ CanSend(tok, Sale, out)
  /\ spent' = Charge(b, n)
  /\ usdc' = IF Fee > 0 THEN Transfer(funded, Sale, Treasury, Fee) ELSE funded
  /\ tok' = Transfer(tok, Sale, b, out)
  /\ paid' = [paid EXCEPT ![b] = @ + n]
  /\ UNCHANGED <<created, admin, active, quote, pendingAdmin, blocked, seq>>

\* withdraw(token, amount): either token, to the current admin.
withdraw(n) ==
  /\ created /\ n > 0
  /\ \/ /\ CanSend(usdc, Sale, n)
        /\ usdc' = Transfer(usdc, Sale, admin, n)
        /\ UNCHANGED tok
     \/ /\ CanSend(tok, Sale, n)
        /\ tok' = Transfer(tok, Sale, admin, n)
        /\ UNCHANGED usdc
  /\ UNCHANGED <<contract, seq, paid>>

emergency_drain ==
  /\ created
  /\ active' = FALSE
  /\ tok' = Transfer(tok, Sale, admin, tok[Sale])
  /\ UNCHANGED <<created, admin, quote, pendingAdmin, spent, blocked, seq, usdc, paid>>

set_active ==
  /\ created
  /\ active' \in BOOLEAN
  /\ UNCHANGED <<created, admin, quote, pendingAdmin, spent, blocked, seq, usdc, tok, paid>>

updt_price ==
  /\ created
  /\ quote' \in {q \in Quotes : q[1] # 0 /\ q[2] # 0}
  /\ UNCHANGED <<created, admin, active, pendingAdmin, spent, blocked, seq, usdc, tok, paid>>

propose_admin(a) ==
  /\ created
  /\ pendingAdmin' = a
  /\ UNCHANGED <<created, admin, active, quote, spent, blocked, seq, usdc, tok, paid>>

accept_admin ==
  /\ created
  /\ pendingAdmin # NoOne
  /\ admin' = pendingAdmin
  /\ pendingAdmin' = NoOne
  /\ UNCHANGED <<created, active, quote, spent, blocked, seq, usdc, tok, paid>>

freeze_buyer(b) ==
  /\ created
  /\ blocked' \in {blocked \cup {b}, blocked \ {b}}
  /\ UNCHANGED <<created, admin, active, quote, pendingAdmin, spent, seq, usdc, tok, paid>>

(***************************************************************************)
(* The surroundings: ledgers close, the company deposits tokens for sale,  *)
(* and anyone may send USDC to the contract's address.                     *)
(***************************************************************************)
LedgerCloses ==
  /\ seq < LastLedger
  /\ seq' = seq + 1
  /\ UNCHANGED <<contract, usdc, tok, paid>>

Deposit ==
  /\ created
  /\ tok[Company] > 0
  /\ tok' = Transfer(tok, Company, Sale, tok[Company])
  /\ UNCHANGED <<contract, seq, usdc, paid>>

StrayUsdc ==
  /\ CanSend(usdc, Outsider, 1)
  /\ usdc' = Transfer(usdc, Outsider, Sale, 1)
  /\ UNCHANGED <<contract, seq, tok, paid>>

Next ==
  \/ create
  \/ \E b \in Buyers, n \in Purchases : trade(b, n)
  \/ \E n \in Purchases : withdraw(n)
  \/ emergency_drain
  \/ set_active
  \/ updt_price
  \/ \E a \in Accounts : propose_admin(a)
  \/ accept_admin
  \/ \E b \in Buyers : freeze_buyer(b)
  \/ LedgerCloses
  \/ Deposit
  \/ StrayUsdc

Spec == Init /\ [][Next]_vars

-----------------------------------------------------------------------------
(***************************************************************************)
(* Properties                                                              *)
(***************************************************************************)

\* Under a cap, what a buyer has ever paid for tokens stays within it: over any
\* sequence of trades, freezes, price changes, pauses, drains and admin changes
\* the stored running total is the true total (trade's cap check).
CapHolds ==
  MaxBuy > 0 => \A b \in Accounts : spent[b] = paid[b] /\ paid[b] <= MaxBuy

\* Delivery versus payment, whoever the buyer is (the company, the treasury and
\* the admin may trade too): a step that takes USDC from a buyer raises its
\* payment record and hands it tokens worth at most what it paid at the quoted
\* price, and the truncation costs it less than one token.
PaidMeansDelivered ==
  [][\A b \in Buyers :
       /\ usdc'[b] < usdc[b] => paid'[b] > paid[b]
       /\ paid'[b] > paid[b] =>
            LET got == tok'[b] - tok[b]
                due == (paid'[b] - paid[b]) * quote[1]
            IN  got > 0 /\ got * quote[2] <= due /\ due < (got + 1) * quote[2]]_vars

\* The contract is a pass-through for USDC: a trade leaves nothing of a payment
\* behind and takes nothing from USDC already there, so only an outsider's
\* transfer or the admin's withdrawal moves the contract's USDC.
NoUsdcKept ==
  [][paid' # paid => usdc'[Sale] = usdc[Sale]]_vars

=============================================================================
