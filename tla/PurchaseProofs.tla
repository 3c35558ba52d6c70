---------------------------- MODULE PurchaseProofs ----------------------------
(***************************************************************************)
(* Proofs about buying tokens: the contract that sells them (TokenSale),   *)
(* and the service in front of it (InvestmentFlow).                        *)
(*                                                                         *)
(* TokenSale, for any accounts, prices, fee, cap and inventory.            *)
(*                                                                         *)
(* TypeOK /\ CapHolds is inductive: the running total equals the history   *)
(* because trade is the only writer of both.  The two action properties    *)
(* need only the types, the algebra of Transfer and the algebra of the     *)
(* truncating division.                                                    *)
(***************************************************************************)
EXTENDS TokenSale, InvestmentFlow, TLAPS

IInv == TypeOK /\ CapHolds

-----------------------------------------------------------------------------
\* Division truncates: the quotient falls short by less than one unit.
LEMMA DivFacts ==
  ASSUME NEW a \in Nat, NEW d \in Nat \ {0}
  PROVE  /\ a \div d \in Nat
         /\ (a \div d) * d <= a
         /\ a < ((a \div d) + 1) * d
<1>1. a = d * (a \div d) + (a % d) /\ a % d \in 0..(d - 1) /\ a \div d \in Int
  OBVIOUS
<1>2. QED
  BY <1>1

\* A transfer moves n from one account to the other, or nothing when they coincide,
\* and overdraws nobody.
LEMMA TransferFacts ==
  ASSUME NEW book \in [Holders -> Nat], NEW from \in Holders, NEW to \in Holders,
         NEW n \in Nat, CanSend(book, from, n)
  PROVE  /\ Transfer(book, from, to, n) \in [Holders -> Nat]
         /\ \A h \in Holders : h \notin {from, to} => Transfer(book, from, to, n)[h] = book[h]
         /\ from = to => Transfer(book, from, to, n)[from] = book[from]
         /\ from # to => /\ Transfer(book, from, to, n)[from] = book[from] - n
                         /\ Transfer(book, from, to, n)[to] = book[to] + n
  BY DEF Transfer, CanSend

\* The parties of a trade are holders other than the contract.
LEMMA Parties ==
  /\ Sale \in Holders /\ Company \in Holders /\ Treasury \in Holders /\ Outsider \in Holders
  /\ Company # Sale /\ Treasury # Sale
  /\ \A b \in Accounts : b \in Holders /\ b # Sale
  BY Addresses DEF Holders

\* A price in force has no zero part.
LEMMA PositiveQuote ==
  ASSUME TypeOK
  PROVE  quote[1] \in Nat /\ quote[2] \in Nat \ {0}
  BY Parameters DEF TypeOK

-----------------------------------------------------------------------------
\* What a trade of n by b does: b pays n and the fee to the company and the
\* treasury through the contract, which keeps what it had, and gets its tokens.
LEMMA TradeEffect ==
  ASSUME TypeOK, NEW b \in Buyers, NEW n \in Purchases, trade(b, n)
  PROVE  /\ usdc' \in [Holders -> Nat] /\ tok' \in [Holders -> Nat]
         /\ usdc'[Sale] = usdc[Sale]
         /\ \A c \in Accounts \ {b} : usdc'[c] >= usdc[c]
         /\ TokensFor(n, quote) \in Nat \ {0}
         /\ tok'[b] = tok[b] + TokensFor(n, quote)
<1> DEFINE out    == TokensFor(n, quote)
           pulled == Transfer(usdc, b, Sale, TotalPull(n))
           funded == Transfer(pulled, Sale, Company, n)
<1>1. n \in Nat /\ n > 0 /\ Fee \in Nat /\ TotalPull(n) = n + Fee /\ b \in Accounts
  BY Parameters DEF trade, TotalPull, Buyers
<1>2. usdc \in [Holders -> Nat] /\ tok \in [Holders -> Nat]
  BY DEF TypeOK
<1>3. out \in Nat \ {0}
  <2>1. quote[1] \in Nat /\ quote[2] \in Nat \ {0}
    BY PositiveQuote
  <2>2. n * quote[1] \in Nat
    BY <1>1, <2>1
  <2>3. out \in Nat
    BY <2>1, <2>2, DivFacts DEF TokensFor
  <2>4. out > 0
    BY DEF trade
  <2>5. QED
    BY <2>3, <2>4
<1>4. /\ tok' = Transfer(tok, Sale, b, out) /\ CanSend(tok, Sale, out)
      /\ CanSend(usdc, b, TotalPull(n))
      /\ usdc' = IF Fee > 0 THEN Transfer(funded, Sale, Treasury, Fee) ELSE funded
  BY DEF trade
<1>5. tok' \in [Holders -> Nat] /\ tok'[b] = tok[b] + out
  BY <1>1, <1>2, <1>3, <1>4, Parties, TransferFacts
<1>6. /\ pulled \in [Holders -> Nat]
      /\ pulled[Sale] = usdc[Sale] + n + Fee
      /\ \A c \in Accounts \ {b} : pulled[c] = usdc[c]
  <2>1. b \in Holders /\ Sale \in Holders /\ b # Sale /\ TotalPull(n) \in Nat
        /\ \A c \in Accounts : c \in Holders /\ c # Sale
    BY <1>1, Parties
  <2> HIDE DEF out, funded
  <2>2. /\ pulled \in [Holders -> Nat]
        /\ pulled[Sale] = usdc[Sale] + TotalPull(n)
        /\ \A c \in Holders \ {b, Sale} : pulled[c] = usdc[c]
    BY <1>2, <1>4, <2>1, TransferFacts
  <2>3. QED
    BY <1>1, <1>2, <2>1, <2>2
<1>7. CanSend(pulled, Sale, n)
  BY <1>1, <1>2, <1>6, Parties DEF CanSend
<1> HIDE DEF pulled
<1>8. /\ funded \in [Holders -> Nat]
      /\ funded[Sale] = usdc[Sale] + Fee
      /\ \A c \in Accounts \ {b} : funded[c] >= usdc[c]
  <2>1. funded \in [Holders -> Nat] /\ funded[Sale] = pulled[Sale] - n
    BY <1>1, <1>6, <1>7, Parties, TransferFacts
  <2>2. \A c \in Accounts \ {b} : funded[c] >= pulled[c]
    BY <1>1, <1>6, <1>7, Parties, TransferFacts
  <2>3. QED
    BY <1>1, <1>2, <1>6, <2>1, <2>2, Parties
<1>9. CanSend(funded, Sale, Fee)
  BY <1>1, <1>2, <1>8, Parties DEF CanSend
<1> HIDE DEF funded
<1>10. /\ usdc' \in [Holders -> Nat]
       /\ usdc'[Sale] = usdc[Sale]
       /\ \A c \in Accounts \ {b} : usdc'[c] >= usdc[c]
  <2>1. CASE Fee > 0
    <3>1. /\ usdc' = Transfer(funded, Sale, Treasury, Fee)
      BY <1>4, <2>1
    <3>2. /\ usdc' \in [Holders -> Nat] /\ usdc'[Sale] = funded[Sale] - Fee
          /\ \A c \in Accounts \ {b} : usdc'[c] >= funded[c]
      BY <1>1, <1>8, <1>9, <3>1, Parties, TransferFacts
    <3>3. QED
      BY <1>1, <1>2, <1>8, <3>2, Parties
  <2>2. CASE Fee = 0
    BY <1>2, <1>4, <1>8, <2>2, Parties
  <2>3. QED
    BY <1>1, <2>1, <2>2
<1>11. QED
  BY <1>3, <1>5, <1>10

\* A withdrawal takes USDC from no account but the contract's.
LEMMA WithdrawEffect ==
  ASSUME TypeOK, NEW n \in Purchases, withdraw(n)
  PROVE  /\ usdc' \in [Holders -> Nat] /\ tok' \in [Holders -> Nat]
         /\ \A c \in Accounts : usdc'[c] >= usdc[c]
<1>1. /\ n \in Nat /\ admin \in Holders /\ admin # Sale /\ Sale \in Holders
      /\ usdc \in [Holders -> Nat] /\ tok \in [Holders -> Nat]
      /\ \A c \in Accounts : c \in Holders /\ c # Sale
  BY Parties, Parameters DEF TypeOK
<1>2. CASE /\ CanSend(usdc, Sale, n) /\ usdc' = Transfer(usdc, Sale, admin, n) /\ tok' = tok
  <2>1. /\ usdc' \in [Holders -> Nat] /\ usdc'[admin] = usdc[admin] + n
        /\ \A c \in Accounts \ {admin} : usdc'[c] = usdc[c]
    BY <1>1, <1>2, TransferFacts
  <2>2. QED
    BY <1>1, <1>2, <2>1
<1>3. CASE /\ CanSend(tok, Sale, n) /\ tok' = Transfer(tok, Sale, admin, n) /\ usdc' = usdc
  BY <1>1, <1>3, TransferFacts
<1>4. QED
  BY <1>2, <1>3 DEF withdraw

-----------------------------------------------------------------------------
\* Before create() there is nothing to break.
LEMMA InitInv == Init => IInv
<1> SUFFICES ASSUME Init PROVE IInv
  OBVIOUS
<1> USE Addresses, Parameters DEF Init
<1>1. usdc \in [Holders -> Nat]
  BY DEF Holders
<1>2. tok \in [Holders -> Nat]
  OBVIOUS
<1>3. TypeOK
  <2>1. quote \in {q \in Quotes : q[1] # 0 /\ q[2] # 0} \cup {<<1, 1>>}
    OBVIOUS
  <2>2. /\ spent \in [Accounts -> Nat] /\ paid \in [Accounts -> Nat]
        /\ seq \in 0..LastLedger
    OBVIOUS
  <2>3. created \in BOOLEAN /\ active \in BOOLEAN
    OBVIOUS
  <2>4. blocked \subseteq Accounts
    OBVIOUS
  <2>5. admin \in Accounts /\ pendingAdmin \in Accounts \cup {NoOne}
    OBVIOUS
  <2>6. QED
    BY <1>1, <1>2, <2>1, <2>2, <2>3, <2>4, <2>5 DEF TypeOK
<1>4. CapHolds
  BY DEF CapHolds
<1>5. QED
  BY <1>3, <1>4 DEF IInv

\* Every call and every step of the surroundings keeps the invariant.
LEMMA NextInv == IInv /\ [Next]_vars => IInv'
<1> SUFFICES ASSUME IInv, [Next]_vars PROVE IInv'
  OBVIOUS
<1>0. TypeOK /\ CapHolds
  BY DEF IInv
<1> USE Addresses, Parameters DEF IInv, contract
<1>1. CASE create
  BY <1>0, <1>1 DEF create, TypeOK, CapHolds
<1>2. ASSUME NEW b \in Buyers, NEW n \in Purchases, trade(b, n) PROVE IInv'
  <2>1. b \in Accounts /\ n \in Nat
    BY DEF Buyers
  <2>2. usdc' \in [Holders -> Nat] /\ tok' \in [Holders -> Nat]
    BY <1>0, <1>2, TradeEffect
  <2>3. TypeOK'
    BY <1>0, <1>2, <2>1, <2>2 DEF trade, Charge, TypeOK
  <2>4. ASSUME MaxBuy > 0 PROVE spent[b] + n <= MaxBuy
    BY <1>2, <2>4 DEF trade, WithinCap
  <2>5. CapHolds'
    BY <1>0, <1>2, <2>1, <2>4 DEF trade, Charge, TypeOK, CapHolds
  <2>6. QED
    BY <2>3, <2>5
<1>3. ASSUME NEW n \in Purchases, withdraw(n) PROVE IInv'
  <2>1. usdc' \in [Holders -> Nat] /\ tok' \in [Holders -> Nat]
    BY <1>0, <1>3, WithdrawEffect
  <2>2. QED
    BY <1>0, <1>3, <2>1 DEF withdraw, TypeOK, CapHolds
<1>4. CASE emergency_drain
  <2>1. /\ admin \in Holders /\ Sale \in Holders /\ tok \in [Holders -> Nat]
        /\ tok[Sale] \in Nat /\ CanSend(tok, Sale, tok[Sale])
    BY <1>0, Parties DEF TypeOK, CanSend
  <2>2. tok' \in [Holders -> Nat]
    BY <1>4, <2>1, TransferFacts DEF emergency_drain
  <2>3. QED
    BY <1>0, <1>4, <2>2 DEF emergency_drain, TypeOK, CapHolds
<1>5. CASE set_active
  BY <1>0, <1>5 DEF set_active, TypeOK, CapHolds
<1>6. CASE updt_price
  BY <1>0, <1>6 DEF updt_price, TypeOK, CapHolds
<1>7. ASSUME NEW a \in Accounts, propose_admin(a) PROVE IInv'
  BY <1>0, <1>7 DEF propose_admin, TypeOK, CapHolds
<1>8. CASE accept_admin
  BY <1>0, <1>8 DEF accept_admin, TypeOK, CapHolds
<1>9. ASSUME NEW b \in Buyers, freeze_buyer(b) PROVE IInv'
  BY <1>0, <1>9 DEF freeze_buyer, TypeOK, CapHolds, Buyers
<1>10. CASE LedgerCloses
  BY <1>0, <1>10 DEF LedgerCloses, TypeOK, CapHolds
<1>11. CASE Deposit
  <2>1. /\ Company \in Holders /\ Sale \in Holders /\ tok \in [Holders -> Nat]
        /\ tok[Company] \in Nat /\ CanSend(tok, Company, tok[Company])
    BY <1>0, Parties DEF TypeOK, CanSend
  <2>2. tok' \in [Holders -> Nat]
    BY <1>11, <2>1, TransferFacts DEF Deposit
  <2>3. QED
    BY <1>0, <1>11, <2>2 DEF Deposit, TypeOK, CapHolds
<1>12. CASE StrayUsdc
  <2>1. usdc' \in [Holders -> Nat]
    BY <1>0, <1>12, Parties, TransferFacts DEF StrayUsdc, TypeOK
  <2>2. QED
    BY <1>0, <1>12, <2>1 DEF StrayUsdc, TypeOK, CapHolds
<1>13. CASE UNCHANGED vars
  BY <1>0, <1>13 DEF vars, TypeOK, CapHolds
<1>14. QED
  BY <1>1, <1>2, <1>3, <1>4, <1>5, <1>6, <1>7, <1>8, <1>9, <1>10, <1>11, <1>12, <1>13 DEF Next

\* The inductive invariant holds in every reachable state.
THEOREM Invariance == Spec => []IInv
  BY InitInv, NextInv, PTL DEF Spec

\* Type correctness of the contract: balances and totals stay non-negative.
THEOREM TypeCorrect == Spec => []TypeOK
<1>1. IInv => TypeOK
  BY DEF IInv
<1>2. QED
  BY <1>1, Invariance, PTL

\* No history of calls lets a buyer pay more than the cap.
THEOREM CapIsNeverExceeded == Spec => []CapHolds
<1>1. IInv => CapHolds
  BY DEF IInv
<1>2. QED
  BY <1>1, Invariance, PTL

-----------------------------------------------------------------------------
\* A step other than a trade takes USDC from no buyer and leaves its record alone.
LEMMA OnlyTradesCharge ==
  ASSUME TypeOK, Next, \A b \in Buyers, n \in Purchases : ~trade(b, n)
  PROVE  paid' = paid /\ \A b \in Buyers : ~(usdc'[b] < usdc[b])
<1> USE Addresses, Parameters DEF Buyers
<1>0. usdc \in [Holders -> Nat] /\ Buyers \subseteq Holders
  BY Parties DEF TypeOK
<1>1. CASE usdc' = usdc /\ paid' = paid
  BY <1>0, <1>1
<1>2. CASE StrayUsdc
  <2>1. usdc' \in [Holders -> Nat] /\ \A b \in Buyers : usdc'[b] = usdc[b]
    BY <1>0, <1>2, Parties, TransferFacts DEF StrayUsdc
  <2>2. QED
    BY <1>0, <1>2, <2>1 DEF StrayUsdc
<1>3. ASSUME NEW n \in Purchases, withdraw(n)
      PROVE paid' = paid /\ \A b \in Buyers : ~(usdc'[b] < usdc[b])
  <2>1. usdc' \in [Holders -> Nat] /\ \A b \in Accounts : usdc'[b] >= usdc[b]
    BY <1>3, WithdrawEffect
  <2>2. QED
    BY <1>0, <1>3, <2>1 DEF withdraw
<1>4. CASE \/ create \/ emergency_drain \/ set_active \/ updt_price \/ accept_admin
           \/ LedgerCloses \/ Deposit
           \/ \E a \in Accounts : propose_admin(a)
           \/ \E b \in Buyers : freeze_buyer(b)
  BY <1>1, <1>4 DEF create, emergency_drain, set_active, updt_price, accept_admin,
       LedgerCloses, Deposit, propose_admin, freeze_buyer
<1>5. QED
  BY <1>2, <1>3, <1>4 DEF Next

\* Delivery versus payment for every step.
LEMMA DeliveryStep ==
  ASSUME TypeOK, [Next]_vars, NEW c \in Buyers
  PROVE  /\ usdc'[c] < usdc[c] => paid'[c] > paid[c]
         /\ paid'[c] > paid[c] =>
              LET got == tok'[c] - tok[c]
                  due == (paid'[c] - paid[c]) * quote[1]
              IN  got > 0 /\ got * quote[2] <= due /\ due < (got + 1) * quote[2]
<1>1. /\ paid[c] \in Nat /\ usdc[c] \in Nat /\ tok[c] \in Nat /\ c \in Accounts
      /\ usdc \in [Holders -> Nat] /\ paid \in [Accounts -> Nat]
  BY Parties DEF TypeOK, Buyers
<1>2. CASE UNCHANGED vars
  BY <1>1, <1>2 DEF vars
<1>3. CASE Next /\ \A b \in Buyers, n \in Purchases : ~trade(b, n)
  BY <1>1, <1>3, OnlyTradesCharge
<1>4. ASSUME NEW b \in Buyers, NEW n \in Purchases, trade(b, n), b # c
      PROVE paid'[c] = paid[c] /\ usdc'[c] >= usdc[c] /\ usdc'[c] \in Nat
  BY <1>1, <1>4, TradeEffect, Parties DEF trade
<1>5. ASSUME NEW n \in Purchases, trade(c, n)
      PROVE  LET got == tok'[c] - tok[c]
                 due == (paid'[c] - paid[c]) * quote[1]
             IN  /\ paid'[c] > paid[c]
                 /\ got > 0 /\ got * quote[2] <= due /\ due < (got + 1) * quote[2]
  <2>1. n \in Nat /\ n > 0 /\ paid'[c] = paid[c] + n
    BY <1>1, <1>5, Parameters DEF trade
  <2>2. /\ TokensFor(n, quote) \in Nat \ {0}
        /\ tok'[c] = tok[c] + TokensFor(n, quote)
    BY <1>5, TradeEffect
  <2>3. quote[1] \in Nat /\ quote[2] \in Nat \ {0} /\ n * quote[1] \in Nat
    BY <2>1, PositiveQuote
  <2>4. /\ TokensFor(n, quote) * quote[2] <= n * quote[1]
        /\ n * quote[1] < (TokensFor(n, quote) + 1) * quote[2]
    BY <2>3, DivFacts DEF TokensFor
  <2>5. paid'[c] - paid[c] = n /\ tok'[c] - tok[c] = TokensFor(n, quote)
    BY <1>1, <2>1, <2>2
  <2>6. QED
    BY <1>1, <2>1, <2>2, <2>4, <2>5
<1>6. QED
  BY <1>1, <1>2, <1>3, <1>4, <1>5

\* Whoever pays gets tokens worth at most the payment and short of it by less than one.
THEOREM DeliveryVersusPayment == Spec => PaidMeansDelivered
<1>1. TypeOK /\ [Next]_vars =>
        [\A b \in Buyers :
           /\ usdc'[b] < usdc[b] => paid'[b] > paid[b]
           /\ paid'[b] > paid[b] =>
                LET got == tok'[b] - tok[b]
                    due == (paid'[b] - paid[b]) * quote[1]
                IN  got > 0 /\ got * quote[2] <= due /\ due < (got + 1) * quote[2]]_vars
  BY DeliveryStep
<1>2. QED
  BY <1>1, TypeCorrect, PTL DEF Spec, PaidMeansDelivered

\* A trade passes USDC through the contract and leaves none of it behind.
THEOREM PassThrough == Spec => NoUsdcKept
<1>1. TypeOK /\ [Next]_vars => [paid' # paid => usdc'[Sale] = usdc[Sale]]_vars
  <2> SUFFICES ASSUME TypeOK, Next, paid' # paid PROVE usdc'[Sale] = usdc[Sale]
    OBVIOUS
  <2>1. PICK b \in Buyers, n \in Purchases : trade(b, n)
    BY OnlyTradesCharge
  <2>2. QED
    BY <2>1, TradeEffect
<1>2. QED
  BY <1>1, TypeCorrect, PTL DEF Spec, NoUsdcKept

-----------------------------------------------------------------------------
(***************************************************************************)
(* InvestmentFlow, for any number of investors, intents, requests and      *)
(* restarts.  The properties relate a row's status to the ledger, so the   *)
(* inductive invariant says where a row and its transaction can be at each *)
(* stage of the handler (Stages), what the reconciler's remembered answer  *)
(* implies by the time it is used (Remembered), and that a landed trade    *)
(* used its intent up (NonceUsed, OneTradePerIntent).                      *)
(***************************************************************************)

Anchored == {"trade_submitted", "distributed", "failed"}
Unsent   == {"built", "expired"}

Stages ==
  \A r \in Requests :
    /\ pc[r] \in {"idle", "guard", "offer", "rebuild", "idempotent"}
         => status[r] = "absent" /\ tx[r] = "none"
    /\ pc[r] = "insert" => status[r] = "absent" /\ tx[r] \in Unsent
    /\ pc[r] = "anchor" => status[r] = "pending_payment" /\ tx[r] \in Unsent
    /\ pc[r] = "broadcast" => status[r] \in Anchored /\ tx[r] \in Unsent
    /\ pc[r] = "await" => status[r] \in Anchored

Remembered ==
  /\ \A r \in todo : status[r] \in Anchored
  /\ current # None => status[current] \in Anchored
  /\ answer = "SUCCESS" => current # None /\ tx[current] = "success"
  /\ answer = "FAILED"  => current # None /\ tx[current] = "failed"
  /\ answer = "GONE"    => current # None /\ tx[current] = "expired"
  /\ current # None => answer # "none"

NonceUsed == \A r \in Requests : tx[r] = "success" => of[r] \in consumed

OneTradePerIntent ==
  \A r, s \in Requests : tx[r] = "success" /\ tx[s] = "success" /\ r # s => of[r] # of[s]

BookedLanded == \A r \in Requests : status[r] = "distributed" => tx[r] = "success"

FlowInv ==
  /\ FlowTypeOK
  /\ Stages
  /\ Remembered
  /\ NonceUsed
  /\ OneTradePerIntent
  /\ BookedLanded
  /\ OneInFlight
  /\ BroadcastIsAnchored
  /\ CompletedStaysBooked

USE DEF InFlight, Live, Replied, Anchored, Unsent

\* Initially nothing is in flight.
LEMMA FlowInitInv == FlowInit => FlowInv
  BY Constants DEF FlowInit, FlowInv, FlowTypeOK, Stages, Remembered, NonceUsed, OneTradePerIntent,
       BookedLanded, OneInFlight, BroadcastIsAnchored, CompletedStaysBooked, Buyer

\* Whoever is past the start of a request names an intent with a positive amount.
LEMMA IntentFacts ==
  ASSUME FlowTypeOK, NEW r \in Requests, pc[r] # "idle"
  PROVE  of[r] \in Intents /\ intent[of[r]].amt \in Nat \ {0}
<1>1. of[r] \in Intents /\ intent[of[r]] \in [by : Investors, amt : Amounts]
  BY DEF FlowTypeOK
<1>2. QED
  BY <1>1, Constants

\* A row is inserted only where no row of its investor is in flight, or not at all.
LEMMA InsertStep ==
  ASSUME FlowInv, NEW r \in Requests, Insert(r)
  PROVE  FlowInv'
<1>1. pc[r] = "insert" /\ status[r] = "absent" /\ tx[r] \in Unsent
  BY DEF Insert, FlowInv, Stages
<1>2. /\ UNCHANGED <<intent, of, offerOpen, distribution, ledger, reconciler, restarts>>
      /\ Buyer(r)' = Buyer(r)
  BY DEF Insert, Buyer
<1>3. FlowTypeOK' /\ Stages'
  BY <1>1 DEF Insert, Goto, FlowInv, FlowTypeOK, Stages, ledger, reconciler
<1>4. Remembered' /\ NonceUsed' /\ OneTradePerIntent' /\ BookedLanded'
  BY <1>1 DEF Insert, FlowInv, FlowTypeOK, Remembered, NonceUsed, OneTradePerIntent, BookedLanded,
       ledger, reconciler
<1>5. BroadcastIsAnchored' /\ CompletedStaysBooked'
  BY <1>1 DEF Insert, Goto, FlowInv, FlowTypeOK, BroadcastIsAnchored, CompletedStaysBooked, ledger
<1>6. OneInFlight'
  <2>1. CASE /\ \A s \in RowsOf(Buyer(r)) : status[s] \notin InFlight
             /\ status' = [status EXCEPT ![r] = "pending_payment"]
    <3>1. \A s \in Requests : s # r /\ status[s] \in InFlight => Buyer(s) # Buyer(r)
      BY <2>1 DEF RowsOf, Buyer
    <3>2. QED
      BY <2>1, <3>1, <1>2 DEF FlowInv, FlowTypeOK, OneInFlight, Buyer
  <2>2. CASE UNCHANGED status
    BY <2>2, <1>2 DEF FlowInv, OneInFlight, Buyer
  <2>3. QED
    BY <2>1, <2>2 DEF Insert
<1>7. QED
  BY <1>3, <1>4, <1>5, <1>6 DEF FlowInv

\* A trade lands: it uses its intent up, and takes no more than is left.
LEMMA LandStep ==
  ASSUME FlowInv, NEW r \in Requests, Land(r)
  PROVE  FlowInv'
<1>1. status[r] \in Anchored /\ pc[r] # "idle" /\ tx[r] = "pending"
  BY DEF Land, FlowInv, FlowTypeOK, Stages, BroadcastIsAnchored
<1>2. of[r] \in Intents /\ intent[of[r]].amt \in Nat \ {0}
  BY <1>1, IntentFacts DEF FlowInv
<1>3. left' \in 0..Supply
  <2>1. left \in 0..Supply /\ left' = left - intent[of[r]].amt /\ intent[of[r]].amt <= left
    BY DEF Land, FlowInv, FlowTypeOK
  <2>2. QED
    BY <1>2, <2>1, Constants
<1>4. FlowTypeOK'
  BY <1>1, <1>2, <1>3 DEF Land, FlowInv, FlowTypeOK, handler, database, reconciler
<1>5. NonceUsed' /\ OneTradePerIntent'
  BY <1>1, <1>2 DEF Land, FlowInv, FlowTypeOK, NonceUsed, OneTradePerIntent, handler
<1>6. Stages' /\ Remembered' /\ BookedLanded'
  BY <1>1 DEF Land, FlowInv, FlowTypeOK, Stages, Remembered, BookedLanded, handler, database, reconciler
<1>7. OneInFlight' /\ BroadcastIsAnchored' /\ CompletedStaysBooked'
  BY <1>1 DEF Land, FlowInv, FlowTypeOK, OneInFlight, BroadcastIsAnchored, CompletedStaysBooked, Buyer,
       handler, database
<1>8. QED
  BY <1>4, <1>5, <1>6, <1>7 DEF FlowInv

\* Every step keeps the invariant.
LEMMA FlowNextInv == FlowInv /\ [FlowNext]_flowVars => FlowInv'
<1> SUFFICES ASSUME FlowInv, [FlowNext]_flowVars PROVE FlowInv'
  OBVIOUS
<1> USE Constants DEF FlowInv, FlowTypeOK, Stages, Remembered, NonceUsed, OneTradePerIntent,
         BookedLanded, OneInFlight, BroadcastIsAnchored, CompletedStaysBooked, Buyer, RowsOf,
         flowVars, handler, database, ledger, reconciler
<1>1. ASSUME NEW i \in Intents, purchaseInvestment(i) PROVE FlowInv'
  BY <1>1 DEF purchaseInvestment
<1>2. ASSUME NEW r \in Requests, NEW i \in Intents, Submit(r, i) PROVE FlowInv'
  BY <1>2 DEF Submit, Goto
<1>3. ASSUME NEW r \in Requests, DuplicateGuard(r) PROVE FlowInv'
  BY <1>3 DEF DuplicateGuard, Goto
<1>4. ASSUME NEW r \in Requests, OfferCheck(r) PROVE FlowInv'
  BY <1>4 DEF OfferCheck, Goto
<1>5. ASSUME NEW r \in Requests, Rebuild(r) PROVE FlowInv'
  BY <1>5 DEF Rebuild, Goto
<1>6. ASSUME NEW r \in Requests, Insert(r) PROVE FlowInv'
  BY <1>6, InsertStep
<1>7. ASSUME NEW r \in Requests, Anchor(r) PROVE FlowInv'
  BY <1>7 DEF Anchor, Goto
<1>8. ASSUME NEW r \in Requests, Broadcast(r) PROVE FlowInv'
  BY <1>8 DEF Broadcast, Goto
<1>9. ASSUME NEW r \in Requests, Confirm(r) PROVE FlowInv'
  BY <1>9 DEF Confirm, Goto
<1>10. ASSUME NEW r \in Requests, SponsorshipFails(r) PROVE FlowInv'
  BY <1>10 DEF SponsorshipFails, Goto
<1>11. ASSUME NEW r \in Requests, RecordDistribution(r) PROVE FlowInv'
  BY <1>11 DEF RecordDistribution, Goto
<1>12. ASSUME NEW r \in Requests, DatabaseError(r) PROVE FlowInv'
  BY <1>12 DEF DatabaseError, Goto
<1>13. ASSUME NEW r \in Requests, Land(r) PROVE FlowInv'
  BY <1>13, LandStep
<1>14. ASSUME NEW r \in Requests, FailOnChain(r) PROVE FlowInv'
  BY <1>14 DEF FailOnChain
<1>15. ASSUME NEW r \in Requests, Expire(r) PROVE FlowInv'
  BY <1>15 DEF Expire
<1>16. ASSUME NEW r \in Requests, Query(r) PROVE FlowInv'
  BY <1>16 DEF Query, Answer
<1>17. ASSUME NEW r \in Requests, ExpirePending(r) PROVE FlowInv'
  BY <1>17 DEF ExpirePending
<1>18. CASE Scan
  BY <1>18 DEF Scan
<1>19. CASE Resolve
  BY <1>19 DEF Resolve
<1>20. CASE Restart
  BY <1>20 DEF Restart
<1>21. CASE ToggleOffer
  BY <1>21 DEF ToggleOffer
<1>22. CASE UNCHANGED flowVars
  BY <1>22
<1>23. QED
  BY <1>1, <1>2, <1>3, <1>4, <1>5, <1>6, <1>7, <1>8, <1>9, <1>10, <1>11, <1>12, <1>13, <1>14, <1>15,
     <1>16, <1>17, <1>18, <1>19, <1>20, <1>21, <1>22
  DEF FlowNext, HandlerStep

\* The inductive invariant holds in every reachable state.
THEOREM FlowInvariance == FlowSpec => []FlowInv
  BY FlowInitInv, FlowNextInv, PTL DEF FlowSpec

\* Type correctness of the flow.
THEOREM FlowTypeCorrect == FlowSpec => []FlowTypeOK
<1>1. FlowInv => FlowTypeOK
  BY DEF FlowInv
<1>2. QED
  BY <1>1, FlowInvariance, PTL

\* An investor never has two rows in flight, however many submissions race.
THEOREM SingleFlight == FlowSpec => []OneInFlight
<1>1. FlowInv => OneInFlight
  BY DEF FlowInv
<1>2. QED
  BY <1>1, FlowInvariance, PTL

\* A booked investment is backed by a landed trade that backs no other.
THEOREM BookedIsBacked == FlowSpec => []BookedTradesLanded
<1>1. FlowInv => BookedTradesLanded
  BY DEF FlowInv, BookedLanded, OneTradePerIntent, BookedTradesLanded
<1>2. QED
  BY <1>1, FlowInvariance, PTL

\* Nothing reaches the network without a row the reconciler will find.
THEOREM CrashAnchor == FlowSpec => []BroadcastIsAnchored
<1>1. FlowInv => BroadcastIsAnchored
  BY DEF FlowInv
<1>2. QED
  BY <1>1, FlowInvariance, PTL

\* What a buyer was told is bought stays booked.
THEOREM SuccessIsFinal == FlowSpec => []CompletedStaysBooked
<1>1. FlowInv => CompletedStaysBooked
  BY DEF FlowInv
<1>2. QED
  BY <1>1, FlowInvariance, PTL

=============================================================================
