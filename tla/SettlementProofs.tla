---------------------------- MODULE SettlementProofs ----------------------------
(***************************************************************************)
(* Proofs about settling an offer: the contract (MaturitySettlement), and  *)
(* the service that drives it (SettlementExecution), whose steps on chain  *)
(* are steps of the contract.                                              *)
(***************************************************************************)
EXTENDS SettlementExecution, NumberTheorems, SequenceTheorems

(***************************************************************************)
(* MaturitySettlement, for any investors, batches and amounts: the contract*)
(* implements SettleOnce, the counter that guards refunds counts the       *)
(* settled investors, and the fee is capped.  The inductive invariant adds *)
(* to the types that the set of settled investors is finite.               *)
(***************************************************************************)

ContractInv == TypeOK /\ IsFiniteSet(settled) /\ CountMatches

-----------------------------------------------------------------------------
\* A transfer of USDC that the sender can afford overdraws nobody.
LEMMA TransferType ==
  ASSUME usdc \in [Holders -> Nat], NEW from \in Holders, NEW to \in Holders,
         NEW n \in Nat, CanSend(from, n)
  PROVE  Transfer(from, to, n) \in [Holders -> Nat]
  BY DEF Transfer, CanSend

\* The parties of the calls are holders.
LEMMA ContractParties ==
  /\ Contract \in Holders /\ Treasury \in Holders
  /\ Accounts \subseteq Holders /\ Investors \subseteq Holders /\ Depositors \subseteq Holders
  /\ Contract \notin Investors
  BY Addresses DEF Holders

\* What the validation loop establishes about the items of an accepted batch.
LEMMA BatchFacts ==
  ASSUME NEW items \in Batches, NEW fee \in Fees, Accepts(items, fee)
  PROVE  /\ Len(items) \in Nat \ {0} /\ DOMAIN items = 1..Len(items)
         /\ Named(items) \subseteq Investors /\ Named(items) # {}
         /\ \A i \in Named(items) :
              \E k \in DOMAIN items : items[k].investor = i /\ PayoutOf(items, i) = items[k].payout
         /\ \A i \in Named(items) : PayoutOf(items, i) \in Nat
         /\ fee \in Nat
<1>1. PICK n \in 1..MaxBatch : items \in [1..n -> [investor : Investors, payout : Payouts]]
  BY DEF Batches
<1>2. n \in Nat \ {0} /\ DOMAIN items = 1..n /\ Len(items) = n
  <2>1. n \in Nat \ {0}
    BY Parameters
  <2>2. QED
    BY <1>1, <2>1
<1>3. Named(items) \subseteq Investors /\ Named(items) # {}
  <2>1. 1 \in DOMAIN items
    BY <1>2
  <2>2. QED
    BY <1>1, <2>1 DEF Named
<1>4. ASSUME NEW i \in Named(items)
      PROVE  \E k \in DOMAIN items : items[k].investor = i /\ PayoutOf(items, i) = items[k].payout
  BY DEF Named, PayoutOf
<1>5. ASSUME NEW k \in DOMAIN items PROVE items[k].payout \in Nat
  <2>1. items[k] \in [investor : Investors, payout : Payouts]
    BY <1>1, <1>2
  <2>2. items[k].payout \in Int
    BY <2>1, Parameters
  <2>3. items[k].payout >= 0
    BY DEF Accepts, Signed
  <2>4. QED
    BY <2>2, <2>3
<1>6. fee \in Nat
  BY Parameters DEF Accepts, Signed
<1>7. QED
  BY <1>2, <1>3, <1>4, <1>5, <1>6

\* Without duplicates a batch names as many investors as it has items.
LEMMA NamedCardinality ==
  ASSUME NEW items \in Batches, NEW fee \in Fees, Accepts(items, fee)
  PROVE  IsFiniteSet(Named(items)) /\ Cardinality(Named(items)) = Len(items)
<1> DEFINE D == 1..Len(items)
           f == [k \in D |-> items[k].investor]
<1>1. Len(items) \in Nat \ {0} /\ DOMAIN items = D
  BY BatchFacts
<1>2. IsFiniteSet(D) /\ Cardinality(D) = Len(items)
  <2>1. ASSUME NEW n \in Nat \ {0} PROVE IsFiniteSet(1..n) /\ Cardinality(1..n) = n
    <3>1. IsFiniteSet(1..n) /\ Cardinality(1..n) = IF 1 > n THEN 0 ELSE n - 1 + 1
      BY FS_Interval
    <3>2. QED
      BY <3>1
  <2>2. QED
    BY <1>1, <2>1
<1>3. f \in [D -> Named(items)]
  BY <1>1 DEF Named
<1>4. f \in Injection(D, Named(items))
  BY <1>1, <1>3 DEF Injection, IsInjective, Accepts, Distinct
<1>5. f \in Surjection(D, Named(items))
  BY <1>1, <1>3 DEF Surjection, Named
<1>6. ExistsBijection(D, Named(items))
  BY <1>4, <1>5 DEF ExistsBijection, Bijection
<1>7. QED
  BY <1>2, <1>6, FS_Bijection

-----------------------------------------------------------------------------
\* A batch keeps every balance, payout and count a number.
LEMMA SettleTypes ==
  ASSUME TypeOK, NEW items \in Batches, NEW fee \in Fees, settle_batch(items, fee)
  PROVE  TypeOK'
<1>1. Accepts(items, fee)
  BY DEF settle_batch
<1>2. /\ Len(items) \in Nat /\ Named(items) \subseteq Investors /\ fee \in Nat
      /\ \A i \in Named(items) : PayoutOf(items, i) \in Nat
  BY <1>1, BatchFacts
<1>3. usdc[Contract] \in Nat /\ Total(items) + fee \in 0..usdc[Contract]
  BY <1>1, ContractParties DEF TypeOK, Accepts, Covered
<1>4. usdc' \in [Holders -> Nat]
  <2>1. usdc[Contract] - (Total(items) + fee) \in Nat
    BY <1>3
  <2>2. ASSUME NEW h \in Holders
        PROVE usdc[h] + (IF h \in Named(items) THEN PayoutOf(items, h) ELSE 0)
                      + (IF h = Treasury THEN fee ELSE 0) \in Nat
    BY <1>2, <2>2 DEF TypeOK
  <2>3. QED
    BY <2>1, <2>2 DEF settle_batch
<1>5. tok' \in [Investors -> Nat] /\ received' \in [Investors -> Nat]
  BY <1>2 DEF settle_batch, TypeOK
<1>6. settled' \subseteq Investors /\ settledCount' \in Nat
  BY <1>2 DEF settle_batch, TypeOK
<1>7. QED
  BY <1>4, <1>5, <1>6 DEF settle_batch, TypeOK, admins

\* A batch settles as many new investors as it adds to the counter.
LEMMA SettleCounts ==
  ASSUME TypeOK, IsFiniteSet(settled), CountMatches,
         NEW items \in Batches, NEW fee \in Fees, settle_batch(items, fee)
  PROVE  IsFiniteSet(settled') /\ CountMatches'
<1>1. Accepts(items, fee)
  BY DEF settle_batch
<1>2. IsFiniteSet(Named(items)) /\ Cardinality(Named(items)) = Len(items)
  BY <1>1, NamedCardinality
<1>3. settled \cap Named(items) = {}
  BY <1>1 DEF Accepts, Fresh
<1>4. /\ IsFiniteSet(settled \cup Named(items))
      /\ Cardinality(settled \cup Named(items)) =
           Cardinality(settled) + Cardinality(Named(items)) - Cardinality(settled \cap Named(items))
  BY <1>2, FS_Union
<1>5. Cardinality({}) = 0 /\ Cardinality(settled) \in Nat
  BY FS_EmptySet, FS_CardinalityType
<1>6. settled' = settled \cup Named(items) /\ settledCount' = settledCount + Len(items)
  BY DEF settle_batch
<1>7. Cardinality(settled') = Cardinality(settled) + Len(items)
  <2>1. Len(items) \in Nat
    BY <1>1, BatchFacts
  <2>2. Cardinality(settled \cap Named(items)) = 0
    BY <1>3, <1>5
  <2>3. Cardinality(settled \cup Named(items)) = Cardinality(settled) + Len(items) - 0
    BY <1>2, <1>4, <2>2
  <2>4. QED
    BY <1>5, <1>6, <2>1, <2>3
<1>8. QED
  BY <1>4, <1>6, <1>7 DEF CountMatches

-----------------------------------------------------------------------------
\* Before initialize() nothing is deposited or settled.
LEMMA ContractInitInv == Init => ContractInv
<1> SUFFICES ASSUME Init PROVE ContractInv
  OBVIOUS
<1> USE Addresses, Parameters DEF Init
<1>1. usdc \in [Holders -> Nat]
  BY DEF Holders
<1>2. /\ deposits \in [Depositors -> Nat] /\ received \in [Investors -> Nat]
      /\ tok \in [Investors -> Nat] /\ settledCount \in Nat
  OBVIOUS
<1>3. settled \subseteq Investors
  OBVIOUS
<1>4. initialized \in BOOLEAN /\ paused \in BOOLEAN /\ withdrawn \in BOOLEAN
  OBVIOUS
<1>5. override \in Accounts \cup {NoOne} /\ pendingAdmin \in Accounts \cup {NoOne}
  OBVIOUS
<1>6. TypeOK
  BY <1>1, <1>2, <1>3, <1>4, <1>5 DEF TypeOK
<1>7. IsFiniteSet(settled) /\ CountMatches
  BY FS_EmptySet DEF CountMatches
<1>8. QED
  BY <1>6, <1>7 DEF ContractInv

\* Every call keeps the invariant.
LEMMA ContractNextInv == ContractInv /\ [Next]_vars => ContractInv'
<1> SUFFICES ASSUME ContractInv, [Next]_vars PROVE ContractInv'
  OBVIOUS
<1>0. TypeOK /\ IsFiniteSet(settled) /\ CountMatches
  BY DEF ContractInv
<1> USE Addresses, Parameters DEF ContractInv, CountMatches, admins, money
<1>1. CASE initialize
  BY <1>0, <1>1 DEF initialize, TypeOK
<1>2. ASSUME NEW d \in Depositors, NEW n \in Transfers, deposit(d, n) PROVE ContractInv'
  <2>1. n \in Nat /\ CanSend(d, n) /\ d \in Holders
    BY <1>2, ContractParties DEF deposit
  <2>2. usdc' \in [Holders -> Nat]
    BY <1>0, <1>2, <2>1, ContractParties, TransferType DEF deposit, TypeOK
  <2>3. deposits' \in [Depositors -> Nat]
    BY <1>0, <1>2, <2>1 DEF deposit, TypeOK
  <2>4. QED
    BY <1>0, <1>2, <2>2, <2>3 DEF deposit, TypeOK
<1>3. ASSUME NEW items \in Batches, NEW fee \in Fees, settle_batch(items, fee) PROVE ContractInv'
  BY <1>0, <1>3, SettleTypes, SettleCounts
<1>4. ASSUME NEW to \in Recipients, NEW n \in Transfers, withdraw(to, n) PROVE ContractInv'
  <2>1. n \in Nat /\ CanSend(Contract, n) /\ to \in Holders
    BY <1>4, ContractParties DEF withdraw
  <2>2. usdc' \in [Holders -> Nat]
    BY <1>0, <1>4, <2>1, ContractParties, TransferType DEF withdraw, TypeOK
  <2>3. QED
    BY <1>0, <1>4, <2>2 DEF withdraw, TypeOK
<1>5. ASSUME NEW d \in Depositors, refund(d) PROVE ContractInv'
  <2>1. deposits[d] \in Nat /\ CanSend(Contract, deposits[d]) /\ d \in Holders
    BY <1>0, <1>5, ContractParties DEF refund, TypeOK
  <2>2. usdc' \in [Holders -> Nat]
    BY <1>0, <1>5, <2>1, ContractParties, TransferType DEF refund, TypeOK
  <2>3. QED
    BY <1>0, <1>5, <2>2 DEF refund, TypeOK
<1>6. CASE pause
  BY <1>0, <1>6 DEF pause, TypeOK
<1>7. CASE resume
  BY <1>0, <1>7 DEF resume, TypeOK
<1>8. ASSUME NEW a \in Admins, propose_admin(a) PROVE ContractInv'
  BY <1>0, <1>8 DEF propose_admin, TypeOK
<1>9. CASE accept_admin
  BY <1>0, <1>9 DEF accept_admin, TypeOK
<1>10. CASE MoveTokens
  <2>1. PICK i \in Investors, j \in Investors :
          i # j /\ tok[i] > 0 /\ tok' = [tok EXCEPT ![i] = @ - 1, ![j] = @ + 1]
    BY <1>10 DEF MoveTokens
  <2>2. tok' \in [Investors -> Nat]
    BY <1>0, <2>1 DEF TypeOK
  <2>3. QED
    BY <1>0, <1>10, <2>2 DEF MoveTokens, TypeOK
<1>11. CASE UNCHANGED vars
  BY <1>0, <1>11 DEF vars, TypeOK
<1>12. QED
  BY <1>1, <1>2, <1>3, <1>4, <1>5, <1>6, <1>7, <1>8, <1>9, <1>10, <1>11 DEF Next

\* The inductive invariant holds in every reachable state.
THEOREM ContractInvariance == Spec => []ContractInv
  BY ContractInitInv, ContractNextInv, PTL DEF Spec

\* Type correctness: no balance, deposit or count is ever negative.
THEOREM ContractTypeCorrect == Spec => []TypeOK
<1>1. ContractInv => TypeOK
  BY DEF ContractInv
<1>2. QED
  BY <1>1, ContractInvariance, PTL

\* The guard of refund() sees every settled investor, each once.
THEOREM CounterIsExact == Spec => []CountMatches
<1>1. ContractInv => CountMatches
  BY DEF ContractInv
<1>2. QED
  BY <1>1, ContractInvariance, PTL

-----------------------------------------------------------------------------
(***************************************************************************)
(* Sums of deposits and payouts                                            *)
(***************************************************************************)

\* The deposits of everybody are a number, and change by what one deposit changes.
LEMMA DepositSum ==
  ASSUME deposits \in [Depositors -> Nat], NEW d \in Depositors, deposits'[d] \in Nat,
         \A x \in Depositors : x # d => deposits'[x] = deposits[x]
  PROVE  /\ SumOf(deposits, Depositors) \in Nat
         /\ SumOf(deposits', Depositors) = SumOf(deposits, Depositors) - deposits[d] + deposits'[d]
<1>1. \A x \in Depositors : deposits[x] \in Nat
  OBVIOUS
<1>2. \A x \in Depositors : deposits'[x] \in Nat
  OBVIOUS
<1>3. SumOf(deposits, Depositors) \in Nat
  BY <1>1, Finite, SumType
<1>4. SumOf(deposits', Depositors) = SumOf(deposits, Depositors) - deposits[d] + deposits'[d]
  BY <1>1, <1>2, Finite, SumExcept
<1>5. QED
  BY <1>3, <1>4

\* DepositsBacked is about that sum.
LEMMA BackedMeans ==
  /\ DepositsBacked <=> (~withdrawn /\ settled = {} =>
                           SumOf(deposits, Depositors) <= usdc[Contract])
  /\ DepositsBacked' <=> (~withdrawn' /\ settled' = {} =>
                           SumOf(deposits', Depositors) <= usdc'[Contract])
  BY DEF DepositsBacked, SumOf, MapThenSumSet, MapThenFoldSet

\* A contract without depositors' money is trivially covered.
LEMMA InitBacked == Init => DepositsBacked
<1> SUFFICES ASSUME Init PROVE DepositsBacked
  OBVIOUS
<1>1. \A x \in Depositors : deposits[x] \in Nat /\ deposits[x] = 0
  BY DEF Init
<1>2. SumOf(deposits, Depositors) = SumOf(deposits, {})
  BY <1>1, Finite, SumZeros
<1>3. usdc[Contract] = 0
  BY ContractParties DEF Init
<1>4. SumOf(deposits, Depositors) <= usdc[Contract]
  BY <1>2, <1>3, SumEmpty
<1>5. QED
  BY <1>4, BackedMeans

\* Deposits and refunds move the sum and the contract's balance alike; a batch or a
\* withdrawal ends the promise.
LEMMA NextBacked == TypeOK /\ DepositsBacked /\ [Next]_vars => DepositsBacked'
<1> SUFFICES ASSUME TypeOK, DepositsBacked, [Next]_vars PROVE DepositsBacked'
  OBVIOUS
<1>0. /\ deposits \in [Depositors -> Nat] /\ usdc \in [Holders -> Nat]
      /\ Contract \in Holders /\ Depositors \subseteq Holders /\ Contract \notin Depositors
  BY Addresses, ContractParties DEF TypeOK
<1>1. ASSUME NEW d \in Depositors, NEW n \in Transfers, deposit(d, n) PROVE DepositsBacked'
  <2>1. n \in Nat /\ deposits[d] \in Nat /\ usdc[Contract] \in Nat
    BY <1>0, <1>1, Parameters DEF deposit
  <2>2. /\ deposits'[d] = deposits[d] + n
        /\ \A x \in Depositors : x # d => deposits'[x] = deposits[x]
    BY <1>0, <1>1 DEF deposit
  <2>3. /\ SumOf(deposits, Depositors) \in Nat
        /\ SumOf(deposits', Depositors) = SumOf(deposits, Depositors) - deposits[d] + deposits'[d]
    <3>1. deposits'[d] \in Nat
      BY <2>1, <2>2
    <3>2. QED
      BY <1>0, <2>2, <3>1, DepositSum
  <2>4. usdc'[Contract] = usdc[Contract] + n
    BY <1>0, <1>1, <2>1 DEF deposit, Transfer
  <2>5. withdrawn' = withdrawn /\ settled' = settled
    BY <1>1 DEF deposit
  <2>6. QED
    BY <2>1, <2>2, <2>3, <2>4, <2>5, BackedMeans
<1>2. ASSUME NEW d \in Depositors, refund(d) PROVE DepositsBacked'
  <2>1. deposits[d] \in Nat /\ usdc[Contract] \in Nat
    BY <1>0
  <2>2. deposits'[d] = 0 /\ \A x \in Depositors : x # d => deposits'[x] = deposits[x]
    BY <1>0, <1>2 DEF refund
  <2>3. /\ SumOf(deposits, Depositors) \in Nat
        /\ SumOf(deposits', Depositors) = SumOf(deposits, Depositors) - deposits[d] + deposits'[d]
    BY <1>0, <2>2, DepositSum
  <2>4. usdc'[Contract] = usdc[Contract] - deposits[d]
    BY <1>0, <1>2 DEF refund, Transfer
  <2>5. withdrawn' = withdrawn /\ settled' = settled
    BY <1>2 DEF refund
  <2>6. QED
    BY <2>1, <2>2, <2>3, <2>4, <2>5, BackedMeans
<1>3. ASSUME NEW items \in Batches, NEW fee \in Fees, settle_batch(items, fee)
      PROVE DepositsBacked'
  <2>1. settled' = settled \cup Named(items) /\ Named(items) # {}
    BY <1>3, BatchFacts DEF settle_batch
  <2>2. QED
    BY <2>1, BackedMeans
<1>4. ASSUME NEW to \in Recipients, NEW n \in Transfers, withdraw(to, n) PROVE DepositsBacked'
  BY <1>4, BackedMeans DEF withdraw
<1>5. CASE UNCHANGED <<deposits, usdc, withdrawn, settled>>
  BY <1>5, BackedMeans
<1>6. QED
  <2>1. \/ initialize \/ pause \/ resume \/ accept_admin \/ MoveTokens
        \/ \E a \in Admins : propose_admin(a)
        \/ UNCHANGED vars
        => UNCHANGED <<deposits, usdc, withdrawn, settled>>
    BY DEF initialize, pause, resume, accept_admin, MoveTokens, propose_admin, vars, money, admins
  <2>2. QED
    BY <1>1, <1>2, <1>3, <1>4, <1>5, <2>1 DEF Next

\* Until the first batch or withdrawal every deposit can be paid back.
THEOREM DepositsAreBacked == Spec => []DepositsBacked
  BY InitBacked, NextBacked, ContractTypeCorrect, PTL DEF Spec

\* The total of a batch is the sum of its items' payouts.
LEMMA TotalIsSum ==
  ASSUME NEW items \in Batches
  PROVE  Total(items) = SumOf([k \in DOMAIN items |-> items[k].payout], DOMAIN items)
<1> DEFINE D == DOMAIN items
           f == [k \in D |-> items[k].payout]
           Adds(g) == g = [s \in SUBSET D |->
                             IF s = {} THEN 0 ELSE items[Some(s)].payout + g[s \ {Some(s)}]]
<1>1. IsFiniteSet(D)
  <2>1. PICK n \in 1..MaxBatch : items \in [1..n -> [investor : Investors, payout : Payouts]]
    BY DEF Batches
  <2>2. D = 1..n /\ n \in Int
    BY <2>1, Parameters
  <2>3. QED
    BY <2>2, FS_Interval
<1>2. ASSUME NEW g PROVE Adds(g) <=> Sums(g, f, D)
  <2>1. \A s \in SUBSET D : s # {} => items[Some(s)].payout = f[Some(s)]
    BY SomeIn
  <2>2. QED
    BY <2>1 DEF Sums
<1>3. Total(items) = (CHOOSE g : Adds(g))[D]
  BY DEF Total, MapThenSumSet, MapThenFoldSet, Some
<1> HIDE DEF Adds
<1>4. Adds((CHOOSE g : Adds(g)))
  <2>1. PICK g : Sums(g, f, D)
    BY <1>1, SumsExist
  <2>2. QED
    BY <1>2, <2>1
<1>5. QED
  BY <1>1, <1>2, <1>3, <1>4, SumIs

\* What the investors got in a step, as a function, and the sum FeeCapped takes of it.
PaidOut == [i \in Investors |-> received'[i] - received[i]]

LEMMA PaidIsSum ==
  MapThenSumSet(LAMBDA i : received'[i] - received[i], Investors) = SumOf(PaidOut, Investors)
<1> DEFINE Adds(g) == g = [s \in SUBSET Investors |->
                 IF s = {} THEN 0 ELSE (received'[Some(s)] - received[Some(s)]) + g[s \ {Some(s)}]]
<1>1. ASSUME NEW g PROVE Adds(g) <=> Sums(g, PaidOut, Investors)
  <2>1. \A s \in SUBSET Investors : s # {} =>
          received'[Some(s)] - received[Some(s)] = PaidOut[Some(s)]
    BY SomeIn DEF PaidOut
  <2>2. QED
    BY <2>1 DEF Sums
<1>2. MapThenSumSet(LAMBDA i : received'[i] - received[i], Investors)
        = (CHOOSE g : Adds(g))[Investors]
  BY DEF MapThenSumSet, MapThenFoldSet, Some
<1> HIDE DEF Adds
<1>3. Adds((CHOOSE g : Adds(g)))
  <2>1. PICK g : Sums(g, PaidOut, Investors)
    BY Finite, SumsExist
  <2>2. QED
    BY <1>1, <2>1
<1>4. QED
  BY <1>1, <1>2, <1>3, Finite, SumIs

\* A batch pays its investors its total.
LEMMA BatchPaysTotal ==
  ASSUME TypeOK, NEW items \in Batches, NEW fee \in Fees, settle_batch(items, fee)
  PROVE  SumOf(PaidOut, Investors) = Total(items) /\ Total(items) \in Nat
<1> DEFINE D == DOMAIN items
           p == [k \in D |-> items[k].investor]
           f == [k \in D |-> items[k].payout]
<1>1. Accepts(items, fee)
  BY DEF settle_batch
<1>2. /\ Named(items) \subseteq Investors
      /\ \A i \in Named(items) : PayoutOf(items, i) \in Nat
      /\ D = 1..Len(items) /\ Len(items) \in Nat
  BY <1>1, BatchFacts
<1>3. IsFiniteSet(D)
  BY <1>2, FS_Interval
<1>4. \A i \in Investors : PaidOut[i] = IF i \in Named(items) THEN PayoutOf(items, i) ELSE 0
  <2>1. ASSUME NEW i \in Investors
        PROVE  PaidOut[i] = IF i \in Named(items) THEN PayoutOf(items, i) ELSE 0
    <3>1. received[i] \in Nat
      BY DEF TypeOK
    <3>2. received'[i] = IF i \in Named(items) THEN received[i] + PayoutOf(items, i) ELSE received[i]
      BY DEF settle_batch
    <3>3. QED
      BY <1>2, <3>1, <3>2 DEF PaidOut
  <2>2. QED
    BY <2>1
<1>5. \A i \in Investors : PaidOut[i] \in Nat
  BY <1>2, <1>4
<1>6. p \in [D -> Investors] /\ {p[k] : k \in D} = Named(items)
  BY <1>2 DEF Named
<1>7. \A j, k \in D : p[j] = p[k] => j = k
  BY <1>1 DEF Accepts, Distinct
<1>8. \A k \in D : f[k] = PaidOut[p[k]]
  <2>1. ASSUME NEW k \in D PROVE f[k] = PayoutOf(items, p[k])
    <3>1. \A j \in D : items[j].investor = items[k].investor => j = k
      BY <1>1 DEF Accepts, Distinct
    <3>2. (CHOOSE j \in D : items[j].investor = items[k].investor) = k
      BY <3>1
    <3>3. QED
      BY <3>2 DEF PayoutOf
  <2>2. ASSUME NEW k \in D PROVE p[k] \in Named(items) /\ p[k] \in Investors
    BY <1>6
  <2>3. QED
    BY <1>4, <2>1, <2>2
<1>9. SumOf(f, D) = SumOf(PaidOut, Named(items))
  <2> HIDE DEF D, p, f
  <2>1. SumOf(f, D) = SumOf(PaidOut, {p[k] : k \in D})
    BY <1>3, <1>5, <1>6, <1>7, <1>8, Finite, SumRenamed
  <2>2. QED
    BY <2>1, <1>6
<1>10. SumOf(PaidOut, Investors) = SumOf(PaidOut, Named(items))
  <2>1. Named(items) \in SUBSET Investors
    BY <1>2
  <2>2. \A x \in Investors \ Named(items) : PaidOut[x] = 0
    BY <1>4
  <2>3. QED
    BY <1>5, <2>1, <2>2, Finite, SumZeros
<1>11. SumOf(PaidOut, Investors) \in Nat
  BY <1>5, Finite, SumType
<1>12. Total(items) = SumOf(f, D)
  BY TotalIsSum
<1>13. QED
  BY <1>9, <1>10, <1>11, <1>12

\* The cap of the truncated quotient, multiplied out.
LEMMA DivCap ==
  ASSUME NEW a \in Nat, NEW d \in Nat \ {0}, NEW q \in Nat, q <= a \div d
  PROVE  q * d <= a
<1>1. a = d * (a \div d) + (a % d) /\ a % d \in 0..(d - 1) /\ a \div d \in Int
  OBVIOUS
<1>2. q * d <= (a \div d) * d
  <2>1. ((a \div d) - q) \in Nat
    BY <1>1
  <2>2. ((a \div d) - q) * d \in Nat
    BY <2>1
  <2>3. QED
    BY <1>1, <2>2
<1>3. QED
  BY <1>1, <1>2

\* The fee of an accepted batch is within the cap of what the batch pays.
LEMMA AcceptedFee ==
  ASSUME NEW total \in Nat, NEW fee \in Nat, total > 0, MaxFeeBps > 0,
         fee > 0 => fee <= (total * MaxFeeBps) \div Scale
  PROVE  fee * Scale <= total * MaxFeeBps
<1>1. total * MaxFeeBps \in Nat /\ Scale \in Nat \ {0}
  BY Parameters
<1>2. CASE fee = 0
  BY <1>1, <1>2
<1>3. CASE fee > 0
  BY <1>1, <1>3, DivCap
<1>4. QED
  BY <1>2, <1>3

\* Only a batch settles anybody, and it takes its total and its fee from the contract.
LEMMA StepIsCapped ==
  ASSUME TypeOK, [Next]_vars, settled' # settled, MaxFeeBps > 0, SumOf(PaidOut, Investors) > 0
  PROVE  (usdc[Contract] - usdc'[Contract] - SumOf(PaidOut, Investors)) * Scale
           <= SumOf(PaidOut, Investors) * MaxFeeBps
<1>1. PICK items \in Batches, fee \in Fees : settle_batch(items, fee)
  BY DEF Next, initialize, pause, resume, accept_admin, MoveTokens, propose_admin, deposit,
       withdraw, refund, vars, money, admins
<1>2. Accepts(items, fee) /\ fee \in Nat
  BY <1>1, BatchFacts DEF settle_batch
<1>3. SumOf(PaidOut, Investors) = Total(items) /\ Total(items) \in Nat
  BY <1>1, BatchPaysTotal
<1>4. usdc[Contract] \in Nat /\ usdc'[Contract] = usdc[Contract] - (Total(items) + fee)
  BY <1>1, ContractParties DEF settle_batch, TypeOK
<1>5. usdc[Contract] - usdc'[Contract] - SumOf(PaidOut, Investors) = fee
  BY <1>2, <1>3, <1>4
<1>6. fee > 0 => fee <= (Total(items) * MaxFeeBps) \div Scale
  BY <1>2, <1>3 DEF Accepts, FeeAllowed
<1>7. fee * Scale <= Total(items) * MaxFeeBps
  BY <1>2, <1>3, <1>6, AcceptedFee
<1>8. QED
  BY <1>3, <1>5, <1>7

\* No batch takes more of a fee than the configured share of what it pays out.
THEOREM FeesAreCapped == Spec => FeeCapped
<1>1. TypeOK /\ [Next]_vars =>
        [settled' # settled /\ MaxFeeBps > 0 =>
           LET paidOut == MapThenSumSet(LAMBDA i : received'[i] - received[i], Investors)
               fee     == usdc[Contract] - usdc'[Contract] - paidOut
           IN  paidOut > 0 => fee * Scale <= paidOut * MaxFeeBps]_vars
  <2> HIDE DEF PaidOut
  <2>1. QED
    BY PaidIsSum, StepIsCapped
<1>2. QED
  BY <1>1, ContractTypeCorrect, PTL DEF Spec, FeeCapped

-----------------------------------------------------------------------------
\* A batch is one step of the promise.
LEMMA SettleRefines ==
  ASSUME TypeOK, NEW items \in Batches, NEW fee \in Fees, settle_batch(items, fee)
  PROVE  Promise!Settle(Named(items))
<1>1. Accepts(items, fee)
  BY DEF settle_batch
<1>2. /\ Named(items) \subseteq Investors /\ Named(items) # {}
      /\ \A i \in Named(items) : PayoutOf(items, i) \in Nat
      /\ \A i \in Named(items) :
           \E k \in DOMAIN items : items[k].investor = i /\ PayoutOf(items, i) = items[k].payout
  BY <1>1, BatchFacts
<1>3. ASSUME NEW i \in Investors
      PROVE  /\ received'[i] >= received[i]
             /\ received'[i] # received[i] => i \in Named(items) /\ tok[i] > 0
  <2>1. CASE i \notin Named(items)
    BY <2>1 DEF settle_batch, TypeOK
  <2>2. CASE i \in Named(items)
    <3>1. received'[i] = received[i] + PayoutOf(items, i) /\ received[i] \in Nat
      BY <2>2 DEF settle_batch, TypeOK
    <3>2. PayoutOf(items, i) > 0 => tok[i] > 0
      BY <1>1, <1>2, <2>2 DEF Accepts, NoPhantom
    <3>3. QED
      BY <1>2, <2>2, <3>1, <3>2
  <2>3. QED
    BY <2>1, <2>2
<1>4. Named(items) \cap settled = {}
  BY <1>1 DEF Accepts, Fresh
<1>5. QED
  BY <1>2, <1>3, <1>4 DEF settle_batch, Promise!Settle

\* Every call is a step of the promise or leaves its state alone.
LEMMA NextRefines == TypeOK /\ TypeOK' /\ [Next]_vars => [Promise!Next]_(Promise!vars)
<1> SUFFICES ASSUME TypeOK, TypeOK', [Next]_vars PROVE [Promise!Next]_(Promise!vars)
  OBVIOUS
<1> USE DEF Promise!vars
<1>1. ASSUME NEW items \in Batches, NEW fee \in Fees, settle_batch(items, fee)
      PROVE  Promise!Next
  <2>1. Promise!Settle(Named(items)) /\ Named(items) \in SUBSET Investors
    BY <1>1, SettleRefines, BatchFacts DEF settle_batch
  <2>2. QED
    BY <2>1 DEF Promise!Next
<1>2. CASE MoveTokens
  BY <1>2 DEF MoveTokens, money, TypeOK, Promise!Next, Promise!Trade
<1>3. CASE \/ initialize \/ pause \/ resume \/ accept_admin
           \/ \E d \in Depositors, n \in Transfers : deposit(d, n)
           \/ \E to \in Recipients, n \in Transfers : withdraw(to, n)
           \/ \E d \in Depositors : refund(d)
           \/ \E a \in Admins : propose_admin(a)
           \/ UNCHANGED vars
  BY <1>3 DEF initialize, pause, resume, accept_admin, deposit, withdraw, refund,
       propose_admin, money, vars
<1>4. QED
  BY <1>1, <1>2, <1>3 DEF Next

\* The contract implements the promise: settled once, paid only as the tokens burn.
THEOREM Implements == Spec => SettlesOnce
<1>1. Init => Promise!Init
  BY Parameters DEF Init, Promise!Init
<1>2. QED
  BY <1>1, NextRefines, ContractTypeCorrect, PTL DEF Spec, SettlesOnce, Promise!Spec

-----------------------------------------------------------------------------
(***************************************************************************)
(* SettlementExecution, for any rows, batch size, fee, caps, number of     *)
(* overlapping requests and faults.  The inductive invariant says where a  *)
(* request and its transaction can be (Stages), that the batches a request *)
(* has left behind are settled (Behind), that only one request ever gets   *)
(* past the first batch (OneOwner), and that it alone writes the payments  *)
(* (Books).                                                                *)
(***************************************************************************)
Row == [by : Investors, owed : Nat \ {0}]

\* Whom a batch settles.
Paid(b) == Named(Items(b))

AllSettled == \A b \in 1..BatchCount : Paid(b) \subseteq settled

\* A request whose first batch has landed.
Owner(e) == batch[e] > 1 \/ tx[e] = "success"

\* Where a request and its transaction can be.
Stages ==
  \A e \in Executions :
    /\ pc[e] \in {"idle", "validate"} => batch[e] = 1 /\ next[e] = 1 /\ tx[e] = "none"
    /\ pc[e] \in {"build", "poll"} => batch[e] <= BatchCount /\ next[e] = 1
    /\ pc[e] \in {"record", "close"} => batch[e] = BatchCount + 1
    /\ pc[e] = "close" => next[e] = Len(Rows) + 1
    /\ tx[e] = "pending" => pc[e] \in {"poll", "thrown"} /\ batch[e] <= BatchCount

\* The batches a request has left behind are settled.
Behind ==
  \A e \in Executions :
    /\ \A b \in 1..(batch[e] - 1) : Paid(b) \subseteq settled
    /\ tx[e] = "success" /\ pc[e] = "poll" => Paid(batch[e]) \subseteq settled
    /\ tx[e] = "success" /\ batch[e] = 1 => Paid(1) \subseteq settled

\* The first batch lands once, so one request only gets past it.
OneOwner == \A e, f \in Executions : Owner(e) /\ Owner(f) => e = f

\* That request alone writes the payments, each once, after everybody is settled.
Books ==
  /\ \A r \in DOMAIN Rows : payments[r] <= 1 /\ (payments[r] > 0 => AllSettled)
  /\ \A e \in Executions : \A r \in DOMAIN Rows :
       /\ Owner(e) /\ pc[e] \in {"build", "poll"} => payments[r] = 0
       /\ pc[e] \in {"record", "close"} => payments[r] = IF r < next[e] THEN 1 ELSE 0
  /\ closed => \A r \in DOMAIN Rows : payments[r] = 1

ServiceInv == ServiceTypeOK /\ Stages /\ Behind /\ OneOwner /\ Books

-----------------------------------------------------------------------------
(***************************************************************************)
(* BatchCount and what they pay                                               *)
(***************************************************************************)

LEMMA RowFacts ==
  /\ Len(Rows) \in Nat /\ MaxBatch \in Nat \ {0} /\ PlatformFee \in Nat
  /\ DOMAIN Rows = 1..Len(Rows)
  /\ \A r \in DOMAIN Rows : Rows[r] \in Row
<1>1. Len(Rows) \in Nat /\ DOMAIN Rows = 1..Len(Rows)
  BY Breakdown
<1>2. \A r \in 1..Len(Rows) : Rows[r] \in Row
  <2>1. Rows \in Seq(Row)
    BY Breakdown DEF Row
  <2> HIDE DEF Row
  <2>2. QED
    BY <2>1
<1>3. QED
  BY <1>1, <1>2, ServiceParameters, Parameters

\* The last batch ends with the last row, the others are full.
LEMMA BatchesFacts ==
  /\ BatchCount \in Nat
  /\ \A b \in 1..BatchCount : (b - 1) * MaxBatch \in Nat /\ (b - 1) * MaxBatch < Len(Rows)
  /\ \A b \in 1..BatchCount : b # BatchCount => b * MaxBatch \in Nat /\ b * MaxBatch < Len(Rows)
  /\ Len(Rows) <= BatchCount * MaxBatch
  /\ (Len(Rows) = 0 <=> BatchCount = 0)
<1> DEFINE n == Len(Rows)
           m == MaxBatch
           q == BatchCount
<1>1. n \in Nat /\ m \in Nat \ {0}
  BY RowFacts
<1>2. q \in Int /\ q * m <= n + m - 1 /\ n + m - 1 < (q + 1) * m /\ q \in Nat
  BY <1>1, DivBounds DEF BatchCount
<1> HIDE DEF n, m, q
<1>3. n <= q * m
  BY <1>1, <1>2
<1>4. ASSUME NEW c \in Nat, c < q PROVE c * m \in Nat /\ c * m < n
  <2>1. (q - 1 - c) \in Nat
    BY <1>2, <1>4
  <2>2. (q - 1 - c) * m \in Nat /\ c * m \in Nat
    BY <1>1, <2>1
  <2>3. QED
    BY <1>1, <1>2, <2>1, <2>2
<1>5. \A b \in 1..q : (b - 1) * m \in Nat /\ (b - 1) * m < n
  <2>1. SUFFICES ASSUME NEW b \in 1..q PROVE (b - 1) * m \in Nat /\ (b - 1) * m < n
    OBVIOUS
  <2>2. b - 1 \in Nat /\ b - 1 < q
    BY <1>2
  <2>3. QED
    BY <1>4, <2>2
<1>6. \A b \in 1..q : b # q => b * m \in Nat /\ b * m < n
  <2>1. SUFFICES ASSUME NEW b \in 1..q, b # q PROVE b * m \in Nat /\ b * m < n
    OBVIOUS
  <2>2. b \in Nat /\ b < q
    BY <1>2, <2>1
  <2>3. QED
    BY <1>4, <2>2
<1>7. n = 0 <=> q = 0
  <2>1. CASE q = 0
    BY <1>1, <1>3, <2>1
  <2>2. CASE q > 0
    <3>1. 0 * m < n
      BY <1>4, <2>2
    <3>2. QED
      BY <1>1, <2>2, <3>1
  <2>3. QED
    BY <1>2, <2>1, <2>2
<1>8. QED
  BY <1>2, <1>3, <1>5, <1>6, <1>7 DEF n, m, q

\* The first and the last row of a batch.
First(b) == (b - 1) * MaxBatch + 1
Last(b)  == IF b = BatchCount THEN Len(Rows) ELSE b * MaxBatch

\* A batch is some consecutive rows, at least one.
LEMMA MembersFacts ==
  ASSUME NEW b \in 1..BatchCount
  PROVE  /\ First(b) \in 1..Last(b) /\ Last(b) \in 1..Len(Rows)
         /\ DOMAIN Members(b) = 1..(Last(b) - First(b) + 1)
         /\ Len(Members(b)) = Last(b) - First(b) + 1
         /\ \A k \in DOMAIN Members(b) :
              First(b) + k - 1 \in DOMAIN Rows /\ Members(b)[k] = Rows[First(b) + k - 1]
<1>1. First(b) \in 1..Last(b) /\ Last(b) \in 1..Len(Rows)
  <2> DEFINE f == (b - 1) * MaxBatch
             l == b * MaxBatch
  <2>1. f \in Nat /\ f < Len(Rows) /\ (b # BatchCount => l \in Nat /\ l < Len(Rows))
    BY BatchesFacts
  <2>2. l = f + MaxBatch /\ MaxBatch \in Nat \ {0} /\ Len(Rows) \in Nat
    BY RowFacts, BatchesFacts
  <2> HIDE DEF f, l
  <2>3. f + 1 \in 1..(IF b = BatchCount THEN Len(Rows) ELSE l)
        /\ (IF b = BatchCount THEN Len(Rows) ELSE l) \in 1..Len(Rows)
    BY <2>1, <2>2
  <2>4. QED
    BY <2>3 DEF First, Last, f, l
<1> DEFINE f == First(b)
           l == Last(b)
<1>2. Members(b) = SubSeq(Rows, f, l)
  BY DEF Members, First, Last
<1>3. Len(Rows) \in Nat /\ f \in 1..l /\ l \in 1..Len(Rows) /\ f \in Int /\ l \in Int
  BY <1>1, RowFacts
<1> HIDE DEF f, l
<1>4. \A i \in f..l : i \in DOMAIN Rows /\ Rows[i] \in Row
  BY <1>3, RowFacts
<1>5. /\ SubSeq(Rows, f, l) \in Seq(Row)
      /\ Len(SubSeq(Rows, f, l)) = l - f + 1
      /\ \A i \in 1..(l - f + 1) : SubSeq(Rows, f, l)[i] = Rows[f + i - 1]
  BY <1>3, <1>4, SubSeqProperties
<1>6. DOMAIN SubSeq(Rows, f, l) = 1..(l - f + 1)
  BY <1>5
<1>7. \A k \in 1..(l - f + 1) : f + k - 1 \in DOMAIN Rows
  BY <1>3, RowFacts
<1>8. QED
  BY <1>1, <1>2, <1>5, <1>6, <1>7 DEF f, l

\* Every row is in a batch.
LEMMA EveryRowInBatch ==
  ASSUME NEW r \in DOMAIN Rows
  PROVE  \E b \in 1..BatchCount : \E k \in DOMAIN Members(b) : Members(b)[k] = Rows[r]
<1> DEFINE c == (r - 1) \div MaxBatch
           b == c + 1
<1>1. r \in 1..Len(Rows) /\ Len(Rows) \in Nat /\ MaxBatch \in Nat \ {0}
  BY RowFacts
<1>2. c \in Nat /\ c * MaxBatch <= r - 1 /\ r - 1 < (c + 1) * MaxBatch
  <2> DEFINE a == r - 1
             m == MaxBatch
  <2>1. a \in Int /\ a \in Nat /\ m \in Nat \ {0}
    BY <1>1
  <2> HIDE DEF a, m
  <2>2. a \div m \in Nat /\ (a \div m) * m <= a /\ a < (a \div m + 1) * m
    BY <2>1, DivBounds
  <2>3. QED
    BY <2>2 DEF a, m
<1> HIDE DEF c
<1>3. BatchCount \in Nat /\ Len(Rows) <= BatchCount * MaxBatch
  BY BatchesFacts
<1>4. b \in 1..BatchCount
  <2>1. SUFFICES ASSUME c >= BatchCount PROVE FALSE
    BY <1>2, <1>3
  <2>2. (c - BatchCount) * MaxBatch \in Nat
    <3>1. c - BatchCount \in Nat
      BY <1>2, <1>3, <2>1
    <3>2. QED
      BY <1>1, <3>1
  <2>3. BatchCount * MaxBatch <= c * MaxBatch
    BY <1>1, <1>2, <1>3, <2>2
  <2>4. c * MaxBatch \in Nat /\ BatchCount * MaxBatch \in Nat
    BY <1>1, <1>2, <1>3
  <2>5. QED
    BY <1>1, <1>2, <1>3, <2>3, <2>4
<1>5. First(b) <= r /\ r <= Last(b) /\ First(b) \in Int /\ Last(b) \in Int
  <2>1. First(b) = c * MaxBatch + 1 /\ c * MaxBatch \in Nat
    BY <1>1, <1>2 DEF First
  <2>2. b * MaxBatch \in Nat /\ r <= b * MaxBatch
    BY <1>1, <1>2
  <2>3. Last(b) \in Int /\ r <= Last(b)
    BY <1>1, <2>2 DEF Last
  <2>4. QED
    BY <1>1, <1>2, <2>1, <2>3
<1> HIDE DEF b
<1> DEFINE k == r - First(b) + 1
<1>6. k \in 1..(Last(b) - First(b) + 1) /\ First(b) + k - 1 = r
  BY <1>1, <1>5
<1> HIDE DEF k
<1>7. k \in DOMAIN Members(b) /\ Members(b)[k] = Rows[r]
  BY <1>4, <1>6, MembersFacts
<1>8. QED
  BY <1>4, <1>7

\* The sum of some rows is a number, and positive if there is one.
LEMMA SumIsNat ==
  ASSUME NEW rows, NEW l \in Nat, DOMAIN rows = 1..l, \A k \in 1..l : rows[k].owed \in Nat \ {0}
  PROVE  Sum(rows) \in Nat /\ (l > 0 => Sum(rows) > 0)
<1> DEFINE D == 1..l
           f == [k \in D |-> rows[k].owed]
           Adds(g) == g = [s \in SUBSET D |->
                             IF s = {} THEN 0 ELSE rows[Some(s)].owed + g[s \ {Some(s)}]]
<1>1. IsFiniteSet(D)
  BY FS_Interval
<1>2. ASSUME NEW g PROVE Adds(g) <=> Sums(g, f, D)
  <2>1. \A s \in SUBSET D : s # {} => rows[Some(s)].owed = f[Some(s)]
    BY SomeIn
  <2>2. QED
    BY <2>1 DEF Sums
<1>3. Sum(rows) = (CHOOSE g : Adds(g))[D]
  BY DEF Sum, MapThenSumSet, MapThenFoldSet, Some
<1> HIDE DEF Adds
<1>4. Adds((CHOOSE g : Adds(g)))
  <2>1. PICK g : Sums(g, f, D)
    BY <1>1, SumsExist
  <2>2. QED
    BY <1>2, <2>1
<1>5. Sum(rows) = SumOf(f, D)
  BY <1>1, <1>2, <1>3, <1>4, SumIs
<1>6. \A k \in D : f[k] \in Nat
  OBVIOUS
<1>7. l > 0 => 1 \in D /\ f[1] \in Nat \ {0}
  OBVIOUS
<1> HIDE DEF f, D
<1>8. SumOf(f, D) \in Nat /\ SumOf(f, D \ {1}) \in Nat
  BY <1>1, <1>6, SumType
<1>9. l > 0 => SumOf(f, D) = f[1] + SumOf(f, D \ {1})
  <2>1. D \in SUBSET D
    OBVIOUS
  <2>2. QED
    BY <1>1, <1>6, <1>7, <2>1, SumSplit
<1>10. QED
  BY <1>5, <1>7, <1>8, <1>9

\* What is owed over all, and in a batch.
LEMMA SumFacts ==
  /\ Sum(Rows) \in Nat /\ (BatchCount > 0 => Sum(Rows) > 0)
  /\ \A b \in 1..BatchCount : Sum(Members(b)) \in Nat
<1>1. \A r \in 1..Len(Rows) : Rows[r].owed \in Nat \ {0}
  BY RowFacts DEF Row
<1>2. Sum(Rows) \in Nat /\ (Len(Rows) > 0 => Sum(Rows) > 0)
  BY <1>1, RowFacts, SumIsNat
<1>3. ASSUME NEW b \in 1..BatchCount PROVE Sum(Members(b)) \in Nat
  <2> DEFINE l == Last(b) - First(b) + 1
  <2>1. l \in Nat /\ DOMAIN Members(b) = 1..l
    BY MembersFacts
  <2>2. ASSUME NEW k \in 1..l PROVE Members(b)[k].owed \in Nat \ {0}
    <3>1. First(b) + k - 1 \in DOMAIN Rows /\ Members(b)[k] = Rows[First(b) + k - 1]
      BY <2>1, MembersFacts
    <3>2. Members(b)[k] \in Row
      BY <3>1, RowFacts
    <3>3. QED
      BY <3>2 DEF Row
  <2> HIDE DEF l
  <2>3. QED
    BY <2>1, <2>2, SumIsNat
<1>4. BatchCount > 0 => Len(Rows) > 0
  BY BatchesFacts, RowFacts
<1>5. QED
  BY <1>2, <1>3, <1>4

\* The items of a batch name investors, at least one, with what they are owed.
LEMMA ItemsFacts ==
  ASSUME NEW b \in 1..BatchCount
  PROVE  /\ DOMAIN Items(b) = DOMAIN Members(b)
         /\ DOMAIN Items(b) = 1..Len(Members(b)) /\ Len(Members(b)) \in Nat \ {0}
         /\ Len(Items(b)) = Len(Members(b))
         /\ \A k \in DOMAIN Items(b) :
              /\ Items(b)[k].investor = Members(b)[k].by /\ Items(b)[k].investor \in Investors
              /\ Items(b)[k].payout = Members(b)[k].owed /\ Items(b)[k].payout \in Nat \ {0}
         /\ Paid(b) \subseteq Investors /\ Paid(b) # {}
<1> DEFINE l == Len(Members(b))
<1>1. l \in Nat \ {0} /\ DOMAIN Members(b) = 1..l
  BY MembersFacts
<1>2. ASSUME NEW k \in 1..l PROVE Members(b)[k] \in Row
  <2>1. First(b) + k - 1 \in DOMAIN Rows /\ Members(b)[k] = Rows[First(b) + k - 1]
    BY <1>1, MembersFacts
  <2>2. QED
    BY <2>1, RowFacts
<1> HIDE DEF l
<1>3. /\ DOMAIN Items(b) = 1..l
      /\ \A k \in 1..l : Items(b)[k] = [investor |-> Members(b)[k].by, payout |-> Members(b)[k].owed]
  BY <1>1 DEF Items
<1>4. ASSUME NEW k \in 1..l
      PROVE  /\ Items(b)[k].investor = Members(b)[k].by /\ Items(b)[k].investor \in Investors
             /\ Items(b)[k].payout = Members(b)[k].owed /\ Items(b)[k].payout \in Nat \ {0}
  BY <1>2, <1>3 DEF Row
<1>5. Len(Items(b)) = l
  <2>1. Items(b) = [k \in 1..l |-> [investor |-> Members(b)[k].by, payout |-> Members(b)[k].owed]]
    BY <1>1 DEF Items
  <2>2. QED
    BY <1>1, <2>1
<1>6. Paid(b) \subseteq Investors /\ Paid(b) # {}
  <2>1. 1 \in 1..l
    BY <1>1
  <2>2. QED
    BY <1>3, <1>4, <2>1 DEF Paid, Named
<1>7. QED
  BY <1>1, <1>3, <1>4, <1>5, <1>6 DEF l

\* Once all batches are settled, every row is.
LEMMA AllSettledMeans ==
  ASSUME AllSettled, NEW r \in DOMAIN Rows
  PROVE  Rows[r].by \in settled
<1>1. PICK b \in 1..BatchCount : \E k \in DOMAIN Members(b) : Members(b)[k] = Rows[r]
  BY EveryRowInBatch
<1>2. PICK k \in DOMAIN Members(b) : Members(b)[k] = Rows[r]
  BY <1>1
<1>3. k \in DOMAIN Items(b) /\ Items(b)[k].investor = Rows[r].by
  BY <1>2, ItemsFacts
<1>4. QED
  BY <1>3 DEF AllSettled, Paid, Named

\* What a batch pays is a number.
LEMMA TotalIsNat ==
  ASSUME NEW b \in 1..BatchCount
  PROVE  Total(Items(b)) \in Nat
<1> DEFINE items == Items(b)
           D == 1..Len(Members(b))
           f == [k \in D |-> items[k].payout]
           Adds(g) == g = [s \in SUBSET D |->
                             IF s = {} THEN 0 ELSE items[Some(s)].payout + g[s \ {Some(s)}]]
<1>1. DOMAIN items = D /\ \A k \in D : items[k].payout \in Nat
  BY ItemsFacts
<1>2. IsFiniteSet(D)
  <2>1. Len(Members(b)) \in Int
    BY ItemsFacts
  <2>2. QED
    BY <2>1, FS_Interval
<1> HIDE DEF D, items
<1>3. ASSUME NEW g PROVE Adds(g) <=> Sums(g, f, D)
  <2>1. \A s \in SUBSET D : s # {} => items[Some(s)].payout = f[Some(s)]
    BY SomeIn
  <2>2. QED
    BY <2>1 DEF Sums
<1>4. Total(items) = (CHOOSE g : Adds(g))[D]
  BY <1>1 DEF Total, MapThenSumSet, MapThenFoldSet, Some
<1> HIDE DEF Adds
<1>5. Adds((CHOOSE g : Adds(g)))
  <2>1. PICK g : Sums(g, f, D)
    BY <1>2, SumsExist
  <2>2. QED
    BY <1>3, <2>1
<1>6. Total(items) = SumOf(f, D)
  BY <1>2, <1>3, <1>4, <1>5, SumIs
<1>7. \A k \in D : f[k] \in Nat
  BY <1>1
<1> HIDE DEF f
<1>8. SumOf(f, D) \in Nat
  BY <1>2, <1>7, SumType
<1>9. QED
  BY <1>6, <1>8 DEF items

\* So is the fee it asks for.
LEMMA BatchFeeIsNat ==
  ASSUME NEW e, batch[e] \in 1..BatchCount, collected[e] \in Nat
  PROVE  BatchFee(e) \in Nat
<1> DEFINE b == batch[e]
           a == PlatformFee * Sum(Members(b))
           d == Sum(Rows)
<1>1. PlatformFee \in Nat /\ Sum(Members(b)) \in Nat /\ d \in Nat \ {0}
  <2>1. BatchCount > 0 /\ BatchCount \in Nat
    BY BatchesFacts
  <2>2. QED
    BY <2>1, SumFacts, RowFacts
<1>2. a \in Nat
  BY <1>1
<1> HIDE DEF a, d
<1>3. 2 * a + d \in Int /\ 2 * a + d >= 0 /\ 2 * d \in Nat \ {0}
  BY <1>1, <1>2
<1>4. (2 * a + d) \div (2 * d) \in Nat
  BY <1>3, DivBounds
<1>5. Share(b) \in Nat
  BY <1>4 DEF Share, Round, a, d
<1>6. QED
  BY <1>1, <1>5 DEF BatchFee

-----------------------------------------------------------------------------
(***************************************************************************)
(* The contract's calls keep its types                                     *)
(***************************************************************************)

LEMMA Parties ==
  /\ Holders = Accounts \cup {Contract}
  /\ Company \in Accounts /\ Treasury \in Accounts /\ Contract \notin Accounts
  /\ Investors \subseteq Accounts
  BY ServiceParameters, Addresses DEF Holders

LEMMA BatchTyped ==
  ASSUME TypeOK, NEW b \in 1..BatchCount, NEW fee \in Nat, settle_batch(Items(b), fee)
  PROVE  TypeOK'
<1> DEFINE items == Items(b)
<1>1. /\ Len(items) \in Nat /\ Named(items) \subseteq Investors
      /\ \A k \in DOMAIN items : items[k].payout \in Nat
  BY ItemsFacts DEF Paid
<1>2. \A i \in Named(items) : PayoutOf(items, i) \in Nat
  BY <1>1 DEF Named, PayoutOf
<1>3. Total(items) \in Nat
  BY TotalIsNat
<1> HIDE DEF items
<1>4. Accepts(items, fee) /\ settle_batch(items, fee)
  BY DEF settle_batch, items
<1>5. usdc[Contract] \in Nat /\ Total(items) + fee \in 0..usdc[Contract]
  BY <1>4, Parties DEF TypeOK, Accepts, Covered
<1>6. usdc' \in [Holders -> Nat]
  <2>1. usdc[Contract] - (Total(items) + fee) \in Nat
    BY <1>3, <1>5
  <2>2. ASSUME NEW h \in Holders
        PROVE usdc[h] + (IF h \in Named(items) THEN PayoutOf(items, h) ELSE 0)
                      + (IF h = Treasury THEN fee ELSE 0) \in Nat
    BY <1>2, <2>2 DEF TypeOK
  <2>3. QED
    BY <1>4, <2>1, <2>2 DEF settle_batch
<1>7. tok' \in [Investors -> Nat] /\ received' \in [Investors -> Nat]
  <2>1. tok' = [i \in Investors |-> IF i \in Named(items) THEN 0 ELSE tok[i]]
    BY <1>4 DEF settle_batch
  <2>2. tok \in [Investors -> Nat]
    BY DEF TypeOK
  <2>3. tok' \in [Investors -> Nat]
    BY <2>1, <2>2
  <2>4. received' \in [Investors -> Nat]
    BY <1>2, <1>4 DEF settle_batch, TypeOK
  <2>5. QED
    BY <2>3, <2>4
<1>8. settled' \subseteq Investors /\ settledCount' \in Nat
  BY <1>1, <1>4 DEF settle_batch, TypeOK
<1>9. QED
  BY <1>4, <1>6, <1>7, <1>8 DEF settle_batch, TypeOK, admins

\* The calls that settle nobody.
LEMMA OtherTyped ==
  ASSUME TypeOK,
         \/ initialize \/ resume \/ pause
         \/ \E n \in 1..Purse[Company] : deposit(Company, n)
         \/ withdraw(Company, 1)
  PROVE  TypeOK' /\ settled' = settled /\ received' = received
<1>1. CASE initialize \/ resume \/ pause
  BY <1>1 DEF TypeOK, initialize, resume, pause, money
<1>2. ASSUME NEW n \in 1..Purse[Company], deposit(Company, n)
      PROVE  TypeOK' /\ settled' = settled /\ received' = received
  <2>1. n \in Nat
    BY ServiceParameters, Parameters, Addresses
  <2>2. deposit(Company, n)
    BY <1>2
  <2>3. usdc' \in [Holders -> Nat]
    BY <2>1, <2>2, Parties DEF deposit, Transfer, CanSend, TypeOK
  <2>4. deposits' \in [Depositors -> Nat]
    <3>1. deposits' = [deposits EXCEPT ![Company] = @ + n] /\ Company \in Depositors
      BY <2>2, ServiceParameters DEF deposit
    <3>2. QED
      BY <2>1, <3>1 DEF TypeOK
  <2>5. QED
    BY <2>2, <2>3, <2>4 DEF deposit, TypeOK, admins
<1>3. CASE withdraw(Company, 1)
  <2>1. usdc' \in [Holders -> Nat]
    BY <1>3, Parties DEF withdraw, Transfer, CanSend, TypeOK
  <2>2. QED
    BY <1>3, <2>1 DEF withdraw, TypeOK, admins
<1>4. QED
  BY <1>1, <1>2, <1>3

-----------------------------------------------------------------------------
(***************************************************************************)
(* The invariant                                                           *)
(***************************************************************************)

\* No request has begun.
LEMMA ServiceInitInv == ServiceInit => ServiceInv
<1> SUFFICES ASSUME ServiceInit PROVE ServiceInv
  OBVIOUS
<1>1. TypeOK
  <2>1. usdc \in [Holders -> Nat]
    BY ServiceParameters, Parameters, Addresses DEF ServiceInit, Init, Holders
  <2>2. deposits \in [Depositors -> Nat] /\ tok \in [Investors -> Nat] /\ received \in [Investors -> Nat]
    BY ServiceParameters, Parameters DEF ServiceInit, Init
  <2>3. QED
    BY <2>1, <2>2 DEF ServiceInit, Init, TypeOK
<1>2. ServiceTypeOK
  <2>1. 1 \in 1..(BatchCount + 1) /\ 1 \in 1..(Len(Rows) + 1)
    BY BatchesFacts, RowFacts
  <2>2. 0 \in 0..MaxFaults
    BY ServiceParameters, Parameters
  <2>3. QED
    BY <1>1, <2>1, <2>2 DEF ServiceInit, ServiceTypeOK
<1>3. Stages /\ OneOwner
  BY DEF ServiceInit, Stages, OneOwner, Owner
<1>4. Behind
  BY DEF ServiceInit, Behind
<1>5. Books
  BY DEF ServiceInit, Books, Owner
<1>6. QED
  BY <1>2, <1>3, <1>4, <1>5 DEF ServiceInv

\* What an owner has had settled.
LEMMA OwnerPaid ==
  ASSUME ServiceInv, NEW e \in Executions, Owner(e)
  PROVE  Paid(1) \subseteq settled
<1>1. batch[e] \in Nat
  BY BatchesFacts DEF ServiceInv, ServiceTypeOK
<1>2. CASE batch[e] > 1
  <2>1. 1 \in 1..(batch[e] - 1)
    BY <1>1, <1>2
  <2>2. QED
    BY <2>1 DEF ServiceInv, Behind
<1>3. CASE batch[e] = 1 /\ tx[e] = "success"
  BY <1>3 DEF ServiceInv, Behind
<1>4. batch[e] \in 1..(BatchCount + 1) /\ BatchCount \in Nat
  BY BatchesFacts DEF ServiceInv, ServiceTypeOK
<1>5. QED
  BY <1>1, <1>2, <1>3, <1>4 DEF Owner

\* A request that has nothing left to settle.
LEMMA Through ==
  ASSUME ServiceInv, NEW e \in Executions, pc[e] \in {"record", "close"}
  PROVE  AllSettled /\ (Rows # <<>> => Owner(e))
<1>1. batch[e] = BatchCount + 1 /\ BatchCount \in Nat
  BY BatchesFacts DEF ServiceInv, Stages
<1>2. AllSettled
  <2>1. \A b \in 1..(batch[e] - 1) : Paid(b) \subseteq settled
    BY DEF ServiceInv, Behind
  <2>2. batch[e] - 1 = BatchCount
    BY <1>1
  <2>3. QED
    BY <2>1, <2>2 DEF AllSettled
<1>3. Rows # <<>> => BatchCount # 0
  <2>1. Rows # <<>> => Len(Rows) # 0
    BY Breakdown
  <2>2. QED
    BY <2>1, BatchesFacts
<1>4. QED
  BY <1>1, <1>2, <1>3 DEF Owner

LEMMA RequestStep ==
  ASSUME ServiceInv, NEW e \in Executions, Request(e)
  PROVE  ServiceInv'
<1> USE DEF Request, Goto, contract, vars, admins, database
<1>1. ServiceTypeOK'
  <2>1. 1 \in 1..(BatchCount + 1) /\ 1 \in 1..(Len(Rows) + 1)
    BY BatchesFacts, RowFacts
  <2>2. TypeOK'
    BY DEF ServiceInv, ServiceTypeOK, TypeOK
  <2>3. QED
    BY <2>1, <2>2 DEF ServiceInv, ServiceTypeOK
<1>2. Stages'
  BY DEF ServiceInv, ServiceTypeOK, Stages
<1>3. Behind'
  BY DEF ServiceInv, ServiceTypeOK, Behind
<1>4. OneOwner'
  BY DEF ServiceInv, ServiceTypeOK, OneOwner, Owner
<1>5. Books'
  BY DEF ServiceInv, ServiceTypeOK, Books, Owner, AllSettled
<1>6. QED
  BY <1>1, <1>2, <1>3, <1>4, <1>5 DEF ServiceInv

LEMMA ValidateStep ==
  ASSUME ServiceInv, NEW e \in Executions, Validate(e)
  PROVE  ServiceInv'
<1> USE DEF Validate, Goto, contract, vars, admins, database
<1>1. pc' = [pc EXCEPT ![e] = pc'[e]] /\ pc'[e] \in {"record", "build", "thrown"}
  BY DEF ServiceInv, ServiceTypeOK
<1>2. pc[e] = "validate" /\ batch[e] = 1 /\ next[e] = 1 /\ tx[e] = "none"
  BY DEF ServiceInv, Stages
<1>3. /\ pc'[e] = "record" => Rows = <<>>
      /\ pc'[e] = "build" => Rows # <<>>
  BY DEF ServiceInv, ServiceTypeOK
<1>4. BatchCount \in Nat /\ (Rows = <<>> => BatchCount = 0) /\ (Rows # <<>> => BatchCount >= 1)
  <2>1. (Rows = <<>> <=> Len(Rows) = 0) /\ BatchCount \in Nat
    BY Breakdown, BatchesFacts
  <2>2. QED
    BY <2>1, BatchesFacts
<1>5. pc'[e] = "record" => batch[e] = BatchCount + 1 /\ DOMAIN Rows = {}
  BY <1>2, <1>3, <1>4
<1>6. pc'[e] = "build" => batch[e] <= BatchCount
  BY <1>2, <1>3, <1>4
<1> USE DEF ServiceInv
<1>7. ServiceTypeOK'
  <2>1. TypeOK'
    BY DEF ServiceTypeOK, TypeOK
  <2>2. QED
    BY <1>1, <2>1 DEF ServiceTypeOK
<1>8. Stages'
  BY <1>1, <1>2, <1>5, <1>6 DEF ServiceTypeOK, Stages
<1>9. Behind'
  BY <1>1, <1>2 DEF ServiceTypeOK, Behind
<1>10. OneOwner'
  BY DEF OneOwner, Owner
<1>11. Books'
  BY <1>1, <1>2, <1>5 DEF ServiceTypeOK, Books, Owner, AllSettled
<1>12. QED
  BY <1>7, <1>8, <1>9, <1>10, <1>11

LEMMA BuildStep ==
  ASSUME ServiceInv, NEW e \in Executions, Build(e)
  PROVE  ServiceInv'
<1> USE DEF ServiceInv, contract, vars, admins, database
<1>1. /\ pc[e] = "build"
      /\ \/ pc' = [pc EXCEPT ![e] = "poll"] /\ tx' = [tx EXCEPT ![e] = "pending"]
         \/ pc' = [pc EXCEPT ![e] = "thrown"] /\ tx' = tx
      /\ UNCHANGED <<contract, batch, collected, next, database, faults>>
  BY DEF Build, Goto
<1>2. ServiceTypeOK'
  <2>1. TypeOK'
    BY <1>1 DEF ServiceTypeOK, TypeOK
  <2>2. QED
    BY <1>1, <2>1 DEF ServiceTypeOK
<1>3. Stages'
  BY <1>1 DEF ServiceTypeOK, Stages
<1>4. Behind'
  BY <1>1 DEF ServiceTypeOK, Behind
<1>5. OneOwner'
  BY <1>1 DEF ServiceTypeOK, OneOwner, Owner
<1>6. Books'
  BY <1>1 DEF ServiceTypeOK, Books, Owner, AllSettled
<1>7. QED
  BY <1>2, <1>3, <1>4, <1>5, <1>6

LEMMA PollStep ==
  ASSUME ServiceInv, NEW e \in Executions, Poll(e)
  PROVE  ServiceInv'
<1> USE DEF ServiceInv, contract, vars, admins, database
<1>1. /\ pc[e] = "poll" /\ next[e] = 1 /\ batch[e] \in 1..BatchCount /\ BatchCount \in Nat
      /\ batch[e] \in Nat
      /\ UNCHANGED <<contract, next, tx, database, faults>>
  BY BatchesFacts DEF Poll, Stages, ServiceTypeOK
<1>2. CASE tx[e] = "failed"
  <2>1. pc' = [pc EXCEPT ![e] = "thrown"] /\ UNCHANGED <<batch, collected>>
    BY <1>2 DEF Poll, Goto
  <2>2. ServiceTypeOK'
    <3>1. TypeOK'
      BY <1>1 DEF ServiceTypeOK, TypeOK
    <3>2. QED
      BY <1>1, <2>1, <3>1 DEF ServiceTypeOK
  <2>3. Stages' /\ Behind'
    BY <1>1, <2>1 DEF ServiceTypeOK, Stages, Behind
  <2>4. OneOwner' /\ Books'
    BY <1>1, <2>1 DEF ServiceTypeOK, OneOwner, Books, Owner, AllSettled
  <2>5. QED
    BY <2>2, <2>3, <2>4
<1>3. CASE tx[e] = "success"
  <2>1. /\ pc' = [pc EXCEPT ![e] = IF batch[e] = BatchCount THEN "record" ELSE "build"]
        /\ batch' = [batch EXCEPT ![e] = @ + 1]
        /\ collected' = [collected EXCEPT ![e] = @ + BatchFee(e)]
    BY <1>3 DEF Poll, Goto
  <2>2. BatchFee(e) \in Nat
    BY <1>1, BatchFeeIsNat DEF ServiceTypeOK
  <2>3. ServiceTypeOK'
    <3>1. TypeOK'
      BY <1>1 DEF ServiceTypeOK, TypeOK
    <3>2. batch' \in [Executions -> 1..(BatchCount + 1)]
      BY <1>1, <2>1 DEF ServiceTypeOK
    <3>3. pc' \in [Executions -> {"idle", "validate", "build", "poll", "record", "close", "done", "thrown"}]
      BY <2>1 DEF ServiceTypeOK
    <3>4. collected' \in [Executions -> Nat]
      BY <2>1, <2>2 DEF ServiceTypeOK
    <3>5. QED
      BY <1>1, <3>1, <3>2, <3>3, <3>4 DEF ServiceTypeOK
  <2>4. batch'[e] = batch[e] + 1 /\ pc'[e] = IF batch[e] = BatchCount THEN "record" ELSE "build"
    BY <2>1 DEF ServiceTypeOK
  <2>5. \A f \in Executions : f # e => batch'[f] = batch[f] /\ pc'[f] = pc[f]
    BY <2>1 DEF ServiceTypeOK
  <2>6. Owner(e)
    BY <1>3 DEF Owner
  <2>7. \A r \in DOMAIN Rows : payments[r] = 0
    BY <1>1, <2>6 DEF Books
  <2>8. Stages'
    BY <1>1, <1>3, <2>4, <2>5 DEF Stages
  <2>9. Behind'
    <3>1. ASSUME NEW b \in 1..batch[e] PROVE Paid(b) \subseteq settled
      <4>1. CASE b = batch[e]
        BY <1>1, <1>3, <4>1 DEF Behind
      <4>2. CASE b # batch[e]
        <5>1. b \in 1..(batch[e] - 1)
          BY <1>1, <4>2
        <5>2. QED
          BY <5>1 DEF Behind
      <4>3. QED
        BY <4>1, <4>2
    <3>2. batch'[e] - 1 = batch[e] /\ batch'[e] # 1 /\ pc'[e] # "poll"
      BY <1>1, <2>4
    <3>3. \A b \in 1..(batch'[e] - 1) : Paid(b) \subseteq settled
      BY <3>1, <3>2
    <3>4. QED
      BY <1>1, <2>5, <3>2, <3>3 DEF Behind
  <2>10. OneOwner'
    BY <1>1, <2>5, <2>6 DEF OneOwner, Owner
  <2>11. Books'
    <3>1. \A r \in DOMAIN Rows : r >= 1 /\ r \in Nat
      BY RowFacts
    <3>2. \A r \in DOMAIN Rows : (IF r < next[e] THEN 1 ELSE 0) = 0
      BY <1>1, <3>1
    <3>3. QED
      BY <1>1, <2>4, <2>5, <2>7, <3>2 DEF Books, Owner, AllSettled
  <2>12. QED
    BY <2>3, <2>8, <2>9, <2>10, <2>11
<1>4. QED
  BY <1>2, <1>3 DEF Poll

\* The row a request is about to record has no payment yet, so the offer is open.
LEMMA RecordStep ==
  ASSUME ServiceInv, NEW e \in Executions, Record(e)
  PROVE  ServiceInv'
<1> USE DEF ServiceInv, contract, vars, admins, database
<1> DEFINE n == next[e]
<1>1. /\ pc[e] = "record" /\ batch[e] = BatchCount + 1
      /\ n \in 1..(Len(Rows) + 1) /\ Len(Rows) \in Nat /\ DOMAIN Rows = 1..Len(Rows)
      /\ UNCHANGED <<contract, batch, collected, tx, closed, faults>>
  BY RowFacts DEF Record, Stages, ServiceTypeOK
<1>2. AllSettled /\ (Rows # <<>> => Owner(e))
  BY <1>1, Through
<1>3. TypeOK'
  BY <1>1 DEF ServiceTypeOK, TypeOK
<1>4. CASE n > Len(Rows)
  <2>1. pc' = [pc EXCEPT ![e] = "close"] /\ UNCHANGED <<next, payments>> /\ n = Len(Rows) + 1
    BY <1>1, <1>4 DEF Record, Goto
  <2>2. ServiceTypeOK' /\ Stages' /\ Behind'
    BY <1>1, <1>3, <2>1 DEF ServiceTypeOK, Stages, Behind
  <2>3. OneOwner' /\ Books'
    BY <1>1, <2>1 DEF ServiceTypeOK, OneOwner, Books, Owner, AllSettled
  <2>4. QED
    BY <2>2, <2>3
<1>5. CASE n <= Len(Rows)
  <2>1. n \in DOMAIN Rows /\ n \in Nat /\ Rows # <<>>
    <3>1. n \in DOMAIN Rows /\ n \in Nat
      BY <1>1, <1>5
    <3>2. QED
      BY <1>1, <1>5, <3>1
  <2>2. Owner(e)
    BY <1>2, <2>1
  <2>3. /\ payments' = [payments EXCEPT ![n] = @ + 1]
        /\ next' = [next EXCEPT ![e] = @ + 1]
        /\ pc' = pc
    BY <1>1, <1>5 DEF Record
  <2>4. payments[n] = 0
    BY <1>1, <2>1 DEF Books
  <2>5. /\ payments'[n] = 1 /\ \A r \in DOMAIN Rows : r # n => payments'[r] = payments[r]
        /\ next'[e] = n + 1 /\ \A f \in Executions : f # e => next'[f] = next[f]
    BY <2>1, <2>3, <2>4 DEF ServiceTypeOK
  <2>6. ServiceTypeOK'
    <3>1. payments' \in [DOMAIN Rows -> Nat]
      BY <2>1, <2>3 DEF ServiceTypeOK
    <3>2. next' \in [Executions -> 1..(Len(Rows) + 1)]
      BY <1>1, <1>5, <2>3 DEF ServiceTypeOK
    <3>3. QED
      BY <1>1, <1>3, <2>3, <3>1, <3>2 DEF ServiceTypeOK
  <2>7. Stages' /\ Behind'
    BY <1>1, <2>3, <2>5 DEF Stages, Behind
  <2>8. OneOwner'
    BY <1>1, <2>3 DEF OneOwner, Owner
  <2>9. ~closed
    BY <2>1, <2>4 DEF Books
  <2>10. Books'
    <3>1. \A r \in DOMAIN Rows : payments'[r] <= 1 /\ (payments'[r] > 0 => AllSettled')
      <4>1. AllSettled'
        BY <1>1, <1>2 DEF AllSettled
      <4>2. QED
        BY <2>1, <2>5, <4>1 DEF Books
    <3>2. ASSUME NEW f \in Executions, NEW r \in DOMAIN Rows
          PROVE  /\ Owner(f)' /\ pc'[f] \in {"build", "poll"} => payments'[r] = 0
                 /\ pc'[f] \in {"record", "close"} => payments'[r] = IF r < next'[f] THEN 1 ELSE 0
      <4>1. CASE f = e
        <5>1. payments[r] = IF r < n THEN 1 ELSE 0
          BY <1>1 DEF Books
        <5>2. r \in Nat
          BY <1>1
        <5>3. QED
          BY <1>1, <2>1, <2>3, <2>5, <4>1, <5>1, <5>2
      <4>2. CASE f # e
        <5>1. ~Owner(f)
          BY <2>2, <4>2 DEF OneOwner
        <5>2. pc[f] \notin {"record", "close"}
          BY <2>1, <5>1, Through
        <5>3. ~Owner(f)'
          BY <1>1, <5>1 DEF Owner
        <5>4. QED
          BY <2>3, <5>2, <5>3
      <4>3. QED
        BY <4>1, <4>2
    <3>3. QED
      BY <1>1, <2>9, <3>1, <3>2 DEF Books
  <2>11. QED
    BY <2>6, <2>7, <2>8, <2>10
<1>6. QED
  BY <1>1, <1>4, <1>5

\* A request closes the offer after the last row.
LEMMA CloseStep ==
  ASSUME ServiceInv, NEW e \in Executions, Close(e)
  PROVE  ServiceInv'
<1> USE DEF ServiceInv, contract, vars, admins, database
<1>1. /\ pc[e] = "close" /\ next[e] = Len(Rows) + 1
      /\ pc' = [pc EXCEPT ![e] = "done"] /\ closed' = TRUE
      /\ UNCHANGED <<contract, batch, collected, next, tx, payments, faults>>
  BY DEF Close, Goto, Stages
<1>2. ServiceTypeOK'
  <2>1. TypeOK'
    BY <1>1 DEF ServiceTypeOK, TypeOK
  <2>2. QED
    BY <1>1, <2>1 DEF ServiceTypeOK
<1>3. Stages' /\ Behind' /\ OneOwner'
  BY <1>1 DEF ServiceTypeOK, Stages, Behind, OneOwner, Owner
<1>4. \A r \in DOMAIN Rows : payments[r] = 1
  <2>1. \A r \in DOMAIN Rows : r < next[e]
    BY <1>1, RowFacts
  <2>2. QED
    BY <1>1, <2>1 DEF Books
<1>5. Books'
  BY <1>1, <1>4 DEF ServiceTypeOK, Books, Owner, AllSettled
<1>6. QED
  BY <1>2, <1>3, <1>5

\* A batch that lands settles investors that were not: a first batch makes the only owner.
LEMMA LandStep ==
  ASSUME ServiceInv, NEW e \in Executions, Land(e)
  PROVE  ServiceInv'
<1> USE DEF ServiceInv, request, database
<1> DEFINE b == batch[e]
<1>1. /\ tx[e] = "pending" /\ pc[e] \in {"poll", "thrown"}
      /\ b \in 1..BatchCount /\ BatchCount \in Nat /\ b \in Nat
      /\ tx' = [tx EXCEPT ![e] = "success"]
      /\ UNCHANGED <<request, database, faults>>
  BY BatchesFacts DEF Land, Stages, ServiceTypeOK
<1>2. BatchFee(e) \in Nat
  BY <1>1, BatchFeeIsNat DEF ServiceTypeOK
<1>3. settled' = settled \cup Paid(b) /\ Paid(b) \cap settled = {} /\ Paid(b) # {}
  BY <1>1, ItemsFacts DEF Land, settle_batch, Accepts, Fresh, Paid
<1>4. TypeOK'
  <2> DEFINE fee == BatchFee(e)
  <2>1. settle_batch(Items(b), fee) /\ fee \in Nat
    BY <1>2 DEF Land
  <2> HIDE DEF fee, b
  <2>2. TypeOK
    BY DEF ServiceTypeOK
  <2>3. QED
    BY <1>1, <2>1, <2>2, BatchTyped
<1>5. /\ tx'[e] = "success" /\ \A f \in Executions : f # e => tx'[f] = tx[f]
      /\ UNCHANGED request
  BY <1>1 DEF ServiceTypeOK
<1>6. ServiceTypeOK'
  BY <1>1, <1>4 DEF ServiceTypeOK
<1>7. Stages'
  BY <1>1, <1>5 DEF Stages
<1>8. Behind'
  BY <1>1, <1>3, <1>5 DEF Behind
<1>9. CASE Owner(e)
  <2>1. \A f \in Executions : Owner(f)' <=> Owner(f)
    BY <1>5, <1>9 DEF Owner
  <2>2. OneOwner'
    BY <2>1 DEF OneOwner
  <2>3. Books'
    BY <1>1, <1>3, <2>1 DEF Books, AllSettled
  <2>4. QED
    BY <1>6, <1>7, <1>8, <2>2, <2>3
<1>10. CASE ~Owner(e)
  <2>1. b = 1
    BY <1>1, <1>10 DEF Owner
  <2>2. ~(Paid(1) \subseteq settled)
    BY <1>3, <2>1
  <2>3. \A f \in Executions : ~Owner(f)
    BY <2>2, OwnerPaid
  <2>4. \A f \in Executions : f # e => ~Owner(f)'
    BY <1>5, <2>3 DEF Owner
  <2>5. OneOwner'
    BY <2>4 DEF OneOwner
  <2>6. ~AllSettled
    BY <1>1, <2>1, <2>2 DEF AllSettled
  <2>7. \A r \in DOMAIN Rows : payments[r] = 0
    BY <2>6 DEF Books, ServiceTypeOK
  <2>8. Books'
    BY <1>1, <2>7 DEF Books
  <2>9. QED
    BY <1>6, <1>7, <1>8, <2>5, <2>8
<1>11. QED
  BY <1>9, <1>10

\* A transaction is lost or a request throws: neither makes an owner.
LEMMA FailureStep ==
  ASSUME ServiceInv, NEW e \in Executions, Fail(e) \/ Throw(e) \/ Drop(e)
  PROVE  ServiceInv'
<1> USE DEF ServiceInv, contract, vars, admins, database
<1>1. /\ \/ pc' = pc /\ tx[e] = "pending" /\ tx' = [tx EXCEPT ![e] = "failed"]
         \/ pc' = [pc EXCEPT ![e] = "thrown"] /\ tx' = tx
      /\ UNCHANGED <<contract, batch, collected, next, database>>
      /\ faults' \in 0..MaxFaults
  <2>1. faults \in 0..MaxFaults /\ MaxFaults \in Nat
    BY ServiceParameters DEF ServiceTypeOK
  <2>2. QED
    BY <2>1 DEF Fail, Throw, Drop, Fault, Goto, request
<1>2. ServiceTypeOK'
  <2>1. TypeOK'
    BY <1>1 DEF ServiceTypeOK, TypeOK
  <2>2. QED
    BY <1>1, <2>1 DEF ServiceTypeOK
<1>3. Stages' /\ Behind'
  BY <1>1 DEF ServiceTypeOK, Stages, Behind
<1>4. OneOwner'
  BY <1>1 DEF ServiceTypeOK, OneOwner, Owner
<1>5. Books'
  BY <1>1 DEF ServiceTypeOK, Books, Owner, AllSettled
<1>6. QED
  BY <1>2, <1>3, <1>4, <1>5

\* Whoever else touches the contract settles nobody.
LEMMA OtherStep ==
  ASSUME ServiceInv, Intervene \/ Prepare \/ UNCHANGED serviceVars
  PROVE  ServiceInv'
<1> USE DEF ServiceInv, request, database
<1>1. TypeOK' /\ settled' = settled
  <2>1. CASE UNCHANGED serviceVars
    BY <2>1 DEF ServiceTypeOK, TypeOK, serviceVars, contract, vars, admins
  <2>2. CASE Intervene \/ Prepare
    <3>1. \/ initialize \/ resume \/ pause
          \/ \E n \in 1..Purse[Company] : deposit(Company, n)
          \/ withdraw(Company, 1)
      BY <2>2 DEF Intervene, Prepare
    <3>2. TypeOK
      BY DEF ServiceTypeOK
    <3>3. QED
      BY <3>1, <3>2, OtherTyped
  <2>3. QED
    BY <2>1, <2>2
<1>2. UNCHANGED <<request, tx, database>>
  BY DEF Intervene, Prepare, serviceVars
<1>3. faults' \in 0..MaxFaults
  <2>1. faults \in 0..MaxFaults /\ MaxFaults \in Nat
    BY ServiceParameters DEF ServiceTypeOK
  <2>2. QED
    BY <2>1 DEF Intervene, Prepare, Fault, serviceVars
<1>4. ServiceTypeOK'
  BY <1>1, <1>2, <1>3 DEF ServiceTypeOK
<1>5. Stages' /\ Behind' /\ OneOwner' /\ Books'
  BY <1>1, <1>2 DEF Stages, Behind, OneOwner, Books, Owner, AllSettled
<1>6. QED
  BY <1>4, <1>5

LEMMA ServiceNextInv == ServiceInv /\ [ServiceNext]_serviceVars => ServiceInv'
<1> SUFFICES ASSUME ServiceInv, [ServiceNext]_serviceVars PROVE ServiceInv'
  OBVIOUS
<1>1. ASSUME NEW e \in Executions, Request(e) PROVE ServiceInv'
  BY <1>1, RequestStep
<1>2. ASSUME NEW e \in Executions, Validate(e) PROVE ServiceInv'
  BY <1>2, ValidateStep
<1>3. ASSUME NEW e \in Executions, Build(e) PROVE ServiceInv'
  BY <1>3, BuildStep
<1>4. ASSUME NEW e \in Executions, Poll(e) PROVE ServiceInv'
  BY <1>4, PollStep
<1>5. ASSUME NEW e \in Executions, Record(e) PROVE ServiceInv'
  BY <1>5, RecordStep
<1>6. ASSUME NEW e \in Executions, Close(e) PROVE ServiceInv'
  BY <1>6, CloseStep
<1>7. ASSUME NEW e \in Executions, Land(e) PROVE ServiceInv'
  BY <1>7, LandStep
<1>8. ASSUME NEW e \in Executions, Fail(e) \/ Throw(e) \/ Drop(e) PROVE ServiceInv'
  BY <1>8, FailureStep
<1>9. ASSUME Intervene \/ Prepare \/ UNCHANGED serviceVars PROVE ServiceInv'
  BY <1>9, OtherStep
<1>10. QED
  BY <1>1, <1>2, <1>3, <1>4, <1>5, <1>6, <1>7, <1>8, <1>9 DEF ServiceNext

LEMMA ServiceInvariance == ServiceSpec => []ServiceInv
  BY ServiceInitInv, ServiceNextInv, PTL DEF ServiceSpec

-----------------------------------------------------------------------------
(***************************************************************************)
(* The theorems                                                            *)
(***************************************************************************)

\* Every variable of the service and of the contract keeps its type.
THEOREM ServiceTypeCorrect == ServiceSpec => []ServiceTypeOK
<1>1. ServiceInv => ServiceTypeOK
  BY DEF ServiceInv
<1>2. QED
  BY <1>1, ServiceInvariance, PTL

\* A row has a payment record only if its investor was settled on chain, and never two,
\* however many requests overlap, throw and are repeated.
THEOREM RecordsAreSettled == ServiceSpec => []RecordedWasSettled
<1>1. ServiceInv => RecordedWasSettled
  <2> SUFFICES ASSUME ServiceInv, NEW r \in DOMAIN Rows
               PROVE  payments[r] <= IF Rows[r].by \in settled THEN 1 ELSE 0
    BY DEF RecordedWasSettled
  <2>2. payments[r] \in Nat /\ payments[r] <= 1 /\ (payments[r] > 0 => AllSettled)
    <3>1. payments[r] \in Nat
      BY DEF ServiceInv, ServiceTypeOK
    <3>2. payments[r] <= 1 /\ (payments[r] > 0 => AllSettled)
      BY DEF ServiceInv, Books
    <3>3. QED
      BY <3>1, <3>2
  <2>3. AllSettled => Rows[r].by \in settled
    BY AllSettledMeans
  <2>4. QED
    BY <2>2, <2>3
<1>2. QED
  BY <1>1, ServiceInvariance, PTL

\* A closed offer has exactly one payment record for every row.
THEOREM ClosedIsComplete == ServiceSpec => []ClosedMeansRecorded
<1>1. ServiceInv => ClosedMeansRecorded
  BY DEF ServiceInv, Books, ClosedMeansRecorded
<1>2. QED
  BY <1>1, ServiceInvariance, PTL

-----------------------------------------------------------------------------
(***************************************************************************)
(* What the investors receive                                              *)
(***************************************************************************)

\* A settled investor got what one of its rows owes, any other nothing.
PaidOneRow ==
  \A i \in Investors :
    IF i \in settled
    THEN \E r \in DOMAIN Rows : Rows[r].by = i /\ received[i] = Rows[r].owed
    ELSE received[i] = 0

\* An investor has bought once: with two rows the contract refuses the batch.
OneRowEach == \A q, r \in DOMAIN Rows : Rows[q].by = Rows[r].by => q = r

\* A batch pays each of its investors one of the investor's rows.
LEMMA PayoutIsRow ==
  ASSUME NEW b \in 1..BatchCount, NEW i \in Paid(b)
  PROVE  \E r \in DOMAIN Rows : Rows[r].by = i /\ PayoutOf(Items(b), i) = Rows[r].owed
<1>1. PICK k \in DOMAIN Items(b) : Items(b)[k].investor = i /\ PayoutOf(Items(b), i) = Items(b)[k].payout
  BY DEF Paid, Named, PayoutOf
<1>2. /\ k \in DOMAIN Members(b) /\ Members(b)[k].by = i
      /\ PayoutOf(Items(b), i) = Members(b)[k].owed
  BY <1>1, ItemsFacts
<1>3. First(b) + k - 1 \in DOMAIN Rows /\ Members(b)[k] = Rows[First(b) + k - 1]
  BY <1>2, MembersFacts
<1>4. QED
  BY <1>2, <1>3

\* Only a batch that lands pays investors, and none of them a second time.
LEMMA PaidOneRowStep == ServiceInv /\ PaidOneRow /\ [ServiceNext]_serviceVars => PaidOneRow'
<1> SUFFICES ASSUME ServiceInv, PaidOneRow, [ServiceNext]_serviceVars PROVE PaidOneRow'
  OBVIOUS
<1>1. CASE \E e \in Executions : Land(e)
  <2>1. PICK e \in Executions : Land(e)
    BY <1>1
  <2> DEFINE b == batch[e]
             fee == BatchFee(e)
  <2>2. b \in 1..BatchCount
    BY <2>1, BatchesFacts DEF Land, ServiceInv, Stages, ServiceTypeOK
  <2>3. settle_batch(Items(b), fee)
    BY <2>1 DEF Land
  <2> HIDE DEF b, fee
  <2>4. settled' = settled \cup Paid(b) /\ Paid(b) \cap settled = {}
    BY <2>3 DEF settle_batch, Accepts, Fresh, Paid
  <2>5. received' = [i \in Investors |->
          IF i \in Paid(b) THEN received[i] + PayoutOf(Items(b), i) ELSE received[i]]
    BY <2>3 DEF settle_batch, Paid
  <2>6. SUFFICES ASSUME NEW i \in Investors
                 PROVE  IF i \in settled'
                        THEN \E r \in DOMAIN Rows : Rows[r].by = i /\ received'[i] = Rows[r].owed
                        ELSE received'[i] = 0
    BY DEF PaidOneRow
  <2>7. CASE i \in Paid(b)
    <3>1. received[i] = 0
      BY <2>4, <2>7 DEF PaidOneRow
    <3>2. PICK r \in DOMAIN Rows : Rows[r].by = i /\ PayoutOf(Items(b), i) = Rows[r].owed
      BY <2>2, <2>7, PayoutIsRow
    <3>3. Rows[r].owed \in Nat
      BY RowFacts DEF Row
    <3>4. received'[i] = Rows[r].owed
      BY <2>5, <2>7, <3>1, <3>2, <3>3
    <3>5. QED
      BY <2>4, <2>7, <3>2, <3>4
  <2>8. CASE i \notin Paid(b)
    BY <2>4, <2>5, <2>8 DEF PaidOneRow
  <2>9. QED
    BY <2>7, <2>8
<1>2. CASE ~ \E e \in Executions : Land(e)
  <2>1. settled' = settled /\ received' = received
    <3>1. CASE Intervene \/ Prepare
      <4>1. \/ initialize \/ resume \/ pause
            \/ \E n \in 1..Purse[Company] : deposit(Company, n)
            \/ withdraw(Company, 1)
        BY <3>1 DEF Intervene, Prepare
      <4>2. TypeOK
        BY DEF ServiceInv, ServiceTypeOK
      <4>3. QED
        BY <4>1, <4>2, OtherTyped
    <3>2. CASE UNCHANGED serviceVars
      BY <3>2 DEF serviceVars, contract, vars, admins
    <3>3. ASSUME NEW e \in Executions,
                 \/ Request(e) \/ Validate(e) \/ Build(e) \/ Poll(e) \/ Record(e) \/ Close(e)
                 \/ Fail(e) \/ Throw(e) \/ Drop(e)
          PROVE  settled' = settled /\ received' = received
      BY <3>3 DEF Request, Validate, Build, Poll, Record, Close, Fail, Throw, Drop, contract, vars, admins
    <3>4. QED
      BY <1>2, <3>1, <3>2, <3>3 DEF ServiceNext
  <2>2. QED
    BY <2>1 DEF PaidOneRow
<1>3. QED
  BY <1>1, <1>2

\* What an investor with a single row is owed.
LEMMA OwedIsRow ==
  ASSUME OneRowEach, NEW r \in DOMAIN Rows
  PROVE  Owed(Rows[r].by) = Rows[r].owed
<1> DEFINE S == {q \in DOMAIN Rows : Rows[q].by = Rows[r].by}
           f == [q \in S |-> Rows[q].owed]
           Adds(g) == g = [s \in SUBSET S |->
                             IF s = {} THEN 0 ELSE Rows[Some(s)].owed + g[s \ {Some(s)}]]
<1>1. S = {r}
  BY DEF OneRowEach
<1>2. IsFiniteSet(S)
  BY <1>1, FS_Singleton
<1>3. f[r] = Rows[r].owed /\ Rows[r].owed \in Nat
  BY <1>1, RowFacts DEF Row
<1>4. Owed(Rows[r].by) = (CHOOSE g : Adds(g))[S]
  BY DEF Owed, MapThenSumSet, MapThenFoldSet, Some
<1>5. ASSUME NEW g PROVE Adds(g) <=> Sums(g, f, S)
  <2>1. \A s \in SUBSET S : s # {} => Rows[Some(s)].owed = f[Some(s)]
    BY SomeIn
  <2> HIDE DEF S
  <2>2. QED
    BY <2>1 DEF Sums
<1> HIDE DEF Adds, S
<1>6. Adds((CHOOSE g : Adds(g)))
  <2>1. PICK g : Sums(g, f, S)
    BY <1>2, SumsExist
  <2>2. QED
    BY <1>5, <2>1
<1>7. Owed(Rows[r].by) = SumOf(f, S)
  BY <1>2, <1>4, <1>5, <1>6, SumIs
<1> HIDE DEF f
<1>8. SumOf(f, S) = f[r] + SumOf(f, S \ {r})
  <2>1. \A x \in S : f[x] \in Nat
    BY <1>1, <1>3
  <2>2. S \in SUBSET S /\ r \in S
    BY <1>1
  <2>3. QED
    BY <1>2, <2>1, <2>2, SumSplit
<1>9. S \ {r} = {}
  BY <1>1
<1>10. SumOf(f, {}) = 0
  BY SumEmpty
<1>11. SumOf(f, S) = Rows[r].owed
  BY <1>3, <1>8, <1>9, <1>10
<1>12. QED
  BY <1>7, <1>11

\* No investor is paid twice, whatever requests are repeated and whichever of their
\* transactions land late.
THEOREM PaidOnce == ServiceSpec => []PaidOneRow
<1>1. ServiceInit => PaidOneRow
  BY DEF ServiceInit, Init, PaidOneRow
<1>2. QED
  BY <1>1, ServiceInvariance, PaidOneRowStep, PTL DEF ServiceSpec

\* An investor with one investment gets nothing, or all that it is owed.
THEOREM SettledIsPaidInFull == OneRowEach => (ServiceSpec => []PaidInFull)
<1> SUFFICES ASSUME OneRowEach PROVE ServiceSpec => []PaidInFull
  OBVIOUS
<1>1. PaidOneRow => PaidInFull
  <2> SUFFICES ASSUME PaidOneRow, NEW i \in Investors
               PROVE  received[i] = IF i \in settled THEN Owed(i) ELSE 0
    BY DEF PaidInFull
  <2>2. CASE i \in settled
    <3>1. PICK r \in DOMAIN Rows : Rows[r].by = i /\ received[i] = Rows[r].owed
      BY <2>2 DEF PaidOneRow
    <3>2. QED
      BY <2>2, <3>1, OwedIsRow
  <2>3. CASE i \notin settled
    BY <2>3 DEF PaidOneRow
  <2>4. QED
    BY <2>2, <2>3
<1>2. QED
  BY <1>1, PaidOnce, PTL

-----------------------------------------------------------------------------
(***************************************************************************)
(* The composition: what the service does on chain is a behaviour of the   *)
(* contract, so whatever is proved of the contract holds of both together. *)
(***************************************************************************)

\* The contract takes whatever amounts its callers pass.
AnyAmounts == Nat \subseteq Payouts /\ Nat \subseteq Fees /\ Nat \subseteq Transfers

\* The items of a batch are what settle_batch expects.
LEMMA ItemsAreBatch ==
  ASSUME AnyAmounts, NEW b \in 1..BatchCount, Len(Items(b)) <= MaxBatch
  PROVE  Items(b) \in Batches
<1> DEFINE n == Len(Members(b))
<1>1. n \in Nat \ {0} /\ n = Len(Items(b)) /\ DOMAIN Members(b) = 1..n
  BY ItemsFacts
<1>2. Items(b) = [k \in 1..n |-> [investor |-> Members(b)[k].by, payout |-> Members(b)[k].owed]]
  BY <1>1 DEF Items
<1>3. ASSUME NEW k \in 1..n PROVE Members(b)[k].by \in Investors /\ Members(b)[k].owed \in Payouts
  BY <1>1, ItemsFacts DEF AnyAmounts
<1>4. n \in 1..MaxBatch
  BY <1>1, Parameters
<1> HIDE DEF n
<1>5. Items(b) \in [1..n -> [investor : Investors, payout : Payouts]]
  BY <1>2, <1>3
<1>6. QED
  BY <1>4, <1>5 DEF Batches

\* A step of the service or the network leaves the contract alone or is one of its calls.
LEMMA StepIsCall ==
  ASSUME AnyAmounts, ServiceInv, [ServiceNext]_serviceVars
  PROVE  [Next]_vars
<1>1. CASE UNCHANGED serviceVars
  BY <1>1 DEF serviceVars, contract
<1>2. ASSUME NEW e \in Executions, Land(e) PROVE Next
  <2> DEFINE b == batch[e]
             fee == BatchFee(e)
  <2>1. b \in 1..BatchCount /\ collected[e] \in Nat
    BY <1>2, BatchesFacts DEF Land, ServiceInv, Stages, ServiceTypeOK
  <2>2. fee \in Fees
    BY <2>1, BatchFeeIsNat DEF AnyAmounts
  <2>3. settle_batch(Items(b), fee)
    BY <1>2 DEF Land
  <2> HIDE DEF fee, b
  <2>4. Items(b) \in Batches
    <3>1. Len(Items(b)) \in 1..MaxBatch
      BY <2>3 DEF settle_batch, Accepts
    <3>2. QED
      BY <2>1, <3>1, ItemsAreBatch, Parameters
  <2>5. QED
    BY <2>2, <2>3, <2>4 DEF Next
<1>3. CASE Intervene
  <2>1. 1 \in Transfers /\ Company \in Recipients
    BY ServiceParameters DEF AnyAmounts
  <2>2. QED
    BY <1>3, <2>1 DEF Intervene, Next
<1>4. CASE Prepare
  <2>1. 1..Purse[Company] \subseteq Transfers /\ Company \in Depositors
    BY ServiceParameters, Parameters, Addresses DEF AnyAmounts
  <2>2. QED
    BY <1>4, <2>1 DEF Prepare, Next
<1>5. ASSUME NEW e \in Executions,
             \/ Request(e) \/ Validate(e) \/ Build(e) \/ Poll(e) \/ Record(e) \/ Close(e)
             \/ Fail(e) \/ Throw(e) \/ Drop(e)
      PROVE  UNCHANGED vars
  BY <1>5 DEF Request, Validate, Build, Poll, Record, Close, Fail, Throw, Drop, contract
<1>6. QED
  BY <1>1, <1>2, <1>3, <1>4, <1>5 DEF ServiceNext

\* Requests that overlap, throw and are repeated only ever make the contract take steps of
\* its own specification: executeFullSettlement implements the contract's Spec.
THEOREM DrivesContract == AnyAmounts => (ServiceSpec => Spec)
<1> SUFFICES ASSUME AnyAmounts PROVE ServiceSpec => Spec
  OBVIOUS
<1>1. ServiceInit => Init
  BY DEF ServiceInit
<1>2. ServiceInv /\ [ServiceNext]_serviceVars => [Next]_vars
  BY StepIsCall
<1>3. QED
  BY <1>1, <1>2, ServiceInvariance, PTL DEF ServiceSpec, Spec

\* Hence the whole settlement, service and contract, settles every investor once and pays
\* nobody without burning the tokens: the service implements SettleOnce.
THEOREM SettlementIsOnce == AnyAmounts => (ServiceSpec => SettlesOnce)
<1> SUFFICES ASSUME AnyAmounts PROVE ServiceSpec => SettlesOnce
  OBVIOUS
<1>1. QED
  BY DrivesContract, Implements, PTL

=================================================================================
