-------------------------- MODULE SettlementExecution --------------------------
(***************************************************************************)
(* SorobanSettlementService.executeFullSettlement, run against the         *)
(* maturity_settlement contract: one admin request pays all investors of a *)
(* bullet offer with locked tokens in batches of MAX_BATCH_SIZE, waits for *)
(* each, then writes one interest payment per row and closes the offer.    *)
(* Nothing locks the offer: several requests may run at once, any of them  *)
(* may throw between two awaits, and a transaction it gave up may land.    *)
(***************************************************************************)
EXTENDS MaturitySettlement

CONSTANTS
  Executions,    \* POST /settle requests in flight at the same time
  Rows,          \* the breakdown: [by, owed] of every distributed investment
  PlatformFee,   \* companyTotalInterest - totalInterest: 0 when there is no spread
  DefaultBps,    \* DEFAULT_SETTLEMENT_MAX_FEE_BPS, the cap the backend applies
  Company,       \* who deposits, and whom withdrawals go to
  MaxFaults      \* bound on throws, withdrawals, pauses and dropped transactions

\* A distributed investment has a wallet and an amount, so the filter that makes
\* allInvestors of the breakdown keeps every row.
ASSUME Breakdown == Rows \in Seq([by : Investors, owed : Nat \ {0}])

ASSUME ServiceParameters ==
  /\ PlatformFee \in Nat /\ DefaultBps \in Nat /\ MaxFaults \in Nat
  /\ MaxBatch > 0
  /\ Company \in Depositors /\ Company \in Recipients

VARIABLES
  pc, batch, collected, next,         \* each request: place, batch, fees so far, row to record
  tx,                                 \* the transaction of its current batch
  payments,                           \* interestPayment rows written for each row
  closed,                             \* offer.status = 'closed'
  faults

contract    == vars
request     == <<pc, batch, collected, next>>
database    == <<payments, closed>>
serviceVars == <<contract, request, tx, database, faults>>

-----------------------------------------------------------------------------
\* round7, in stroops.
Round(a, b) == (2 * a + b) \div (2 * b)

Sum(rows) == MapThenSumSet(LAMBDA k : rows[k].owed, DOMAIN rows)

\* computeSettlementDepositAmount
Required == Sum(Rows) + PlatformFee

\* One stroop.
DEPOSIT_TOLERANCE == 1

BatchCount == (Len(Rows) + MaxBatch - 1) \div MaxBatch

Members(b) ==
  SubSeq(Rows, (b - 1) * MaxBatch + 1, IF b = BatchCount THEN Len(Rows) ELSE b * MaxBatch)

\* Mutant: the items pay the fee to the investors as well.
ItemsWithFee(b) ==
  [k \in DOMAIN Members(b) |-> [investor |-> Members(b)[k].by, payout |-> Members(b)[k].owed + 1]]

Items(b) ==
  [k \in DOMAIN Members(b) |-> [investor |-> Members(b)[k].by, payout |-> Members(b)[k].owed]]

\* Mutant: a share of the fee is truncated, not rounded.
TruncatedShare(b) == (PlatformFee * Sum(Members(b))) \div Sum(Rows)

\* A batch's share of the fee, rounded.
Share(b) == Round(PlatformFee * Sum(Members(b)), Sum(Rows))

\* The last batch pays what the others have left over.
BatchFee(e) ==
  IF batch[e] = BatchCount
  THEN IF PlatformFee > collected[e] THEN PlatformFee - collected[e] ELSE 0
  ELSE Share(batch[e])

\* validateSettlementFeeCap: the backend's cap, with its own rate and rounding.
WithinFeeCap(fee, payout) ==
  fee > 0 /\ payout > 0 /\ DefaultBps > 0 => fee <= Round(payout * DefaultBps, Scale)

ServiceTypeOK ==
  /\ pc \in [Executions -> {"idle", "validate", "build", "poll", "record", "close", "done", "thrown"}]
  /\ batch \in [Executions -> 1..(BatchCount + 1)]
  /\ collected \in [Executions -> Nat]
  /\ next \in [Executions -> 1..(Len(Rows) + 1)]
  /\ tx \in [Executions -> {"none", "pending", "success", "failed"}]
  /\ payments \in [DOMAIN Rows -> Nat]
  /\ closed \in BOOLEAN
  /\ faults \in 0..MaxFaults
  /\ TypeOK

ServiceInit ==
  /\ Init
  /\ pc = [e \in Executions |-> "idle"]
  /\ batch = [e \in Executions |-> 1] /\ next = [e \in Executions |-> 1]
  /\ collected = [e \in Executions |-> 0]
  /\ tx = [e \in Executions |-> "none"]
  /\ payments = [r \in DOMAIN Rows |-> 0] /\ closed = FALSE
  /\ faults = 0

Goto(e, label) == pc' = [pc EXCEPT ![e] = label]

-----------------------------------------------------------------------------
\* Mutant: the batches are counted from zero.
RequestFromZero(e) ==
  /\ pc[e] \in {"idle", "done", "thrown"} /\ tx[e] # "pending"
  /\ Goto(e, "validate")
  /\ batch' = [batch EXCEPT ![e] = 0] /\ next' = [next EXCEPT ![e] = 1]
  /\ collected' = [collected EXCEPT ![e] = 0]
  /\ tx' = [tx EXCEPT ![e] = "none"]
  /\ UNCHANGED <<contract, database, faults>>

\* POST /settle: no check of the offer's status or maturity, no lock.  An operator
\* repeats a request after its predecessor's transaction is decided.
Request(e) ==
  /\ pc[e] \in {"idle", "done", "thrown"} /\ tx[e] # "pending"
  /\ Goto(e, "validate")
  /\ batch' = [batch EXCEPT ![e] = 1] /\ next' = [next EXCEPT ![e] = 1]
  /\ collected' = [collected EXCEPT ![e] = 0]
  /\ tx' = [tx EXCEPT ![e] = "none"]
  /\ UNCHANGED <<contract, database, faults>>

\* The fee cap over the whole offer, then the balance against all rows, the ones
\* an earlier request has settled included.  A balance DEPOSIT_TOLERANCE short is taken
\* for enough or not: the comparison is one of floating-point sums.
Validate(e) ==
  /\ pc[e] = "validate"
  /\ \/ /\ WithinFeeCap(PlatformFee, Sum(Rows))
        /\ usdc[Contract] + DEPOSIT_TOLERANCE >= Required
        /\ Goto(e, IF Rows = <<>> THEN "record" ELSE "build")
     \/ /\ ~WithinFeeCap(PlatformFee, Sum(Rows)) \/ usdc[Contract] < Required
        /\ Goto(e, "thrown")
  /\ UNCHANGED <<contract, batch, collected, next, tx, database, faults>>

\* usdcToStroops takes no zero, so neither does the fee of a batch; then the
\* transaction is simulated, signed and sent.
Build(e) ==
  LET fee == BatchFee(e) IN
  /\ pc[e] = "build"
  /\ IF /\ WithinFeeCap(fee, Sum(Members(batch[e])))
        /\ fee > 0
        /\ Accepts(Items(batch[e]), fee)
     THEN Goto(e, "poll") /\ tx' = [tx EXCEPT ![e] = "pending"]
     ELSE Goto(e, "thrown") /\ UNCHANGED tx
  /\ UNCHANGED <<contract, batch, collected, next, database, faults>>

\* Mutant: a batch that has failed is skipped.
SkipFailedBatch(e) ==
  /\ pc[e] = "poll"
  /\ tx[e] \in {"success", "failed"}
  /\ collected' = [collected EXCEPT ![e] = @ + BatchFee(e)]
  /\ batch' = [batch EXCEPT ![e] = @ + 1]
  /\ Goto(e, IF batch[e] = BatchCount THEN "record" ELSE "build")
  /\ UNCHANGED <<contract, next, tx, database, faults>>

\* The poll's answer: the next batch, or the records after the last one.
Poll(e) ==
  /\ pc[e] = "poll"
  /\ \/ /\ tx[e] = "success"
        /\ collected' = [collected EXCEPT ![e] = @ + BatchFee(e)]
        /\ batch' = [batch EXCEPT ![e] = @ + 1]
        /\ Goto(e, IF batch[e] = BatchCount THEN "record" ELSE "build")
     \/ /\ tx[e] = "failed"
        /\ Goto(e, "thrown")
        /\ UNCHANGED <<batch, collected>>
  /\ UNCHANGED <<contract, next, tx, database, faults>>

\* Mutant: the records stop one row short.
RecordAllButLast(e) ==
  /\ pc[e] = "record"
  /\ IF next[e] >= Len(Rows)
     THEN Goto(e, "close") /\ UNCHANGED <<next, payments>>
     ELSE /\ payments' = [payments EXCEPT ![next[e]] = @ + 1]
          /\ next' = [next EXCEPT ![e] = @ + 1]
          /\ UNCHANGED pc
  /\ UNCHANGED <<contract, batch, collected, tx, closed, faults>>

\* _recordPayments: one insert after the other, without a transaction.
Record(e) ==
  /\ pc[e] = "record"
  /\ IF next[e] > Len(Rows)
     THEN Goto(e, "close") /\ UNCHANGED <<next, payments>>
     ELSE /\ payments' = [payments EXCEPT ![next[e]] = @ + 1]
          /\ next' = [next EXCEPT ![e] = @ + 1]
          /\ UNCHANGED pc
  /\ UNCHANGED <<contract, batch, collected, tx, closed, faults>>

Close(e) ==
  /\ pc[e] = "close"
  /\ closed' = TRUE
  /\ Goto(e, "done")
  /\ UNCHANGED <<contract, batch, collected, next, tx, payments, faults>>

Run(e) == Validate(e) \/ Build(e) \/ Poll(e) \/ Record(e) \/ Close(e)

-----------------------------------------------------------------------------
\* The batch is included in a ledger, whether or not anybody still polls for it.
Land(e) ==
  /\ tx[e] = "pending"
  /\ settle_batch(Items(batch[e]), BatchFee(e))
  /\ tx' = [tx EXCEPT ![e] = "success"]
  /\ UNCHANGED <<request, database, faults>>

\* The batch is included and fails, since the contract has moved on.
Fail(e) ==
  /\ tx[e] = "pending"
  /\ ~Accepts(Items(batch[e]), BatchFee(e))
  /\ tx' = [tx EXCEPT ![e] = "failed"]
  /\ UNCHANGED <<contract, request, database, faults>>

Fault == faults < MaxFaults /\ faults' = faults + 1

\* The 60 seconds of polling are over, an RPC or database call throws, or the
\* process restarts.
Throw(e) ==
  /\ Fault
  /\ pc[e] \in {"validate", "build", "poll", "record", "close"}
  /\ Goto(e, "thrown")
  /\ UNCHANGED <<contract, batch, collected, next, tx, database>>

\* The network drops the transaction: a used sequence number, 300 seconds passed.
Drop(e) ==
  /\ Fault
  /\ tx[e] = "pending"
  /\ tx' = [tx EXCEPT ![e] = "failed"]
  /\ UNCHANGED <<contract, request, database>>

\* The admin pauses the contract or takes USDC out of it.
Intervene ==
  /\ Fault
  /\ pause \/ withdraw(Company, 1)
  /\ UNCHANGED <<request, tx, database>>

\* The company funds the contract, in any number of deposits; a pause ends.
Prepare ==
  /\ initialize \/ resume \/ \E n \in 1..Purse[Company] : deposit(Company, n)
  /\ UNCHANGED <<request, tx, database, faults>>

ServiceNext ==
  \/ \E e \in Executions :
       \/ Request(e) \/ Validate(e) \/ Build(e) \/ Poll(e) \/ Record(e) \/ Close(e)
       \/ Land(e) \/ Fail(e) \/ Throw(e) \/ Drop(e)
  \/ Intervene
  \/ Prepare

ServiceSpec == ServiceInit /\ [][ServiceNext]_serviceVars

(***************************************************************************)
(* The event loop runs every request on, the network decides every pending *)
(* transaction, the contract is prepared, and the operator repeats a       *)
(* request that failed: as much help as the code can expect.               *)
(***************************************************************************)
Fairness ==
  /\ \A e \in Executions :
       /\ WF_serviceVars(Request(e)) /\ WF_serviceVars(Run(e))
       /\ WF_serviceVars(Land(e)) /\ WF_serviceVars(Fail(e))
  /\ WF_serviceVars(Prepare)

FairSpec == ServiceSpec /\ Fairness

-----------------------------------------------------------------------------
(***************************************************************************)
(* Properties                                                              *)
(***************************************************************************)

Owed(i) == MapThenSumSet(LAMBDA r : Rows[r].owed, {r \in DOMAIN Rows : Rows[r].by = i})

\* The books follow the chain: a row has a payment record only if its investor was
\* settled, and never two, though requests overlap, throw and are repeated.
RecordedWasSettled ==
  \A r \in DOMAIN Rows : payments[r] <= IF Rows[r].by \in settled THEN 1 ELSE 0

\* A closed offer has all its records.
ClosedMeansRecorded == closed => \A r \in DOMAIN Rows : payments[r] = 1

\* The contract paid each investor nothing, or all that its rows are owed.
PaidInFull ==
  \A i \in Investors : received[i] = IF i \in settled THEN Owed(i) ELSE 0

Funded == initialized /\ ~paused /\ usdc[Contract] >= Required

\* The service's lifecycle: as long as nothing is thrown, dropped, paused or taken
\* out, overlapping requests included, a contract that has held the whole sum is settled
\* and closed.  One stroop less, and the service may start what it cannot finish.
CoveredSettles == [](faults = 0) => (Funded ~> closed)

=============================================================================
