----------------------------- MODULE YieldPayments -----------------------------
(***************************************************************************)
(* Periodic interest: CompanyPaymentService, YieldDistributorService and   *)
(* YieldPaymentReconciler, composed with the yield_distributor contract.   *)
(* The company prepares a payment, signs the authorisation of each of its  *)
(* batches and submits them; the backend relays each in a transaction of   *)
(* its own, counts the period, records the payments and closes the job.    *)
(* Nothing locks the offer: acquireLock has no caller.                     *)
(***************************************************************************)
EXTENDS Integers, FiniteSetsExt, SequencesExt

CONSTANTS
  MaxJobs,       \* bound on preparations, numbered in the order of createdAt
  MaxSubmissions,   \* bound on submit requests, numbered as they arrive
  Investments,   \* a sequence of [by, owed], in the order they get distributed
  Founding,      \* how many of them are distributed at the start
  SpreadNum, SpreadDen,   \* the spread ratio of the offer
  Expected,      \* computeTotalExpectedPayments
  BatchSize,     \* MAX_BATCH_SIZE of the backend
  MaxTries,      \* MAX_RETRIES + 1
  Accounts, Payer, Treasury, Admins, Deployer, NoOne, MaxBatch, MaxI128, Purse

ASSUME PaymentAssumption ==
  /\ Founding \in 0..Len(Investments)
  /\ Investments \in Seq([by : Accounts, owed : Nat])
  /\ SpreadNum \in Nat /\ SpreadDen \in Nat \ {0}
  /\ Expected \in Nat
  /\ BatchSize \in Nat \ {0} /\ MaxTries \in Nat \ {0}
  /\ MaxJobs \in Nat /\ MaxSubmissions \in Nat
  /\ {Payer, Treasury} \subseteq Accounts
  /\ Deployer \in Admins /\ NoOne \notin Admins
  /\ MaxBatch \in Nat /\ MaxI128 \in Nat
  /\ Purse \in [Accounts -> Nat]

VARIABLES
  admin, pendingAdmin, paused, usdc,   \* the contract
  distributed,   \* investments with status 'distributed', a prefix of Investments
  counter,       \* offer.periodicPaymentsCompleted
  due,           \* offer.paymentDueStatus, as the payments write it
  status,        \* yieldPaymentJob.status; "unsaved" when its insert failed
  size,          \* the investments a preparation pays: a prefix of Investments
  records,       \* interestPayment rows: a set of [sub, row]
  of, pc, batch, try, confirmed,   \* each submission: job, place, batch, attempt, results
  pending,       \* batches [sub, batch] the network may still pay, by whichever attempt
  landed,        \* batches paid
  stale          \* the reconciler's snapshot

contract == <<admin, pendingAdmin, paused, usdc>>
offerRow == <<distributed, counter, due>>
jobs     == <<status, size>>
handler  == <<of, pc, batch, try, confirmed>>
ledger   == <<pending, landed>>
vars     == <<contract, offerRow, jobs, records, handler, ledger, stale>>

C == INSTANCE YieldDistributor

Jobs        == 1..MaxJobs
Submissions == 1..MaxSubmissions

-----------------------------------------------------------------------------
\* The batches of a preparation that pays the first n investments.
Batches(n) == (n + BatchSize - 1) \div BatchSize

Rows(n, b) == {r \in 1..n : (r - 1) \div BatchSize = b - 1}

Items(n, b) ==
  LET first == (b - 1) * BatchSize
      last  == Min({b * BatchSize, n})
  IN [k \in 1..(last - first) |->
        [to |-> Investments[first + k].by, amount |-> Investments[first + k].owed]]

\* round7(batchGross * spreadRatio), in stroops.
FeeOf(items) == (2 * C!Payout(items) * SpreadNum + SpreadDen) \div (2 * SpreadDen)

\* usdcToStroops takes no zero, the contract decides about the rest.
Executable(n, b) ==
  FeeOf(Items(n, b)) > 0 /\ C!Accepts(Items(n, b), FeeOf(Items(n, b)))

LastBatch(s) == Batches(size[of[s]])

Paying == [sub : Submissions, batch : 1..Batches(Len(Investments))]

\* An authorisation entry has a nonce the ledger takes once.
Spent(j, b) == \E t \in landed : of[t.sub] = j /\ t.batch = b

TypeOK ==
  /\ C!TypeOK
  /\ distributed \in Founding..Len(Investments)
  /\ counter \in Nat
  /\ due \in {"current", "overdue"}
  /\ status \in [Jobs -> {"none", "unsaved", "prepared", "confirmed", "partial_failure", "failed"}]
  /\ size \in [Jobs -> 0..Len(Investments)]
  /\ stale \subseteq Jobs
  /\ records \subseteq [sub : Submissions, row : 1..Len(Investments)]
  /\ of \in [Submissions -> Jobs \cup {0}]
  /\ pc \in [Submissions -> {"idle", "send", "answer", "count", "record", "finish", "done"}]
  /\ batch \in [Submissions -> 1..Max({Batches(Len(Investments)), 1})]
  /\ try \in [Submissions -> 1..MaxTries]
  /\ confirmed \in [Submissions -> SUBSET (1..Batches(Len(Investments)))]
  /\ pending \subseteq Paying /\ landed \subseteq Paying

Init ==
  /\ C!Init
  /\ distributed = Founding /\ counter = 0 /\ due = "current"
  /\ status = [j \in Jobs |-> "none"] /\ size = [j \in Jobs |-> 0]
  /\ records = {}
  /\ of = [s \in Submissions |-> 0] /\ pc = [s \in Submissions |-> "idle"]
  /\ batch = [s \in Submissions |-> 1] /\ try = [s \in Submissions |-> 1]
  /\ confirmed = [s \in Submissions |-> {}]
  /\ pending = {} /\ landed = {}
  /\ stale = {}

Goto(s, label) == pc' = [pc EXCEPT ![s] = label]

\* The handlers return, their local variables are gone.
Return(subs) ==
  /\ pc' = [s \in Submissions |-> IF s \in subs THEN "done" ELSE pc[s]]
  /\ batch' = [s \in Submissions |-> IF s \in subs THEN 1 ELSE batch[s]]
  /\ try' = [s \in Submissions |-> IF s \in subs THEN 1 ELSE try[s]]
  /\ confirmed' = [s \in Submissions |-> IF s \in subs THEN {} ELSE confirmed[s]]

-----------------------------------------------------------------------------
(***************************************************************************)
(* createPaymentTransaction                                                *)
(***************************************************************************)

\* The schedule is not complete, every batch simulates by itself.  The insert of
\* the job is not fatal when it fails.
Prepare(j) ==
  /\ status[j] = "none"
  /\ \A i \in 1..(j - 1) : status[i] # "none"
  /\ counter < Expected
  /\ distributed > 0
  /\ \A b \in 1..Batches(distributed) : Executable(distributed, b)
  /\ size' = [size EXCEPT ![j] = distributed]
  /\ \/ status' = [status EXCEPT ![j] = "prepared"]
     \/ status' = [status EXCEPT ![j] = "unsaved"]
  /\ UNCHANGED <<contract, offerRow, records, handler, ledger, stale>>

-----------------------------------------------------------------------------
(***************************************************************************)
(* processSignedBatches and submitSingleBatch                              *)
(***************************************************************************)

\* The signed batches of any preparation, at any time; the job itself is not named
\* in the request.  The only check is the maturity guard.
Submit(s, j) ==
  /\ pc[s] = "idle"
  /\ \A r \in 1..(s - 1) : pc[r] # "idle"
  /\ status[j] # "none"
  /\ of' = [of EXCEPT ![s] = j]
  /\ Goto(s, IF counter < Expected THEN "send" ELSE "done")
  /\ UNCHANGED <<contract, offerRow, jobs, records, batch, try, confirmed, ledger, stale>>

\* Mutant of Advance: the last batch is followed by another one.
AdvanceTooFar(s, results) ==
  /\ confirmed' = [confirmed EXCEPT ![s] = results]
  /\ try' = [try EXCEPT ![s] = 1]
  /\ IF batch[s] <= LastBatch(s)
     THEN batch' = [batch EXCEPT ![s] = @ + 1] /\ Goto(s, "send")
     ELSE batch' = [batch EXCEPT ![s] = 1] /\ Goto(s, IF results = {} THEN "finish" ELSE "count")

\* The result of the current batch is known: on to the next one.
Advance(s, results) ==
  /\ confirmed' = [confirmed EXCEPT ![s] = results]
  /\ try' = [try EXCEPT ![s] = 1]
  /\ IF batch[s] < LastBatch(s)
     THEN batch' = [batch EXCEPT ![s] = @ + 1] /\ Goto(s, "send")
     ELSE batch' = [batch EXCEPT ![s] = 1] /\ Goto(s, IF results = {} THEN "finish" ELSE "count")

Current(s) == [sub |-> s, batch |-> batch[s]]

\* Mutant of Send: a used nonce is taken for an idempotent success.
SendIdempotent(s) ==
  /\ pc[s] = "send"
  /\ IF Executable(size[of[s]], batch[s]) /\ ~Spent(of[s], batch[s])
     THEN /\ pending' = pending \cup {Current(s)}
          /\ Goto(s, "answer")
          /\ UNCHANGED <<batch, try, confirmed>>
     ELSE /\ Advance(s, confirmed[s] \cup (IF Spent(of[s], batch[s]) THEN {batch[s]} ELSE {}))
          /\ UNCHANGED pending
  /\ UNCHANGED <<contract, offerRow, jobs, records, of, landed, stale>>

\* A fresh transaction around the signed authorisation; it is simulated first, and
\* a used nonce, a pause or a short balance is fatal for the batch.
Send(s) ==
  /\ pc[s] = "send"
  /\ IF Executable(size[of[s]], batch[s]) /\ ~Spent(of[s], batch[s])
     THEN /\ pending' = pending \cup {Current(s)}
          /\ Goto(s, "answer")
          /\ UNCHANGED <<batch, try, confirmed>>
     ELSE Advance(s, confirmed[s]) /\ UNCHANGED pending
  /\ UNCHANGED <<contract, offerRow, jobs, records, of, landed, stale>>

\* Horizon's answer.  When a batch was attempted before, the transaction that is
\* included need not be the one this handler waits for.
Answer(s) ==
  /\ pc[s] = "answer"
  /\ \/ /\ Current(s) \in landed
        /\ Advance(s, confirmed[s] \cup {batch[s]})
     \/ /\ Current(s) \notin pending
        /\ Current(s) \in landed => try[s] > 1
        /\ Advance(s, confirmed[s])
  /\ UNCHANGED <<contract, offerRow, jobs, records, of, ledger, stale>>

\* Mutant of NoAnswer: the attempts are not counted at the limit.
NoAnswerUnlimited(s) ==
  /\ pc[s] \in {"send", "answer"}
  /\ \/ /\ try' = [try EXCEPT ![s] = Min({@ + 1, MaxTries})]
        /\ Goto(s, "send")
        /\ UNCHANGED <<batch, confirmed>>
     \/ Advance(s, confirmed[s])
  /\ UNCHANGED <<contract, offerRow, jobs, records, of, ledger, stale>>

\* No answer: what classifyError takes for a timeout or an overload is tried again,
\* up to the limit, anything else (a 504 of Horizon) is fatal for the batch.
NoAnswer(s) ==
  /\ pc[s] \in {"send", "answer"}
  /\ \/ /\ try[s] < MaxTries
        /\ try' = [try EXCEPT ![s] = @ + 1]
        /\ Goto(s, "send")
        /\ UNCHANGED <<batch, confirmed>>
     \/ Advance(s, confirmed[s])
  /\ UNCHANGED <<contract, offerRow, jobs, records, of, ledger, stale>>

\* submitResult.success
Success(s) == confirmed[s] = 1..LastBatch(s)

\* The offer's update: the period counts when all batches are confirmed.  An error
\* of the database is only reported.
Count(s) ==
  /\ pc[s] = "count"
  /\ \/ /\ counter' = IF Success(s) THEN counter + 1 ELSE counter
        /\ due' = IF Success(s) THEN "current" ELSE "overdue"
     \/ UNCHANGED <<counter, due>>
  /\ Goto(s, "record")
  /\ UNCHANGED <<contract, distributed, jobs, records, of, batch, try, confirmed, ledger, stale>>

\* Mutant of Breakdown: everybody is recorded after a partial failure, too.
BreakdownOfAll(s) == distributed

\* The breakdown of now, or of nobody after a partial failure: the route passes no
\* investorIds.
Breakdown(s) == IF Success(s) THEN distributed ELSE 0

\* The hashes of all batches go into one column of 64 characters: one hash fits.
HashFits(s) == Cardinality(confirmed[s]) = 1

\* An investor can have one row with the same date and hash.
Unrepeated(n) == \A q, r \in 1..n : Investments[q].by = Investments[r].by => q = r

\* One insert after the other; the first error ends the request.
Record(s) ==
  /\ pc[s] = "record"
  /\ \E n \in 0..Breakdown(s) :
       /\ n > 0 => HashFits(s) /\ Unrepeated(n)
       /\ records' = records \cup [sub : {s}, row : 1..n]
       /\ IF n = Breakdown(s)
          THEN Goto(s, "finish") /\ UNCHANGED <<batch, try, confirmed>>
          ELSE Return({s})
  /\ UNCHANGED <<contract, offerRow, jobs, of, ledger, stale>>

\* Mutant of Outcome: one confirmed batch confirms the job.
OutcomeOfAny(s) == IF confirmed[s] # {} THEN "confirmed" ELSE "failed"

\* The final status of a submission with these results.
Outcome(s) ==
  IF Success(s) THEN "confirmed" ELSE IF confirmed[s] # {} THEN "partial_failure" ELSE "failed"

Prepared == {j \in Jobs : status[j] = "prepared"}

\* The most recent prepared job takes the outcome, whichever was submitted.
Finish(s) ==
  /\ pc[s] = "finish"
  /\ \/ /\ Prepared # {}
        /\ status' = [status EXCEPT ![Max(Prepared)] = Outcome(s)]
     \/ UNCHANGED status
  /\ Return({s})
  /\ UNCHANGED <<contract, offerRow, size, records, of, ledger, stale>>

-----------------------------------------------------------------------------
(***************************************************************************)
(* YieldPaymentReconciler.  txHashes is written together with a final      *)
(* status only, so a stale job never has any and fails after an hour: the  *)
(* snapshot may hold any prepared job of that age.                         *)
(***************************************************************************)

\* Mutant of FindStale: it looks for the jobs its header names.
FindSubmitting(j) ==
  /\ status[j] = "submitting"
  /\ stale' = stale \cup {j}
  /\ UNCHANGED <<contract, offerRow, jobs, records, handler, ledger>>

\* The job is found in the database.
FindStale(j) ==
  /\ status[j] = "prepared"
  /\ stale' = stale \cup {j}
  /\ UNCHANGED <<contract, offerRow, jobs, records, handler, ledger>>

FailStale(j) ==
  /\ j \in stale
  /\ status' = [status EXCEPT ![j] = "failed"]
  /\ stale' = stale \ {j}
  /\ UNCHANGED <<contract, offerRow, size, records, handler, ledger>>

-----------------------------------------------------------------------------
(***************************************************************************)
(* The ledger, time and everybody else                                     *)
(***************************************************************************)

\* A transaction is included with success: all others around the same authorisation
\* fail from then on, for its nonce.
Land(t) ==
  /\ t \in pending
  /\ LET items == Items(size[of[t.sub]], t.batch) IN C!distribute(items, FeeOf(items))
  /\ landed' = landed \cup {t}
  /\ pending' = {u \in pending : of[u.sub] # of[t.sub] \/ u.batch # t.batch}
  /\ UNCHANGED <<offerRow, jobs, records, handler, stale>>

\* A transaction fails on the ledger, or its sequence number or time bound is gone: of
\* interest to who waits for it, the others are as good as pending for ever.
Drop(t) ==
  /\ t \in pending /\ pc[t.sub] = "answer" /\ t = Current(t.sub) /\ try[t.sub] = 1
  /\ pending' = pending \ {t}
  /\ UNCHANGED <<contract, offerRow, jobs, records, handler, landed, stale>>

\* An investment reaches status 'distributed'.
Distribute ==
  /\ distributed < Len(Investments)
  /\ distributed' = distributed + 1
  /\ UNCHANGED <<contract, counter, due, jobs, records, handler, ledger, stale>>

Administer ==
  /\ C!Administer
  /\ UNCHANGED <<offerRow, jobs, records, handler, ledger, stale>>

Running == {s \in Submissions : pc[s] \notin {"idle", "done"}}

\* The process dies, and with it every handler and the reconciler's pass.  (One that
\* only interrupts the reconciler is as good as a pass that takes its time.)
Restart ==
  /\ Running # {}
  /\ Return(Running)
  /\ stale' = {}
  /\ UNCHANGED <<contract, offerRow, jobs, records, of, ledger>>

-----------------------------------------------------------------------------
Run(s) == Send(s) \/ Answer(s) \/ NoAnswer(s) \/ Count(s) \/ Record(s) \/ Finish(s)

Next ==
  \/ \E j \in Jobs : Prepare(j) \/ FindStale(j) \/ FailStale(j) \/ \E s \in Submissions : Submit(s, j)
  \/ \E s \in Submissions :
       Send(s) \/ Answer(s) \/ NoAnswer(s) \/ Count(s) \/ Record(s) \/ Finish(s)
  \/ \E t \in Paying : Land(t) \/ Drop(t)
  \/ Distribute \/ Administer \/ Restart

Spec == Init /\ [][Next]_vars

\* Started handlers run on, hours pass, the reconciler's interval fires.
Fairness ==
  /\ \A s \in Submissions : WF_vars(Run(s))
  /\ \A j \in Jobs : WF_vars(FindStale(j)) /\ WF_vars(FailStale(j))

FairSpec == Spec /\ Fairness

-----------------------------------------------------------------------------
(***************************************************************************)
(* Properties                                                              *)
(***************************************************************************)

\* How often the investment has been paid on the chain.
TimesPaid(r) == Cardinality({t \in landed : r \in Rows(size[of[t.sub]], t.batch)})

\* The maturity guard closes the schedule by the counter: it never runs ahead of
\* the money, though submissions overlap, are repeated and lose their answers.
CounterNeverAhead == \A r \in 1..Founding : counter <= TimesPaid(r)

\* A job is shown as confirmed at most as often as everybody was paid.
ConfirmedNeverAhead ==
  \A r \in 1..Founding : Cardinality({j \in Jobs : status[j] = "confirmed"}) <= TimesPaid(r)

PaidBy(s, r) == \E t \in landed : t.sub = s /\ r \in Rows(size[of[s]], t.batch)

\* An interest payment of an investment the preparation knew has a landed batch of
\* the submission that recorded it.
RecordedWasPaid ==
  \A p \in records : p.row <= size[of[p.sub]] => PaidBy(p.sub, p.row)

\* A prepared job reaches a final status, whatever becomes of its submission.
JobsSettle == \A j \in Jobs : status[j] = "prepared" ~> status[j] # "prepared"

\* Retries are bounded: a submission ends even when no answer ever arrives.
SubmissionsEnd == \A s \in Submissions : pc[s] = "send" ~> pc[s] = "done"

=============================================================================
