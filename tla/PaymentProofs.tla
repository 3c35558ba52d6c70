----------------------------- MODULE PaymentProofs -----------------------------
(***************************************************************************)
(* Proofs about what a company pays: the payments themselves               *)
(* (YieldPayments) and the schedule they are due by (PaymentSchedule).     *)
(*                                                                         *)
(* YieldPayments, for any investors, batch size, number of preparations,   *)
(* submissions and attempts.  Every property compares what the database    *)
(* says with what the ledger paid, so the inductive invariant follows a    *)
(* result from the ledger into the handler (Results), and bounds the       *)
(* counter and the confirmed jobs by the submissions all of whose batches  *)
(* landed (Counted).                                                       *)
(***************************************************************************)
EXTENDS YieldPayments, PaymentSchedule, NumberTheorems

\* A submission that was sent names a preparation that pays somebody, and the reconciler
\* remembers preparations.
Submitted ==
  /\ \A j \in stale : status[j] # "none"
  /\ \A j \in Jobs : status[j] # "none" => size[j] > 0 /\ size[j] >= Founding
  /\ \A s \in Submissions : pc[s] # "idle" => of[s] \in Jobs /\ status[of[s]] # "none"

\* Which batch a handler is at.
Places ==
  \A s \in Submissions :
    IF pc[s] \in {"send", "answer"} THEN batch[s] <= LastBatch(s) ELSE batch[s] = 1

\* Only submissions reach the ledger, and a handler knows of batches that landed.
Results ==
  /\ \A t \in pending \cup landed : pc[t.sub] # "idle" /\ t.batch <= LastBatch(t.sub)
  /\ \A s \in Submissions : \A b \in confirmed[s] : [sub |-> s, batch |-> b] \in landed

AllPaid(s) == \A b \in 1..LastBatch(s) : [sub |-> s, batch |-> b] \in landed

\* What was recorded was recorded by a submission all of whose batches landed.
Booked == \A p \in records : pc[p.sub] # "idle" /\ AllPaid(p.sub)

\* The submissions that may have counted a period or confirmed a job.
Served    == {s \in Submissions : pc[s] \in {"record", "finish", "done"} /\ AllPaid(s)}
Ended     == {s \in Submissions : pc[s] = "done" /\ AllPaid(s)}
Confirmed == {j \in Jobs : status[j] = "confirmed"}

Counted ==
  /\ counter <= Cardinality(Served)
  /\ Cardinality(Confirmed) <= Cardinality(Ended)

IInv == TypeOK /\ Submitted /\ Places /\ Results /\ Booked /\ Counted

-----------------------------------------------------------------------------
(***************************************************************************)
(* Batches and rows                                                        *)
(***************************************************************************)

LEMMA ParameterTypes ==
  /\ BatchSize \in Nat \ {0} /\ Len(Investments) \in Nat /\ Founding \in Nat
  /\ Founding <= Len(Investments)
  /\ SpreadNum \in Nat /\ SpreadDen \in Nat \ {0} /\ MaxTries \in Nat \ {0}
  /\ Expected \in Nat /\ MaxJobs \in Nat /\ MaxSubmissions \in Nat
  BY PaymentAssumption

\* More investors need at least as many batches.
LEMMA BatchesFacts ==
  ASSUME NEW n \in Nat
  PROVE  /\ Batches(n) \in Nat /\ (n > 0 => Batches(n) > 0)
         /\ Batches(n) = (n - 1) \div BatchSize + 1
         /\ \A m \in Nat : n <= m => Batches(n) <= Batches(m)
<1> USE ParameterTypes
<1>1. Batches(n) \in Nat
  BY DivBounds DEF Batches
<1>2. Batches(n) = (n - 1) \div BatchSize + 1
  <2> DEFINE q == (n - 1) \div BatchSize
  <2>1. q \in Int /\ q * BatchSize <= n - 1 /\ n - 1 < (q + 1) * BatchSize
    BY DivBounds
  <2> HIDE DEF q
  <2>2. (q + 1) * BatchSize <= n + BatchSize - 1 /\ n + BatchSize - 1 < (q + 1 + 1) * BatchSize
    BY <2>1
  <2>3. q + 1 \in Int /\ n + BatchSize - 1 \in Int
    BY <2>1
  <2>4. (n + BatchSize - 1) \div BatchSize = q + 1
    BY <2>2, <2>3, DivIs
  <2>5. QED
    BY <2>4 DEF Batches, q
<1>3. n > 0 => Batches(n) > 0
  <2>1. n > 0 => (n - 1) \div BatchSize \in Nat
    BY DivBounds
  <2>2. QED
    BY <1>2, <2>1
<1>4. \A m \in Nat : n <= m => Batches(n) <= Batches(m)
  BY DivMonotone DEF Batches
<1>5. QED
  BY <1>1, <1>2, <1>3, <1>4

\* The batch an investment is paid in: the same for every preparation that knows it.
BatchOf(r) == (r - 1) \div BatchSize + 1

LEMMA RowsFacts ==
  ASSUME NEW n \in Nat, NEW r \in 1..n
  PROVE  /\ BatchOf(r) \in 1..Batches(n)
         /\ r \in Rows(n, BatchOf(r))
         /\ \A m \in Nat, b \in Int : r \in Rows(m, b) => b = BatchOf(r)
<1> USE ParameterTypes
<1>1. (r - 1) \div BatchSize \in Nat
  BY DivBounds
<1>2. (r - 1) \div BatchSize <= (n - 1) \div BatchSize
  BY DivMonotone
<1>3. BatchOf(r) \in 1..Batches(n)
  BY <1>1, <1>2, BatchesFacts DEF BatchOf
<1>4. r \in Rows(n, BatchOf(r))
  BY <1>1 DEF Rows, BatchOf
<1>5. \A m \in Nat, b \in Int : r \in Rows(m, b) => b = BatchOf(r)
  BY <1>1 DEF Rows, BatchOf
<1>6. QED
  BY <1>3, <1>4, <1>5

\* The last batch any preparation can have.
LEMMA BatchLimit ==
  LET top == Batches(Len(Investments))
  IN  top \in Nat /\ Max({top, 1}) \in Nat /\ Max({top, 1}) >= top /\ Max({top, 1}) >= 1
<1> DEFINE top == Batches(Len(Investments))
<1>1. top \in Nat
  BY ParameterTypes, BatchesFacts
<1> HIDE DEF top
<1>2. IsFiniteSet({top, 1}) /\ (\A x \in {top, 1} : x \in Nat) /\ {top, 1} # {}
  <2>1. IsFiniteSet({top}) /\ {top} \cup {1} = {top, 1}
    BY FS_Singleton
  <2>2. IsFiniteSet({top} \cup {1})
    BY <2>1, FS_AddElement
  <2>3. QED
    BY <1>1, <2>1, <2>2
<1>3. Max({top, 1}) \in {top, 1} /\ \A x \in {top, 1} : x <= Max({top, 1})
  BY <1>2, MaxIn
<1>4. QED
  BY <1>1, <1>3 DEF top

-----------------------------------------------------------------------------
(***************************************************************************)
(* What a batch pays                                                       *)
(***************************************************************************)

\* A sum over some items of a batch is a number.
LEMMA PayoutIsNat ==
  ASSUME NEW items, NEW l \in Int, DOMAIN items = 1..l, \A k \in 1..l : items[k].amount \in Nat,
         NEW S \in SUBSET (1..l)
  PROVE  C!PayoutOf(items, S) \in Nat
<1> DEFINE f == [k \in 1..l |-> items[k].amount]
           Adds(g) == g = [s \in SUBSET S |->
                             IF s = {} THEN 0 ELSE items[Some(s)].amount + g[s \ {Some(s)}]]
<1>1. IsFiniteSet(1..l) /\ IsFiniteSet(S)
  <2>1. IsFiniteSet(1..l)
    BY FS_Interval
  <2>2. QED
    BY <2>1, FS_Subset
<1>2. ASSUME NEW g PROVE Adds(g) <=> Sums(g, f, S)
  <2>1. \A s \in SUBSET S : s # {} => items[Some(s)].amount = f[Some(s)]
    BY SomeIn
  <2>2. QED
    BY <2>1 DEF Sums
<1>3. C!PayoutOf(items, S) = (CHOOSE g : Adds(g))[S]
  BY DEF C!PayoutOf, C!MapThenSumSet, C!MapThenFoldSet, Some
<1> HIDE DEF Adds
<1>4. Adds((CHOOSE g : Adds(g)))
  <2>1. PICK g : Sums(g, f, S)
    BY <1>1, SumsExist
  <2>2. QED
    BY <1>2, <2>1
<1>5. C!PayoutOf(items, S) = SumOf(f, S)
  BY <1>1, <1>2, <1>3, <1>4, SumIs
<1>6. \A k \in 1..l : f[k] \in Nat
  OBVIOUS
<1> HIDE DEF f
<1>7. QED
  BY <1>1, <1>5, <1>6, SumType

\* The items of a batch pay amounts to accounts.
LEMMA ItemsTyped ==
  ASSUME NEW n \in 0..Len(Investments), NEW b \in Nat \ {0}
  PROVE  \E l \in Int :
           /\ DOMAIN Items(n, b) = 1..l
           /\ \A k \in 1..l : Items(n, b)[k].amount \in Nat
<1> DEFINE first == (b - 1) * BatchSize
           last  == Min({b * BatchSize, n})
<1>1. first \in Nat /\ b * BatchSize \in Nat /\ n \in Nat /\ n <= Len(Investments)
  <2>1. b - 1 \in Nat /\ b \in Nat /\ BatchSize \in Nat
    BY ParameterTypes
  <2>2. QED
    BY <2>1, ParameterTypes
<1> HIDE DEF first
<1>2. last \in Int /\ last <= n
  <2> DEFINE top == b * BatchSize
  <2> HIDE DEF top
  <2>1. top \in Int /\ n \in Int
    BY <1>1 DEF top
  <2>2. Min({top, n}) \in {top, n} /\ Min({top, n}) <= n
    BY <2>1, MinOfTwo
  <2>3. QED
    BY <2>1, <2>2 DEF top
<1> HIDE DEF last
<1>3. \A k \in 1..(last - first) : first + k \in 1..Len(Investments)
  BY <1>1, <1>2, ParameterTypes
<1>4. \A q \in 1..Len(Investments) : Investments[q] \in [by : Accounts, owed : Nat]
  <2> DEFINE R == [by : Accounts, owed : Nat]
  <2>1. Investments \in Seq(R)
    BY PaymentAssumption
  <2> HIDE DEF R
  <2>2. \A q \in 1..Len(Investments) : Investments[q] \in R
    BY <2>1
  <2>3. QED
    BY <2>2 DEF R
<1>5. Items(n, b) = [k \in 1..(last - first) |->
        [to |-> Investments[first + k].by, amount |-> Investments[first + k].owed]]
  BY DEF Items, first, last
<1>6. \A k \in 1..(last - first) : Items(n, b)[k].amount \in Nat
  BY <1>3, <1>4, <1>5
<1>7. last - first \in Int
  BY <1>1, <1>2
<1>8. QED
  BY <1>5, <1>6, <1>7

\* A batch that lands leaves nobody with a negative balance.
LEMMA DistributeTyped ==
  ASSUME C!TypeOK, NEW n \in 0..Len(Investments), NEW b \in Nat \ {0},
         C!distribute(Items(n, b), FeeOf(Items(n, b)))
  PROVE  C!TypeOK'
<1> DEFINE items == Items(n, b)
           fee == FeeOf(items)
<1>1. PICK l \in Int : DOMAIN items = 1..l /\ \A k \in 1..l : items[k].amount \in Nat
  BY ItemsTyped
<1> HIDE DEF items
<1>2. C!Payout(items) \in Nat
  BY <1>1, PayoutIsNat DEF C!Payout
<1>3. \A a \in Accounts : C!To(a, items) \in Nat
  <2>1. SUFFICES ASSUME NEW a \in Accounts PROVE C!To(a, items) \in Nat
    OBVIOUS
  <2>2. {k \in DOMAIN items : items[k].to = a} \in SUBSET (1..l)
    BY <1>1
  <2>3. QED
    BY <1>1, <2>2, PayoutIsNat DEF C!To
<1>4. fee \in Int
  <2>1. 2 * C!Payout(items) * SpreadNum + SpreadDen \in Nat
    <3>1. 2 * C!Payout(items) \in Nat /\ SpreadNum \in Nat
      BY <1>2, ParameterTypes
    <3>2. QED
      BY <3>1, ParameterTypes
  <2>2. 2 * SpreadDen \in Nat \ {0}
    BY ParameterTypes
  <2>3. QED
    BY <2>1, <2>2, DivBounds DEF FeeOf
<1>5. C!Accepts(items, fee) /\ UNCHANGED <<admin, pendingAdmin, paused>>
  BY DEF C!distribute, items
<1>6. usdc' = [a \in Accounts |-> usdc[a] + C!Credit(a, items, fee)
                                   - (IF a = Payer THEN C!Payout(items) + fee ELSE 0)]
  BY DEF C!distribute, items
<1> HIDE DEF fee
<1>7. fee >= 0 /\ C!Payout(items) + fee <= usdc[Payer] /\ usdc \in [Accounts -> Nat]
  BY <1>5 DEF C!Accepts, C!TypeOK
<1>8. \A a \in Accounts : C!Credit(a, items, fee) \in Nat
  BY <1>3, <1>4, <1>7 DEF C!Credit
<1>9. usdc' \in [Accounts -> Nat]
  <2>1. ASSUME NEW a \in Accounts
        PROVE  usdc[a] + C!Credit(a, items, fee)
                 - (IF a = Payer THEN C!Payout(items) + fee ELSE 0) \in Nat
    <3>1. C!Credit(a, items, fee) \in Nat /\ usdc[a] \in Nat
      BY <1>7, <1>8
    <3>2. QED
      BY <1>2, <1>4, <1>7, <3>1
  <2>2. QED
    BY <1>6, <2>1
<1>10. QED
  BY <1>5, <1>9 DEF C!TypeOK

\* The admin moves no money.
LEMMA AdministerTyped ==
  ASSUME C!TypeOK, C!Administer
  PROVE  C!TypeOK'
  BY DEF C!TypeOK, C!Administer, C!pause, C!resume, C!set_admin, C!propose_admin, C!accept_admin

-----------------------------------------------------------------------------
(***************************************************************************)
(* What no step takes back                                                 *)
(***************************************************************************)

Afterwards == {"record", "finish", "done"}

\* Started submissions stay what they are, known preparations too, and the ledger keeps
\* what it paid.
Steady ==
  /\ \A s \in Submissions :
       /\ pc[s] # "idle" => pc'[s] # "idle" /\ of'[s] = of[s]
       /\ pc[s] \in Afterwards => pc'[s] \in Afterwards
       /\ pc[s] = "done" => pc'[s] = "done"
  /\ \A j \in Jobs : status[j] # "none" => size'[j] = size[j] /\ status'[j] # "none"
  /\ landed \subseteq landed'

\* What was prepared most recently is prepared.
LEMMA PreparedMax ==
  ASSUME TypeOK, Prepared # {}
  PROVE  Max(Prepared) \in Jobs /\ status[Max(Prepared)] = "prepared"
<1>1. IsFiniteSet(Jobs)
  BY FS_Interval, ParameterTypes DEF Jobs
<1>2. Prepared \in SUBSET Jobs
  BY DEF Prepared
<1>3. IsFiniteSet(Prepared)
  BY <1>1, <1>2, FS_Subset
<1>4. \A j \in Prepared : j \in Nat
  BY <1>2, ParameterTypes DEF Jobs
<1>5. Max(Prepared) \in Prepared
  BY <1>3, <1>4, MaxIn
<1>6. QED
  BY <1>5 DEF Prepared

LEMMA StepIsSteady ==
  ASSUME IInv, [Next]_vars
  PROVE  Steady
<1> USE DEF IInv, TypeOK, Steady, Afterwards, Goto
<1>1. ASSUME NEW j \in Jobs, Prepare(j) PROVE Steady
  BY <1>1 DEF Prepare, handler, ledger
<1>2. ASSUME NEW j \in Jobs, FindStale(j) PROVE Steady
  BY <1>2 DEF FindStale, handler, ledger, jobs
<1>3. ASSUME NEW j \in Jobs, FailStale(j) PROVE Steady
  BY <1>3 DEF FailStale, handler, ledger
<1>4. ASSUME NEW j \in Jobs, NEW s \in Submissions, Submit(s, j) PROVE Steady
  BY <1>4 DEF Submit, ledger, jobs
<1>5. ASSUME NEW s \in Submissions, Send(s) PROVE Steady
  BY <1>5 DEF Send, Advance, jobs
<1>6. ASSUME NEW s \in Submissions, Answer(s) PROVE Steady
  BY <1>6 DEF Answer, Advance, ledger, jobs
<1>7. ASSUME NEW s \in Submissions, NoAnswer(s) PROVE Steady
  BY <1>7 DEF NoAnswer, Advance, ledger, jobs
<1>8. ASSUME NEW s \in Submissions, Count(s) PROVE Steady
  BY <1>8 DEF Count, ledger, jobs
<1>9. ASSUME NEW s \in Submissions, Record(s) PROVE Steady
  BY <1>9 DEF Record, Return, ledger, jobs
<1>10. ASSUME NEW s \in Submissions, Finish(s) PROVE Steady
  <2>1. \A j \in Jobs : status[j] # "none" => status'[j] # "none"
    BY <1>10, PreparedMax DEF Finish, Outcome
  <2>2. QED
    BY <1>10, <2>1 DEF Finish, Return, ledger
<1>11. ASSUME NEW t \in Paying, Land(t) PROVE Steady
  BY <1>11 DEF Land, handler, jobs
<1>12. ASSUME NEW t \in Paying, Drop(t) PROVE Steady
  BY <1>12 DEF Drop, handler, jobs
<1>13. ASSUME Distribute PROVE Steady
  BY <1>13 DEF Distribute, handler, jobs, ledger
<1>14. ASSUME Administer PROVE Steady
  BY <1>14 DEF Administer, handler, jobs, ledger
<1>15. ASSUME Restart PROVE Steady
  BY <1>15 DEF Restart, Return, Running, jobs, ledger
<1>16. ASSUME UNCHANGED vars PROVE Steady
  BY <1>16 DEF vars, handler, jobs, ledger
<1> HIDE DEF IInv, TypeOK, Steady, Afterwards, Goto
<1>17. QED
  BY <1>1, <1>2, <1>3, <1>4, <1>5, <1>6, <1>7, <1>8, <1>9, <1>10, <1>11, <1>12, <1>13, <1>14,
     <1>15, <1>16 DEF Next

\* A started submission's preparation has at least one batch.
LEMMA LastBatchFacts ==
  ASSUME TypeOK, Submitted, NEW s \in Submissions, pc[s] # "idle"
  PROVE  /\ of[s] \in Jobs /\ size[of[s]] \in 1..Len(Investments) /\ size[of[s]] >= Founding
         /\ LastBatch(s) \in Nat \ {0}
         /\ LastBatch(s) <= Batches(Len(Investments))
<1>1. of[s] \in Jobs /\ size[of[s]] \in 1..Len(Investments) /\ size[of[s]] >= Founding
  BY ParameterTypes DEF TypeOK, Submitted
<1>2. size[of[s]] \in Nat /\ size[of[s]] > 0 /\ size[of[s]] <= Len(Investments)
  BY <1>1, ParameterTypes
<1>3. QED
  BY <1>1, <1>2, BatchesFacts, ParameterTypes DEF LastBatch

\* So the batches of a submission and what is known of them stay.
LEMMA SteadyKeeps ==
  ASSUME IInv, Steady
  PROVE  /\ \A s \in Submissions : pc[s] # "idle" =>
              LastBatch(s)' = LastBatch(s) /\ (AllPaid(s) => AllPaid(s)')
         /\ Served \subseteq Served' /\ Ended \subseteq Ended'
<1>1. \A s \in Submissions : pc[s] # "idle" => LastBatch(s)' = LastBatch(s)
  BY DEF IInv, Submitted, Steady, LastBatch, Batches
<1>2. \A s \in Submissions : pc[s] # "idle" /\ AllPaid(s) => AllPaid(s)'
  BY <1>1 DEF AllPaid, Steady
<1>3. QED
  BY <1>1, <1>2 DEF Served, Ended, Steady, Afterwards

-----------------------------------------------------------------------------
(***************************************************************************)
(* Counting                                                                *)
(***************************************************************************)

LEMMA FiniteCounts ==
  /\ IsFiniteSet(Submissions) /\ IsFiniteSet(Jobs)
  /\ IsFiniteSet(Served) /\ IsFiniteSet(Ended) /\ IsFiniteSet(Confirmed)
  /\ IsFiniteSet(Served') /\ IsFiniteSet(Ended') /\ IsFiniteSet(Confirmed')
<1>1. IsFiniteSet(Submissions) /\ IsFiniteSet(Jobs)
  <2>1. 1 \in Int /\ MaxJobs \in Int /\ MaxSubmissions \in Int
    BY ParameterTypes
  <2>2. IsFiniteSet(1..MaxJobs) /\ IsFiniteSet(1..MaxSubmissions)
    BY <2>1, FS_Interval
  <2>3. QED
    BY <2>2 DEF Submissions, Jobs
<1>2. /\ Served \in SUBSET Submissions /\ Ended \in SUBSET Submissions
      /\ Served' \in SUBSET Submissions /\ Ended' \in SUBSET Submissions
      /\ Confirmed \in SUBSET Jobs /\ Confirmed' \in SUBSET Jobs
  BY DEF Served, Ended, Confirmed
<1>3. QED
  BY <1>1, <1>2, FS_Subset

\* A set with a new element is larger by one at least.
LEMMA OneMore ==
  ASSUME NEW S, NEW T, IsFiniteSet(T), S \subseteq T, NEW x \in T, x \notin S
  PROVE  Cardinality(S) \in Nat /\ Cardinality(T) \in Nat /\ Cardinality(S) + 1 <= Cardinality(T)
<1>1. IsFiniteSet(S) /\ S \cup {x} \in SUBSET T
  BY FS_Subset
<1>2. Cardinality(S \cup {x}) = Cardinality(S) + 1
  BY <1>1, FS_AddElement
<1>3. Cardinality(S \cup {x}) <= Cardinality(T)
  BY <1>1, FS_Subset
<1>4. Cardinality(S) \in Nat /\ Cardinality(T) \in Nat
  BY <1>1, FS_CardinalityType
<1>5. QED
  BY <1>2, <1>3, <1>4

\* The counter moves with a submission that is served from then on.
LEMMA CounterStep ==
  ASSUME IInv, Steady,
         \/ counter' = counter
         \/ counter' = counter + 1 /\ \E s \in Served' : s \notin Served
  PROVE  counter' <= Cardinality(Served')
<1>1. /\ Served \subseteq Served' /\ counter \in Nat /\ counter <= Cardinality(Served)
      /\ IsFiniteSet(Served) /\ IsFiniteSet(Served')
  BY SteadyKeeps, FiniteCounts DEF IInv, TypeOK, Counted
<1>2. CASE counter' = counter
  <2>1. Cardinality(Served) <= Cardinality(Served')
    BY <1>1, FS_Subset
  <2>2. Cardinality(Served) \in Nat /\ Cardinality(Served') \in Nat
    BY <1>1, FS_CardinalityType
  <2>3. QED
    BY <1>1, <1>2, <2>1, <2>2
<1>3. CASE counter' = counter + 1 /\ \E s \in Served' : s \notin Served
  <2>1. PICK s \in Served' : s \notin Served
    BY <1>3
  <2>2. /\ Cardinality(Served) \in Nat /\ Cardinality(Served') \in Nat
        /\ Cardinality(Served) + 1 <= Cardinality(Served')
    BY <1>1, <2>1, OneMore
  <2>3. QED
    BY <1>1, <1>3, <2>2
<1>4. QED
  BY <1>2, <1>3

\* A job is confirmed with a submission that has ended from then on.
LEMMA ConfirmedStep ==
  ASSUME IInv, Steady,
         \/ Confirmed' \subseteq Confirmed
         \/ /\ \E j \in Jobs : Confirmed' \subseteq Confirmed \cup {j}
            /\ \E s \in Ended' : s \notin Ended
  PROVE  Cardinality(Confirmed') <= Cardinality(Ended')
<1>1. /\ Ended \subseteq Ended' /\ Cardinality(Confirmed) <= Cardinality(Ended)
      /\ IsFiniteSet(Ended) /\ IsFiniteSet(Ended')
      /\ IsFiniteSet(Confirmed) /\ IsFiniteSet(Confirmed')
  BY SteadyKeeps, FiniteCounts DEF IInv, Counted
<1>2. /\ Cardinality(Ended) \in Nat /\ Cardinality(Ended') \in Nat
      /\ Cardinality(Confirmed) \in Nat /\ Cardinality(Confirmed') \in Nat
  BY <1>1, FS_CardinalityType
<1>3. CASE Confirmed' \subseteq Confirmed
  <2>1. Cardinality(Ended) <= Cardinality(Ended')
    BY <1>1, FS_Subset
  <2>2. Cardinality(Confirmed') <= Cardinality(Confirmed)
    BY <1>1, <1>3, FS_Subset
  <2>3. QED
    BY <1>1, <1>2, <2>1, <2>2
<1>4. CASE /\ \E j \in Jobs : Confirmed' \subseteq Confirmed \cup {j}
           /\ \E s \in Ended' : s \notin Ended
  <2>1. PICK j \in Jobs : Confirmed' \subseteq Confirmed \cup {j}
    BY <1>4
  <2>2. PICK s \in Ended' : s \notin Ended
    BY <1>4
  <2>3. Cardinality(Ended) + 1 <= Cardinality(Ended')
    BY <1>1, <2>2, OneMore
  <2>4. IsFiniteSet(Confirmed \cup {j})
        /\ Cardinality(Confirmed \cup {j}) <= Cardinality(Confirmed) + 1
        /\ Cardinality(Confirmed \cup {j}) \in Nat
    <3>1. /\ IsFiniteSet(Confirmed \cup {j})
          /\ Cardinality(Confirmed \cup {j})
               = IF j \in Confirmed THEN Cardinality(Confirmed) ELSE Cardinality(Confirmed) + 1
      BY <1>1, FS_AddElement
    <3>2. QED
      BY <1>2, <3>1
  <2>5. Cardinality(Confirmed') <= Cardinality(Confirmed \cup {j})
    BY <2>1, <2>4, FS_Subset
  <2>6. QED
    BY <1>1, <1>2, <2>3, <2>4, <2>5
<1>5. QED
  BY <1>3, <1>4

-----------------------------------------------------------------------------
(***************************************************************************)
(* The invariant                                                           *)
(***************************************************************************)

\* Nothing has been prepared, submitted or paid.
LEMMA InitInv == Init => IInv
<1> SUFFICES ASSUME Init PROVE IInv
  OBVIOUS
<1>1. C!TypeOK
  BY PaymentAssumption DEF Init, C!Init, C!TypeOK
<1>2. TypeOK
  <2>1. 1 \in 1..Max({Batches(Len(Investments)), 1}) /\ 1 \in 1..MaxTries
    BY BatchLimit, ParameterTypes
  <2>2. Founding \in Founding..Len(Investments) /\ 0 \in 0..Len(Investments)
    BY ParameterTypes
  <2>3. QED
    BY <1>1, <2>1, <2>2 DEF Init, TypeOK
<1>3. Submitted /\ Places /\ Results /\ Booked
  BY DEF Init, Submitted, Places, Results, Booked
<1>4. Counted
  <2>1. Served = {} /\ Ended = {} /\ Confirmed = {}
    BY DEF Init, Served, Ended, Confirmed
  <2>2. QED
    BY <2>1, FS_EmptySet DEF Init, Counted
<1>5. QED
  BY <1>2, <1>3, <1>4 DEF IInv

\* What a handler takes for confirmed are batches of its preparation.
LEMMA KnownBatches ==
  ASSUME TypeOK, Submitted, Results, NEW s \in Submissions, pc[s] # "idle"
  PROVE  confirmed[s] \in SUBSET (1..LastBatch(s))
<1>1. SUFFICES ASSUME NEW b \in confirmed[s] PROVE b \in 1..LastBatch(s)
  OBVIOUS
<1>2. b \in 1..Batches(Len(Investments))
  BY DEF TypeOK
<1>3. b <= LastBatch(s)
  <2> DEFINE t == [sub |-> s, batch |-> b]
  <2>1. t \in landed /\ t.sub = s /\ t.batch = b
    BY DEF Results
  <2> HIDE DEF t
  <2>2. t.batch <= LastBatch(t.sub)
    BY <2>1 DEF Results
  <2>3. QED
    BY <2>1, <2>2
<1>4. QED
  BY <1>2, <1>3, LastBatchFacts, BatchLimit

\* The facts a step keeps when it changes neither the preparations nor the records.
LEMMA BookedStays ==
  ASSUME IInv, Steady, records' = records
  PROVE  Booked'
  BY SteadyKeeps DEF IInv, TypeOK, Booked, Steady

\* The result of a batch is known: the handler goes on to a batch it has, or is past them.
LEMMA AdvanceStep ==
  ASSUME TypeOK, Submitted, NEW s \in Submissions, pc[s] \in {"send", "answer"},
         batch[s] <= LastBatch(s),
         NEW results \in SUBSET (1..LastBatch(s)), Advance(s, results)
  PROVE  /\ pc' \in [Submissions -> {"idle", "send", "answer", "count", "record", "finish", "done"}]
         /\ batch' \in [Submissions -> 1..Max({Batches(Len(Investments)), 1})]
         /\ try' \in [Submissions -> 1..MaxTries]
         /\ confirmed' \in [Submissions -> SUBSET (1..Batches(Len(Investments)))]
         /\ confirmed'[s] = results
         /\ IF pc'[s] \in {"send", "answer"} THEN batch'[s] <= LastBatch(s) ELSE batch'[s] = 1
         /\ \A r \in Submissions : r # s =>
              pc'[r] = pc[r] /\ batch'[r] = batch[r] /\ confirmed'[r] = confirmed[r]
<1> DEFINE top == Batches(Len(Investments))
           high == Max({top, 1})
<1>1. /\ LastBatch(s) \in Nat \ {0} /\ LastBatch(s) <= top
      /\ top \in Nat /\ high \in Nat /\ high >= top /\ high >= 1
  BY LastBatchFacts, BatchLimit
<1>2. /\ batch \in [Submissions -> 1..high] /\ try \in [Submissions -> 1..MaxTries]
      /\ confirmed \in [Submissions -> SUBSET (1..top)]
      /\ pc \in [Submissions -> {"idle", "send", "answer", "count", "record", "finish", "done"}]
  BY DEF TypeOK
<1>3. confirmed' = [confirmed EXCEPT ![s] = results] /\ try' = [try EXCEPT ![s] = 1]
  BY DEF Advance
<1>4. results \in SUBSET (1..top) /\ 1 \in 1..MaxTries
  BY <1>1, ParameterTypes
<1>5. /\ try' \in [Submissions -> 1..MaxTries]
      /\ confirmed' \in [Submissions -> SUBSET (1..top)]
      /\ confirmed'[s] = results
      /\ \A r \in Submissions : r # s => confirmed'[r] = confirmed[r]
  BY <1>2, <1>3, <1>4
<1>6. \/ /\ batch[s] < LastBatch(s)
         /\ batch' = [batch EXCEPT ![s] = @ + 1] /\ pc' = [pc EXCEPT ![s] = "send"]
      \/ /\ batch' = [batch EXCEPT ![s] = 1]
         /\ pc' = [pc EXCEPT ![s] = IF results = {} THEN "finish" ELSE "count"]
  BY DEF Advance, Goto
<1> HIDE DEF top, high
<1>7. CASE /\ batch[s] < LastBatch(s)
           /\ batch' = [batch EXCEPT ![s] = @ + 1] /\ pc' = [pc EXCEPT ![s] = "send"]
  <2>1. batch[s] + 1 \in 1..high /\ batch[s] + 1 <= LastBatch(s)
    BY <1>1, <1>2, <1>7
  <2>2. QED
    BY <1>2, <1>5, <1>7, <2>1 DEF top, high
<1>8. CASE /\ batch' = [batch EXCEPT ![s] = 1]
           /\ pc' = [pc EXCEPT ![s] = IF results = {} THEN "finish" ELSE "count"]
  <2>1. 1 \in 1..high
    BY <1>1
  <2>2. pc'[s] \in {"finish", "count"} /\ batch'[s] = 1
    BY <1>2, <1>8
  <2>3. QED
    BY <1>2, <1>5, <1>8, <2>1, <2>2 DEF top, high
<1>9. QED
  BY <1>6, <1>7, <1>8

\* A step of one handler that only relays and waits.
LEMMA HandlerStep ==
  ASSUME IInv, Steady, NEW s \in Submissions, pc[s] # "idle",
         UNCHANGED <<contract, offerRow, jobs, records, of, landed, stale>>,
         pc' \in [Submissions -> {"idle", "send", "answer", "count", "record", "finish", "done"}],
         batch' \in [Submissions -> 1..Max({Batches(Len(Investments)), 1})],
         try' \in [Submissions -> 1..MaxTries],
         confirmed' \in [Submissions -> SUBSET (1..Batches(Len(Investments)))],
         \A b \in confirmed'[s] : [sub |-> s, batch |-> b] \in landed,
         IF pc'[s] \in {"send", "answer"} THEN batch'[s] <= LastBatch(s) ELSE batch'[s] = 1,
         \A r \in Submissions : r # s =>
           pc'[r] = pc[r] /\ batch'[r] = batch[r] /\ confirmed'[r] = confirmed[r],
         pending' \subseteq Paying,
         \A t \in pending' : t \in pending \/ (t.sub = s /\ t.batch <= LastBatch(s))
  PROVE  IInv'
<1>1. /\ UNCHANGED <<admin, pendingAdmin, paused, usdc, distributed, counter, due, status, size,
                     records, of, landed, stale>>
  BY DEF contract, offerRow, jobs
<1>2. \A r \in Submissions : LastBatch(r)' = LastBatch(r)
  BY <1>1 DEF LastBatch, Batches
<1>3. TypeOK'
  BY <1>1 DEF IInv, TypeOK, C!TypeOK
<1>4. Submitted'
  BY <1>1 DEF IInv, Submitted
<1>5. Places'
  BY <1>2 DEF IInv, Places
<1>6. Results'
  <2>1. \A t \in pending' \cup landed' : pc'[t.sub] # "idle" /\ t.batch <= LastBatch(t.sub)'
    <3>1. SUFFICES ASSUME NEW t \in pending' \cup landed'
                   PROVE  pc'[t.sub] # "idle" /\ t.batch <= LastBatch(t.sub)'
      OBVIOUS
    <3>2. t.sub \in Submissions
      BY <1>1 DEF IInv, TypeOK, Paying
    <3>3. CASE t \in pending \cup landed
      BY <1>2, <3>2, <3>3 DEF IInv, Results, Steady
    <3>4. CASE t.sub = s /\ t.batch <= LastBatch(s)
      BY <1>2, <3>2, <3>4 DEF Steady
    <3>5. QED
      BY <1>1, <3>3, <3>4
  <2>2. \A r \in Submissions : \A b \in confirmed'[r] : [sub |-> r, batch |-> b] \in landed'
    BY <1>1 DEF IInv, Results
  <2>3. QED
    BY <2>1, <2>2 DEF Results
<1>7. Booked'
  BY <1>1, BookedStays
<1>8. Counted'
  <2>1. counter' <= Cardinality(Served')
    BY <1>1, CounterStep
  <2>2. Confirmed' \subseteq Confirmed
    BY <1>1 DEF Confirmed
  <2>3. Cardinality(Confirmed') <= Cardinality(Ended')
    BY <2>2, ConfirmedStep
  <2>4. QED
    BY <2>1, <2>3 DEF Counted
<1>9. QED
  BY <1>3, <1>4, <1>5, <1>6, <1>7, <1>8 DEF IInv

\* Where a relaying handler stands.
LEMMA Relaying ==
  ASSUME IInv, NEW s \in Submissions, pc[s] \in {"send", "answer"}
  PROVE  /\ pc[s] # "idle" /\ batch[s] <= LastBatch(s) /\ batch[s] \in 1..LastBatch(s)
         /\ confirmed[s] \in SUBSET (1..LastBatch(s))
         /\ \A b \in confirmed[s] : [sub |-> s, batch |-> b] \in landed
         /\ Current(s) \in Paying
<1>1. pc[s] # "idle" /\ batch[s] <= LastBatch(s)
  BY DEF IInv, Places
<1>2. /\ LastBatch(s) \in Nat \ {0} /\ LastBatch(s) <= Batches(Len(Investments))
      /\ Batches(Len(Investments)) \in Nat
  BY <1>1, LastBatchFacts, BatchLimit DEF IInv
<1>3. batch[s] \in 1..Max({Batches(Len(Investments)), 1}) /\ Max({Batches(Len(Investments)), 1}) \in Nat
  BY BatchLimit DEF IInv, TypeOK
<1>4. batch[s] \in 1..LastBatch(s) /\ batch[s] \in 1..Batches(Len(Investments))
  BY <1>1, <1>2, <1>3
<1>5. confirmed[s] \in SUBSET (1..LastBatch(s))
  BY <1>1, KnownBatches DEF IInv
<1>6. QED
  BY <1>1, <1>4, <1>5 DEF IInv, Results, Current, Paying

\* A handler goes on with results that are landed batches.
LEMMA AdvanceInv ==
  ASSUME IInv, Steady, NEW s \in Submissions, pc[s] \in {"send", "answer"},
         UNCHANGED <<contract, offerRow, jobs, records, of, landed, stale>>, pending' = pending,
         NEW results \in SUBSET (1..LastBatch(s)),
         \A b \in results : [sub |-> s, batch |-> b] \in landed,
         Advance(s, results)
  PROVE  IInv'
<1>1. pc[s] # "idle" /\ batch[s] <= LastBatch(s)
  BY Relaying
<1>2. TypeOK /\ Submitted /\ pending \subseteq Paying
  BY DEF IInv, TypeOK
<1>3. /\ pc' \in [Submissions -> {"idle", "send", "answer", "count", "record", "finish", "done"}]
      /\ batch' \in [Submissions -> 1..Max({Batches(Len(Investments)), 1})]
      /\ try' \in [Submissions -> 1..MaxTries]
      /\ confirmed' \in [Submissions -> SUBSET (1..Batches(Len(Investments)))]
      /\ confirmed'[s] = results
      /\ IF pc'[s] \in {"send", "answer"} THEN batch'[s] <= LastBatch(s) ELSE batch'[s] = 1
      /\ \A r \in Submissions : r # s =>
           pc'[r] = pc[r] /\ batch'[r] = batch[r] /\ confirmed'[r] = confirmed[r]
  BY <1>1, <1>2, AdvanceStep
<1>4. QED
  BY <1>1, <1>2, <1>3, HandlerStep

LEMMA SendStep ==
  ASSUME IInv, Steady, NEW s \in Submissions, Send(s)
  PROVE  IInv'
<1>1. pc[s] = "send" /\ UNCHANGED <<contract, offerRow, jobs, records, of, landed, stale>>
  BY DEF Send
<1>2. /\ pc[s] # "idle" /\ batch[s] <= LastBatch(s) /\ batch[s] \in 1..LastBatch(s)
      /\ confirmed[s] \in SUBSET (1..LastBatch(s))
      /\ \A b \in confirmed[s] : [sub |-> s, batch |-> b] \in landed
      /\ Current(s) \in Paying
  BY <1>1, Relaying
<1>3. TypeOK /\ Submitted /\ pending \subseteq Paying
  BY DEF IInv, TypeOK
<1>4. CASE /\ pending' = pending \cup {Current(s)} /\ pc' = [pc EXCEPT ![s] = "answer"]
           /\ UNCHANGED <<batch, try, confirmed>>
  <2>1. /\ pc' \in [Submissions -> {"idle", "send", "answer", "count", "record", "finish", "done"}]
        /\ pc'[s] = "answer" /\ \A r \in Submissions : r # s => pc'[r] = pc[r]
    BY <1>3, <1>4 DEF TypeOK
  <2>2. /\ pending' \subseteq Paying
        /\ \A t \in pending' : t \in pending \/ (t.sub = s /\ t.batch <= LastBatch(s))
    BY <1>2, <1>3, <1>4 DEF Current
  <2>3. /\ batch' \in [Submissions -> 1..Max({Batches(Len(Investments)), 1})]
        /\ try' \in [Submissions -> 1..MaxTries]
        /\ confirmed' \in [Submissions -> SUBSET (1..Batches(Len(Investments)))]
        /\ batch' = batch /\ confirmed' = confirmed
    BY <1>3, <1>4 DEF TypeOK
  <2>4. QED
    BY <1>1, <1>2, <2>1, <2>2, <2>3, HandlerStep
<1>5. CASE Advance(s, confirmed[s]) /\ UNCHANGED pending
  BY <1>1, <1>2, <1>5, AdvanceInv
<1>6. QED
  BY <1>4, <1>5 DEF Send, Goto


LEMMA AnswerStep ==
  ASSUME IInv, Steady, NEW s \in Submissions, Answer(s)
  PROVE  IInv'
<1>1. /\ pc[s] = "answer" /\ pending' = pending
      /\ UNCHANGED <<contract, offerRow, jobs, records, of, landed, stale>>
  BY DEF Answer, ledger
<1>2. /\ batch[s] \in 1..LastBatch(s) /\ confirmed[s] \in SUBSET (1..LastBatch(s))
      /\ \A b \in confirmed[s] : [sub |-> s, batch |-> b] \in landed
  BY <1>1, Relaying
<1>3. CASE Current(s) \in landed /\ Advance(s, confirmed[s] \cup {batch[s]})
  <2>1. /\ confirmed[s] \cup {batch[s]} \in SUBSET (1..LastBatch(s))
        /\ \A b \in confirmed[s] \cup {batch[s]} : [sub |-> s, batch |-> b] \in landed
    BY <1>2, <1>3 DEF Current
  <2>2. QED
    BY <1>1, <1>3, <2>1, AdvanceInv
<1>4. CASE Advance(s, confirmed[s])
  BY <1>1, <1>2, <1>4, AdvanceInv
<1>5. QED
  BY <1>3, <1>4 DEF Answer

LEMMA NoAnswerStep ==
  ASSUME IInv, Steady, NEW s \in Submissions, NoAnswer(s)
  PROVE  IInv'
<1>1. /\ pc[s] \in {"send", "answer"} /\ pending' = pending
      /\ UNCHANGED <<contract, offerRow, jobs, records, of, landed, stale>>
  BY DEF NoAnswer, ledger
<1>2. /\ pc[s] # "idle" /\ batch[s] <= LastBatch(s)
      /\ confirmed[s] \in SUBSET (1..LastBatch(s))
      /\ \A b \in confirmed[s] : [sub |-> s, batch |-> b] \in landed
  BY <1>1, Relaying
<1>3. CASE /\ try[s] < MaxTries /\ try' = [try EXCEPT ![s] = @ + 1]
           /\ pc' = [pc EXCEPT ![s] = "send"] /\ UNCHANGED <<batch, confirmed>>
  <2>1. TypeOK /\ pending \subseteq Paying
    BY DEF IInv, TypeOK
  <2>2. /\ pc' \in [Submissions -> {"idle", "send", "answer", "count", "record", "finish", "done"}]
        /\ pc'[s] = "send" /\ \A r \in Submissions : r # s => pc'[r] = pc[r]
    BY <1>3, <2>1 DEF TypeOK
  <2>3. try' \in [Submissions -> 1..MaxTries]
    BY <1>3, <2>1, ParameterTypes DEF TypeOK
  <2>4. /\ batch' \in [Submissions -> 1..Max({Batches(Len(Investments)), 1})]
        /\ confirmed' \in [Submissions -> SUBSET (1..Batches(Len(Investments)))]
        /\ batch' = batch /\ confirmed' = confirmed
    BY <1>3, <2>1 DEF TypeOK
  <2>5. QED
    BY <1>1, <1>2, <2>1, <2>2, <2>3, <2>4, HandlerStep
<1>4. CASE Advance(s, confirmed[s])
  BY <1>1, <1>2, <1>4, AdvanceInv
<1>5. QED
  BY <1>3, <1>4 DEF NoAnswer, Goto

\* A step that leaves the handlers alone.
LEMMA QuietStep ==
  ASSUME IInv, Steady, UNCHANGED <<pc, batch, confirmed>>,
         \A t \in pending' : t \in pending,
         \A t \in landed' : t \in landed \/ t \in pending
  PROVE  Places' /\ Results'
<1>1. Places'
  <2>1. SUFFICES ASSUME NEW s \in Submissions
                 PROVE  (IF pc[s] \in {"send", "answer"} THEN batch[s] <= LastBatch(s)
                         ELSE batch[s] = 1)'
    BY DEF Places
  <2>2. pc[s] \in {"send", "answer"} => LastBatch(s)' = LastBatch(s)
    BY SteadyKeeps
  <2>3. QED
    BY <2>2 DEF IInv, Places
<1>2. \A t \in pending' \cup landed' : pc'[t.sub] # "idle" /\ t.batch <= LastBatch(t.sub)'
  <2>1. SUFFICES ASSUME NEW t \in pending \cup landed
                 PROVE  pc'[t.sub] # "idle" /\ t.batch <= LastBatch(t.sub)'
    OBVIOUS
  <2>2. t.sub \in Submissions /\ pc[t.sub] # "idle" /\ t.batch <= LastBatch(t.sub)
    BY DEF IInv, TypeOK, Paying, Results
  <2>3. QED
    BY <2>2, SteadyKeeps
<1>3. \A s \in Submissions : \A b \in confirmed'[s] : [sub |-> s, batch |-> b] \in landed'
  BY DEF IInv, Results, Steady
<1>4. QED
  BY <1>1, <1>2, <1>3 DEF Results

\* A step that neither counts nor confirms.
LEMMA QuietCounts ==
  ASSUME IInv, Steady, counter' = counter, Confirmed' \subseteq Confirmed
  PROVE  Counted'
<1>1. counter' <= Cardinality(Served')
  BY CounterStep
<1>2. Cardinality(Confirmed') <= Cardinality(Ended')
  BY ConfirmedStep
<1>3. QED
  BY <1>1, <1>2 DEF Counted

\* Handlers return: they are done, and remember nothing.
LEMMA ReturnStep ==
  ASSUME IInv, Steady, NEW subs, \A s \in subs : s \in Submissions /\ pc[s] # "idle", Return(subs),
         UNCHANGED <<of, size, pending, landed>>
  PROVE  /\ pc' \in [Submissions -> {"idle", "send", "answer", "count", "record", "finish", "done"}]
         /\ batch' \in [Submissions -> 1..Max({Batches(Len(Investments)), 1})]
         /\ try' \in [Submissions -> 1..MaxTries]
         /\ confirmed' \in [Submissions -> SUBSET (1..Batches(Len(Investments)))]
         /\ Places' /\ Results'
<1>1. 1 \in 1..Max({Batches(Len(Investments)), 1}) /\ 1 \in 1..MaxTries
  BY BatchLimit, ParameterTypes
<1>2. /\ pc' \in [Submissions -> {"idle", "send", "answer", "count", "record", "finish", "done"}]
      /\ batch' \in [Submissions -> 1..Max({Batches(Len(Investments)), 1})]
      /\ try' \in [Submissions -> 1..MaxTries]
      /\ confirmed' \in [Submissions -> SUBSET (1..Batches(Len(Investments)))]
  BY <1>1 DEF IInv, TypeOK, Return
<1>3. \A s \in Submissions : LastBatch(s)' = LastBatch(s)
  BY DEF LastBatch, Batches
<1>4. \A s \in Submissions :
        IF s \in subs THEN pc'[s] = "done" /\ batch'[s] = 1 /\ confirmed'[s] = {}
        ELSE pc'[s] = pc[s] /\ batch'[s] = batch[s] /\ confirmed'[s] = confirmed[s]
  BY DEF Return
<1>5. Places'
  BY <1>3, <1>4 DEF IInv, Places
<1>6. \A t \in pending' \cup landed' : pc'[t.sub] # "idle" /\ t.batch <= LastBatch(t.sub)'
  <2>1. SUFFICES ASSUME NEW t \in pending \cup landed
                 PROVE  pc'[t.sub] # "idle" /\ t.batch <= LastBatch(t.sub)'
    OBVIOUS
  <2>2. t.sub \in Submissions /\ pc[t.sub] # "idle" /\ t.batch <= LastBatch(t.sub)
    BY DEF IInv, TypeOK, Paying, Results
  <2>3. QED
    BY <1>3, <2>2 DEF Steady
<1>7. \A s \in Submissions : \A b \in confirmed'[s] : [sub |-> s, batch |-> b] \in landed'
  BY <1>4 DEF IInv, Results
<1>8. QED
  BY <1>2, <1>5, <1>6, <1>7 DEF Results

LEMMA PrepareStep ==
  ASSUME IInv, Steady, NEW j \in Jobs, Prepare(j)
  PROVE  IInv'
<1>1. UNCHANGED <<admin, pendingAdmin, paused, usdc, distributed, counter, due, records,
                  of, pc, batch, try, confirmed, pending, landed, stale>>
  BY DEF Prepare, contract, offerRow, handler, ledger
<1>2. /\ size' = [size EXCEPT ![j] = distributed] /\ distributed > 0
      /\ \/ status' = [status EXCEPT ![j] = "prepared"]
         \/ status' = [status EXCEPT ![j] = "unsaved"]
  BY DEF Prepare
<1>3. distributed \in Founding..Len(Investments) /\ distributed \in 0..Len(Investments)
  BY ParameterTypes DEF IInv, TypeOK
<1>4. TypeOK'
  BY <1>1, <1>2, <1>3 DEF IInv, TypeOK, C!TypeOK
<1>5. Submitted'
  <2>1. \A i \in Jobs : status'[i] # "none" => size'[i] > 0 /\ size'[i] >= Founding
    BY <1>2, <1>3, ParameterTypes DEF IInv, TypeOK, Submitted
  <2>2. \A s \in Submissions : pc'[s] # "idle" => of'[s] \in Jobs /\ status'[of'[s]] # "none"
    BY <1>1 DEF IInv, Submitted, Steady
  <2>3. \A i \in stale' : status'[i] # "none"
    BY <1>1 DEF IInv, TypeOK, Submitted, Steady
  <2>4. QED
    BY <2>1, <2>2, <2>3 DEF Submitted
<1>6. Places' /\ Results' /\ Booked'
  BY <1>1, QuietStep, BookedStays
<1>7. Counted'
  <2>1. Confirmed' \subseteq Confirmed
    BY <1>2 DEF IInv, TypeOK, Confirmed
  <2>2. QED
    BY <1>1, <2>1, QuietCounts
<1>8. QED
  BY <1>4, <1>5, <1>6, <1>7 DEF IInv

\* The reconciler fails what is still prepared by its snapshot.
LEMMA ReconcileStep ==
  ASSUME IInv, Steady, NEW j \in Jobs, FindStale(j) \/ FailStale(j)
  PROVE  IInv'
<1>1. UNCHANGED <<admin, pendingAdmin, paused, usdc, distributed, counter, due, records, size,
                  of, pc, batch, try, confirmed, pending, landed>>
  BY DEF FindStale, FailStale, contract, offerRow, jobs, handler, ledger
<1>2. /\ stale' \subseteq Jobs
      /\ status' = status \/ (j \in stale /\ status' = [status EXCEPT ![j] = "failed"])
      /\ \A i \in stale' : i \in stale \/ status[i] # "none"
  BY DEF FindStale, FailStale, jobs, IInv, TypeOK
<1>3. TypeOK'
  BY <1>1, <1>2 DEF IInv, TypeOK, C!TypeOK
<1>4. Submitted'
  BY <1>1, <1>2 DEF IInv, TypeOK, Submitted
<1>5. Places' /\ Results' /\ Booked'
  BY <1>1, QuietStep, BookedStays
<1>6. Counted'
  <2>1. Confirmed' \subseteq Confirmed
    BY <1>2 DEF IInv, TypeOK, Confirmed
  <2>2. QED
    BY <1>1, <2>1, QuietCounts
<1>7. QED
  BY <1>3, <1>4, <1>5, <1>6 DEF IInv

LEMMA SubmitStep ==
  ASSUME IInv, Steady, NEW s \in Submissions, NEW j \in Jobs, Submit(s, j)
  PROVE  IInv'
<1>1. UNCHANGED <<admin, pendingAdmin, paused, usdc, distributed, counter, due, records, size,
                  status, batch, try, confirmed, pending, landed, stale>>
  BY DEF Submit, contract, offerRow, jobs, ledger
<1>2. /\ pc[s] = "idle" /\ status[j] # "none" /\ of' = [of EXCEPT ![s] = j]
      /\ \/ pc' = [pc EXCEPT ![s] = "send"]
         \/ pc' = [pc EXCEPT ![s] = "done"]
  BY DEF Submit, Goto
<1>3. TypeOK'
  BY <1>1, <1>2 DEF IInv, TypeOK, C!TypeOK
<1>4. Submitted'
  BY <1>1, <1>2 DEF IInv, TypeOK, Submitted
<1>5. Places'
  <2>1. SUFFICES ASSUME NEW r \in Submissions
                 PROVE  (IF pc[r] \in {"send", "answer"} THEN batch[r] <= LastBatch(r)
                         ELSE batch[r] = 1)'
    BY DEF Places
  <2>2. CASE r = s
    <3>1. pc'[s] # "idle" /\ batch'[s] = 1
      BY <1>1, <1>2, <2>2 DEF IInv, TypeOK, Places
    <3>2. LastBatch(s)' = Batches(size[j]) /\ size[j] \in Nat /\ size[j] > 0
      BY <1>1, <1>2, ParameterTypes DEF IInv, TypeOK, Submitted, LastBatch, Batches
    <3>3. Batches(size[j]) \in Nat /\ Batches(size[j]) > 0
      BY <3>2, BatchesFacts
    <3>4. QED
      BY <2>2, <3>1, <3>2, <3>3
  <2>3. CASE r # s
    <3>1. pc'[r] = pc[r] /\ LastBatch(r)' = LastBatch(r)
      BY <1>1, <1>2, <2>3 DEF IInv, TypeOK, LastBatch, Batches
    <3>2. QED
      BY <1>1, <3>1 DEF IInv, Places
  <2>4. QED
    BY <2>2, <2>3
<1>6. Results'
  <2>1. \A t \in pending \cup landed : pc'[t.sub] # "idle" /\ t.batch <= LastBatch(t.sub)'
    <3>1. SUFFICES ASSUME NEW t \in pending \cup landed
                   PROVE  pc'[t.sub] # "idle" /\ t.batch <= LastBatch(t.sub)'
      OBVIOUS
    <3>2. t.sub \in Submissions /\ pc[t.sub] # "idle" /\ t.batch <= LastBatch(t.sub)
      BY DEF IInv, TypeOK, Paying, Results
    <3>3. QED
      BY <3>2, SteadyKeeps DEF Steady
  <2>2. QED
    BY <1>1, <2>1 DEF IInv, Results
<1>7. Booked' /\ Counted'
  BY <1>1, BookedStays, QuietCounts DEF Confirmed
<1>8. QED
  BY <1>3, <1>4, <1>5, <1>6, <1>7 DEF IInv

\* All batches of a submission that succeeds have landed.
LEMMA SuccessIsPaid ==
  ASSUME IInv, NEW s \in Submissions, Success(s)
  PROVE  AllPaid(s)
  BY DEF IInv, Results, Success, AllPaid

LEMMA CountStep ==
  ASSUME IInv, Steady, NEW s \in Submissions, Count(s)
  PROVE  IInv'
<1>1. UNCHANGED <<admin, pendingAdmin, paused, usdc, distributed, records, size, of,
                  status, batch, try, confirmed, pending, landed, stale>>
  BY DEF Count, contract, jobs, ledger
<1>2. /\ pc[s] = "count" /\ pc' = [pc EXCEPT ![s] = "record"]
      /\ counter' = counter \/ (counter' = counter + 1 /\ Success(s))
      /\ due' \in {"current", "overdue"}
  BY DEF Count, Goto, IInv, TypeOK
<1>3. \A r \in Submissions : LastBatch(r)' = LastBatch(r)
  BY <1>1 DEF LastBatch, Batches
<1>4. TypeOK'
  <2>1. /\ counter' \in Nat
        /\ pc' \in [Submissions -> {"idle", "send", "answer", "count", "record", "finish", "done"}]
    BY <1>2 DEF IInv, TypeOK
  <2>2. QED
    BY <1>1, <1>2, <2>1 DEF IInv, TypeOK, C!TypeOK
<1>5. Submitted'
  BY <1>1, <1>2 DEF IInv, TypeOK, Submitted
<1>6. Places'
  BY <1>1, <1>2, <1>3 DEF IInv, TypeOK, Places
<1>7. Results'
  <2>1. \A t \in pending \cup landed : t.sub \in Submissions
    BY DEF IInv, TypeOK, Paying
  <2>2. QED
    BY <1>1, <1>3, <2>1 DEF IInv, Results, Steady
<1>8. Booked'
  BY <1>1, BookedStays
<1>9. Counted'
  <2>1. \/ counter' = counter
        \/ counter' = counter + 1 /\ (\E r \in Served' : r \notin Served)
    <3>1. CASE counter' = counter + 1 /\ Success(s)
      <4>1. AllPaid(s)'
        BY <1>2, <3>1, SuccessIsPaid, SteadyKeeps
      <4>2. s \in Served' /\ s \notin Served
        BY <1>2, <4>1 DEF IInv, TypeOK, Served
      <4>3. QED
        BY <3>1, <4>2
    <3>2. QED
      BY <1>2, <3>1
  <2>2. counter' <= Cardinality(Served')
    BY <2>1, CounterStep
  <2>3. Confirmed' \subseteq Confirmed
    BY <1>1 DEF Confirmed
  <2>4. Cardinality(Confirmed') <= Cardinality(Ended')
    BY <2>3, ConfirmedStep
  <2>5. QED
    BY <2>2, <2>4 DEF Counted
<1>10. QED
  BY <1>4, <1>5, <1>6, <1>7, <1>8, <1>9 DEF IInv

LEMMA RecordStep ==
  ASSUME IInv, Steady, NEW s \in Submissions, Record(s)
  PROVE  IInv'
<1>1. UNCHANGED <<admin, pendingAdmin, paused, usdc, distributed, counter, due, size, of,
                  status, pending, landed, stale>>
  BY DEF Record, contract, offerRow, jobs, ledger
<1>2. PICK n \in 0..Breakdown(s) :
        /\ records' = records \cup [sub : {s}, row : 1..n]
        /\ \/ Goto(s, "finish") /\ UNCHANGED <<batch, try, confirmed>>
           \/ Return({s})
  BY DEF Record
<1>3. pc[s] = "record" /\ distributed \in 0..Len(Investments)
  BY ParameterTypes DEF Record, IInv, TypeOK
<1>4. /\ pc' \in [Submissions -> {"idle", "send", "answer", "count", "record", "finish", "done"}]
      /\ batch' \in [Submissions -> 1..Max({Batches(Len(Investments)), 1})]
      /\ try' \in [Submissions -> 1..MaxTries]
      /\ confirmed' \in [Submissions -> SUBSET (1..Batches(Len(Investments)))]
      /\ Places' /\ Results'
  <2>1. CASE Return({s})
    BY <1>1, <1>3, <2>1, ReturnStep
  <2>2. CASE Goto(s, "finish") /\ UNCHANGED <<batch, try, confirmed>>
    <3>1. \A r \in Submissions : LastBatch(r)' = LastBatch(r)
      BY <1>1 DEF LastBatch, Batches
    <3>2. Places'
      BY <1>3, <2>2, <3>1 DEF IInv, TypeOK, Places, Goto
    <3>3. \A t \in pending \cup landed : t.sub \in Submissions
      BY DEF IInv, TypeOK, Paying
    <3>4. Results'
      BY <1>1, <2>2, <3>1, <3>3 DEF IInv, Results, Steady
    <3>5. QED
      BY <2>2, <3>2, <3>4 DEF IInv, TypeOK, Goto
  <2>3. QED
    BY <1>2, <2>1, <2>2
<1>5. records' \subseteq [sub : Submissions, row : 1..Len(Investments)]
  <2>1. \A r \in 1..n : r \in 1..Len(Investments)
    BY <1>2, <1>3, ParameterTypes DEF Breakdown
  <2>2. QED
    BY <1>2, <2>1 DEF IInv, TypeOK
<1>6. TypeOK'
  BY <1>1, <1>4, <1>5 DEF IInv, TypeOK, C!TypeOK
<1>7. Submitted'
  <2>1. \A r \in Submissions : pc'[r] # "idle" => pc[r] # "idle"
    BY <1>2, <1>3 DEF Goto, Return, IInv, TypeOK
  <2>2. QED
    BY <1>1, <2>1 DEF IInv, Submitted, TypeOK
<1>8. Booked'
  <2>1. SUFFICES ASSUME NEW p \in records' PROVE (pc[p.sub] # "idle" /\ AllPaid(p.sub))'
    BY DEF Booked
  <2>2. CASE p \in records
    <3>1. p.sub \in Submissions /\ pc[p.sub] # "idle" /\ AllPaid(p.sub)
      BY <2>2 DEF IInv, TypeOK, Booked
    <3>2. QED
      BY <3>1, SteadyKeeps DEF Steady
  <2>3. CASE p \in [sub : {s}, row : 1..n]
    <3>1. p.sub = s /\ n >= 1
      BY <1>2, <1>3, <2>3 DEF Breakdown
    <3>2. Success(s)
      BY <1>2, <3>1 DEF Breakdown
    <3>3. QED
      BY <1>3, <3>1, <3>2, SuccessIsPaid, SteadyKeeps DEF Steady
  <2>4. QED
    BY <1>2, <2>2, <2>3
<1>9. Counted'
  BY <1>1, QuietCounts DEF Confirmed
<1>10. QED
  BY <1>4, <1>6, <1>7, <1>8, <1>9 DEF IInv

LEMMA FinishStep ==
  ASSUME IInv, Steady, NEW s \in Submissions, Finish(s)
  PROVE  IInv'
<1>1. UNCHANGED <<admin, pendingAdmin, paused, usdc, distributed, counter, due, size, of,
                  records, pending, landed, stale>>
  BY DEF Finish, contract, offerRow, ledger
<1>2. /\ pc[s] = "finish" /\ Return({s})
      /\ \/ status' = status
         \/ \E j \in Jobs : status[j] = "prepared" /\ status' = [status EXCEPT ![j] = Outcome(s)]
  BY PreparedMax DEF Finish, IInv
<1>3. /\ pc' \in [Submissions -> {"idle", "send", "answer", "count", "record", "finish", "done"}]
      /\ batch' \in [Submissions -> 1..Max({Batches(Len(Investments)), 1})]
      /\ try' \in [Submissions -> 1..MaxTries]
      /\ confirmed' \in [Submissions -> SUBSET (1..Batches(Len(Investments)))]
      /\ Places' /\ Results'
  BY <1>1, <1>2, ReturnStep
<1>4. Outcome(s) \in {"confirmed", "partial_failure", "failed"}
  BY DEF Outcome
<1>5. TypeOK'
  BY <1>1, <1>2, <1>3, <1>4 DEF IInv, TypeOK, C!TypeOK
<1>6. Submitted'
  <2>1. \A r \in Submissions : pc'[r] # "idle" => pc[r] # "idle"
    BY <1>2 DEF Return, IInv, TypeOK
  <2>2. \A j \in Jobs : status'[j] # "none" <=> status[j] # "none"
    BY <1>2, <1>4 DEF IInv, TypeOK
  <2>3. QED
    BY <1>1, <2>1, <2>2 DEF IInv, Submitted, TypeOK
<1>7. Booked'
  BY <1>1, BookedStays
<1>8. Counted'
  <2>1. counter' <= Cardinality(Served')
    BY <1>1, CounterStep
  <2>2. \/ Confirmed' \subseteq Confirmed
        \/ /\ \E j \in Jobs : Confirmed' \subseteq Confirmed \cup {j}
           /\ \E r \in Ended' : r \notin Ended
    <3>1. CASE Success(s)
      <4>1. AllPaid(s)'
        BY <1>2, <3>1, SuccessIsPaid, SteadyKeeps
      <4>2. pc'[s] = "done"
        BY <1>2 DEF Return
      <4>3. s \in Ended' /\ s \notin Ended
        BY <1>2, <4>1, <4>2 DEF Ended
      <4>4. status' = status \/ \E j \in Jobs : Confirmed' \subseteq Confirmed \cup {j}
        BY <1>2 DEF IInv, TypeOK, Confirmed
      <4>5. QED
        BY <4>3, <4>4 DEF Confirmed
    <3>2. CASE ~Success(s)
      <4>1. Outcome(s) # "confirmed"
        BY <3>2 DEF Outcome
      <4>2. Confirmed' \subseteq Confirmed
        BY <1>2, <4>1 DEF IInv, TypeOK, Confirmed
      <4>3. QED
        BY <4>2
    <3>3. QED
      BY <3>1, <3>2
  <2>3. Cardinality(Confirmed') <= Cardinality(Ended')
    BY <2>2, ConfirmedStep
  <2>4. QED
    BY <2>1, <2>3 DEF Counted
<1>9. QED
  BY <1>3, <1>5, <1>6, <1>7, <1>8 DEF IInv

\* A batch is paid, or its transaction is gone.
LEMMA LedgerStep ==
  ASSUME IInv, Steady, NEW t \in Paying, Land(t) \/ Drop(t)
  PROVE  IInv'
<1>1. UNCHANGED <<distributed, counter, due, status, size, records, of, pc, batch, try,
                  confirmed, stale>>
  BY DEF Land, Drop, offerRow, jobs, handler
<1>2. /\ t \in pending
      /\ \A u \in pending' : u \in pending
      /\ landed' = landed \/ landed' = landed \cup {t}
  BY DEF Land, Drop
<1>3. C!TypeOK'
  <2>1. CASE Land(t)
    <3>1. t.sub \in Submissions /\ t.batch \in Nat \ {0} /\ pc[t.sub] # "idle"
      BY <1>2, BatchLimit DEF Paying, IInv, Results
    <3>2. size[of[t.sub]] \in 0..Len(Investments)
      BY <3>1, LastBatchFacts, ParameterTypes DEF IInv
    <3>3. C!distribute(Items(size[of[t.sub]], t.batch), FeeOf(Items(size[of[t.sub]], t.batch)))
      BY <2>1 DEF Land
    <3>4. QED
      BY <3>1, <3>2, <3>3, DistributeTyped DEF IInv, TypeOK
  <2>2. CASE Drop(t)
    BY <2>2 DEF Drop, contract, C!TypeOK, IInv, TypeOK
  <2>3. QED
    BY <2>1, <2>2
<1>4. TypeOK'
  BY <1>1, <1>2, <1>3 DEF IInv, TypeOK
<1>5. Submitted'
  BY <1>1 DEF IInv, Submitted
<1>6. Places' /\ Results' /\ Booked'
  BY <1>1, <1>2, QuietStep, BookedStays
<1>7. Counted'
  BY <1>1, QuietCounts DEF Confirmed
<1>8. QED
  BY <1>4, <1>5, <1>6, <1>7 DEF IInv

\* An investment is distributed, the contract's admin acts, or nothing happens.
LEMMA OtherStep ==
  ASSUME IInv, Steady, Distribute \/ Administer \/ UNCHANGED vars
  PROVE  IInv'
<1>1. UNCHANGED <<counter, due, status, size, records, of, pc, batch, try, confirmed, pending,
                  landed, stale>>
  BY DEF Distribute, Administer, vars, offerRow, jobs, handler, ledger
<1>2. distributed' \in Founding..Len(Investments)
  BY ParameterTypes DEF Distribute, Administer, vars, offerRow, IInv, TypeOK
<1>3. C!TypeOK'
  <2>1. CASE Administer
    BY <2>1, AdministerTyped DEF Administer, IInv, TypeOK
  <2>2. CASE UNCHANGED contract
    BY <2>2 DEF contract, C!TypeOK, IInv, TypeOK
  <2>3. QED
    BY <2>1, <2>2 DEF Distribute, vars
<1>4. TypeOK'
  BY <1>1, <1>2, <1>3 DEF IInv, TypeOK
<1>5. Submitted'
  BY <1>1 DEF IInv, Submitted
<1>6. Places' /\ Results' /\ Booked'
  BY <1>1, QuietStep, BookedStays
<1>7. Counted'
  BY <1>1, QuietCounts DEF Confirmed
<1>8. QED
  BY <1>4, <1>5, <1>6, <1>7 DEF IInv

LEMMA RestartStep ==
  ASSUME IInv, Steady, Restart
  PROVE  IInv'
<1>1. UNCHANGED <<admin, pendingAdmin, paused, usdc, distributed, counter, due, size, of,
                  status, records, pending, landed>>
  BY DEF Restart, contract, offerRow, jobs, ledger
<1>2. Return(Running) /\ stale' = {} /\ \A s \in Running : s \in Submissions /\ pc[s] # "idle"
  BY DEF Restart, Running
<1>3. /\ pc' \in [Submissions -> {"idle", "send", "answer", "count", "record", "finish", "done"}]
      /\ batch' \in [Submissions -> 1..Max({Batches(Len(Investments)), 1})]
      /\ try' \in [Submissions -> 1..MaxTries]
      /\ confirmed' \in [Submissions -> SUBSET (1..Batches(Len(Investments)))]
      /\ Places' /\ Results'
  BY <1>1, <1>2, ReturnStep
<1>4. TypeOK'
  BY <1>1, <1>2, <1>3 DEF IInv, TypeOK, C!TypeOK
<1>5. Submitted'
  <2>1. \A r \in Submissions : pc'[r] # "idle" => pc[r] # "idle"
    BY <1>2 DEF Return
  <2>2. QED
    BY <1>1, <1>2, <2>1 DEF IInv, Submitted, TypeOK
<1>6. Booked'
  BY <1>1, BookedStays
<1>7. Counted'
  BY <1>1, QuietCounts DEF Confirmed
<1>8. QED
  BY <1>3, <1>4, <1>5, <1>6, <1>7 DEF IInv

LEMMA NextInv == IInv /\ [Next]_vars => IInv'
<1> SUFFICES ASSUME IInv, [Next]_vars PROVE IInv'
  OBVIOUS
<1>1. Steady
  BY StepIsSteady
<1>2. ASSUME NEW j \in Jobs, Prepare(j) PROVE IInv'
  BY <1>1, <1>2, PrepareStep
<1>3. ASSUME NEW j \in Jobs, FindStale(j) \/ FailStale(j) PROVE IInv'
  BY <1>1, <1>3, ReconcileStep
<1>4. ASSUME NEW j \in Jobs, NEW s \in Submissions, Submit(s, j) PROVE IInv'
  BY <1>1, <1>4, SubmitStep
<1>5. ASSUME NEW s \in Submissions, Send(s) PROVE IInv'
  BY <1>1, <1>5, SendStep
<1>6. ASSUME NEW s \in Submissions, Answer(s) PROVE IInv'
  BY <1>1, <1>6, AnswerStep
<1>7. ASSUME NEW s \in Submissions, NoAnswer(s) PROVE IInv'
  BY <1>1, <1>7, NoAnswerStep
<1>8. ASSUME NEW s \in Submissions, Count(s) PROVE IInv'
  BY <1>1, <1>8, CountStep
<1>9. ASSUME NEW s \in Submissions, Record(s) PROVE IInv'
  BY <1>1, <1>9, RecordStep
<1>10. ASSUME NEW s \in Submissions, Finish(s) PROVE IInv'
  BY <1>1, <1>10, FinishStep
<1>11. ASSUME NEW t \in Paying, Land(t) \/ Drop(t) PROVE IInv'
  BY <1>1, <1>11, LedgerStep
<1>12. ASSUME Distribute \/ Administer \/ UNCHANGED vars PROVE IInv'
  BY <1>1, <1>12, OtherStep
<1>13. ASSUME Restart PROVE IInv'
  BY <1>1, <1>13, RestartStep
<1>14. QED
  BY <1>2, <1>3, <1>4, <1>5, <1>6, <1>7, <1>8, <1>9, <1>10, <1>11, <1>12, <1>13 DEF Next

LEMMA Invariant == Spec => []IInv
  BY InitInv, NextInv, PTL DEF Spec

-----------------------------------------------------------------------------
(***************************************************************************)
(* The theorems                                                            *)
(***************************************************************************)

\* Every submission all of whose batches landed paid each investment its preparation knew.
LEMMA PaidPerSubmission ==
  ASSUME IInv, NEW r \in 1..Founding, NEW S \in SUBSET Submissions,
         \A s \in S : pc[s] # "idle" /\ AllPaid(s)
  PROVE  /\ Cardinality(S) \in Nat /\ TimesPaid(r) \in Nat
         /\ Cardinality(S) <= TimesPaid(r)
<1> DEFINE X == {t \in landed : r \in Rows(size[of[t.sub]], t.batch)}
           b == BatchOf(r)
<1>1. IsFiniteSet(Submissions)
  BY FiniteCounts
<1>2. \A t \in X : t \in landed /\ t = [sub |-> t.sub, batch |-> t.batch] /\ t.sub \in Submissions
  BY DEF IInv, TypeOK, Paying
<1>3. \A t \in X : t.batch = b
  <2>1. SUFFICES ASSUME NEW t \in X PROVE t.batch = b
    OBVIOUS
  <2>2. pc[t.sub] # "idle" /\ t.sub \in Submissions
    BY <1>2 DEF IInv, Results
  <2>3. size[of[t.sub]] \in Nat /\ t.batch \in Int
    <3>1. t.batch \in 1..Batches(Len(Investments))
      BY DEF IInv, TypeOK, Paying
    <3>2. size[of[t.sub]] \in 1..Len(Investments)
      BY <2>2, LastBatchFacts DEF IInv
    <3>3. QED
      BY <3>1, <3>2
  <2>4. r \in 1..Len(Investments) /\ Len(Investments) \in Nat
    BY ParameterTypes
  <2>5. QED
    BY <2>3, <2>4, RowsFacts
<1>4. \A s \in S : [sub |-> s, batch |-> b] \in X
  <2>1. SUFFICES ASSUME NEW s \in S PROVE [sub |-> s, batch |-> b] \in X
    OBVIOUS
  <2>2. size[of[s]] \in Nat /\ r \in 1..size[of[s]]
    BY LastBatchFacts, ParameterTypes DEF IInv
  <2>3. b \in 1..LastBatch(s) /\ r \in Rows(size[of[s]], b)
    BY <2>2, RowsFacts DEF LastBatch
  <2>4. [sub |-> s, batch |-> b] \in landed
    BY <2>3 DEF AllPaid
  <2> HIDE DEF b
  <2>5. QED
    BY <2>3, <2>4
<1> HIDE DEF X, b
<1>5. IsFiniteSet(X)
  <2> DEFINE f == [t \in X |-> t.sub]
  <2>1. f \in [X -> Submissions] /\ \A t, u \in X : f[t] = f[u] => t = u
    BY <1>2, <1>3
  <2>2. f \in Injection(X, Submissions)
    BY <2>1 DEF Injection, IsInjective
  <2> HIDE DEF f
  <2>3. QED
    BY <1>1, <2>2, FS_Injection
<1>6. Cardinality(S) <= Cardinality(X)
  <2> DEFINE g == [s \in S |-> [sub |-> s, batch |-> b]]
  <2>1. g \in [S -> X] /\ \A s, u \in S : g[s] = g[u] => s = u
    BY <1>4
  <2>2. g \in Injection(S, X)
    BY <2>1 DEF Injection, IsInjective
  <2> HIDE DEF g
  <2>3. QED
    BY <1>5, <2>2, FS_Injection
<1>7. Cardinality(S) \in Nat /\ Cardinality(X) \in Nat
  <2>1. IsFiniteSet(S)
    BY <1>1, FS_Subset
  <2>2. QED
    BY <1>5, <2>1, FS_CardinalityType
<1>8. QED
  BY <1>6, <1>7 DEF TimesPaid, X

\* The variables keep their types: no account of the distributor is overdrawn, no handler
\* leaves its batches.
THEOREM TypeCorrect == Spec => []TypeOK
<1>1. IInv => TypeOK
  BY DEF IInv
<1>2. QED
  BY <1>1, Invariant, PTL

\* The counter that closes the schedule never runs ahead of the money: each period it
\* counts is a submission of its own, all of whose batches landed.
THEOREM CounterIsBacked == Spec => []CounterNeverAhead
<1>1. IInv => CounterNeverAhead
  <2>1. SUFFICES ASSUME IInv, NEW r \in 1..Founding PROVE counter <= TimesPaid(r)
    BY DEF CounterNeverAhead
  <2>2. Served \in SUBSET Submissions /\ \A s \in Served : pc[s] # "idle" /\ AllPaid(s)
    BY DEF Served
  <2>3. /\ Cardinality(Served) \in Nat /\ TimesPaid(r) \in Nat
        /\ Cardinality(Served) <= TimesPaid(r)
    BY <2>1, <2>2, PaidPerSubmission
  <2>4. QED
    BY <2>1, <2>3 DEF IInv, TypeOK, Counted
<1>2. QED
  BY <1>1, Invariant, PTL

\* Whichever job takes the outcome of a submission, no more of them are confirmed than
\* everybody was paid.
THEOREM ConfirmationsAreBacked == Spec => []ConfirmedNeverAhead
<1>1. IInv => ConfirmedNeverAhead
  <2>1. SUFFICES ASSUME IInv, NEW r \in 1..Founding PROVE Cardinality(Confirmed) <= TimesPaid(r)
    BY DEF ConfirmedNeverAhead, Confirmed
  <2>2. Ended \in SUBSET Submissions /\ \A s \in Ended : pc[s] # "idle" /\ AllPaid(s)
    BY DEF Ended
  <2>3. /\ Cardinality(Ended) \in Nat /\ TimesPaid(r) \in Nat
        /\ Cardinality(Ended) <= TimesPaid(r)
    BY <2>1, <2>2, PaidPerSubmission
  <2>4. Cardinality(Confirmed) \in Nat
    BY FiniteCounts, FS_CardinalityType
  <2>5. QED
    BY <2>1, <2>3, <2>4 DEF IInv, Counted
<1>2. QED
  BY <1>1, Invariant, PTL

\* A recorded interest payment has a landed batch of the submission that recorded it.
THEOREM RecordsAreBacked == Spec => []RecordedWasPaid
<1>1. IInv => RecordedWasPaid
  <2>1. SUFFICES ASSUME IInv, NEW p \in records, p.row <= size[of[p.sub]] PROVE PaidBy(p.sub, p.row)
    BY DEF RecordedWasPaid
  <2>2. p.sub \in Submissions /\ p.row \in 1..Len(Investments) /\ pc[p.sub] # "idle" /\ AllPaid(p.sub)
    BY <2>1 DEF IInv, TypeOK, Booked
  <2> DEFINE n == size[of[p.sub]]
             b == BatchOf(p.row)
  <2>3. n \in Nat /\ p.row \in 1..n
    BY <2>1, <2>2, LastBatchFacts, ParameterTypes DEF IInv
  <2>4. b \in 1..LastBatch(p.sub) /\ p.row \in Rows(n, b)
    BY <2>3, RowsFacts DEF LastBatch
  <2> HIDE DEF b
  <2>5. [sub |-> p.sub, batch |-> b] \in landed
    BY <2>2, <2>4 DEF AllPaid
  <2>6. QED
    BY <2>4, <2>5 DEF PaidBy
<1>2. QED
  BY <1>1, Invariant, PTL

-----------------------------------------------------------------------------
(***************************************************************************)
(* PaymentSchedule, for any calendar, schedule, number of requests and     *)
(* faults.  The inductive invariant says what every decision that is still *)
(* to be written was taken from (Decided, Asked), and that the history     *)
(* variable misses nothing (Noticed).                                      *)
(***************************************************************************)

\* What a job is about to write: a notice is for periodic offers, and a default was read
\* off a date that had been missed.
Decided ==
  /\ cron.due = "defaulted" => missed
  /\ cron.at = "notify" => ~kind.bullet

\* What a request is about to write.
Asked ==
  /\ signed => missed
  /\ \A h \in Requests :
       /\ At(h, "pay") => ~kind.bullet
       /\ At(h, "declare") => day - Maturity > Grace
       /\ At(h, "seize") => missed

\* Every date that is past by more than the grace has been noticed; a bullet's only date
\* is its maturity, until the calendar goes back a period.
Noticed ==
  /\ PastGrace => missed
  /\ kind.bullet /\ offer.next # NoDate => offer.next = Maturity \/ missed

ScheduleInv == ScheduleTypeOK /\ DefaultNeedsGrace /\ Decided /\ Asked /\ Noticed

-----------------------------------------------------------------------------
\* Places, kinds of status and the next job, as sets.
LEMMA JobFacts ==
  /\ DOMAIN After = {"scheduled", "overdue", "completed", "reminder", "over"}
  /\ \A s \in DOMAIN After : After[s] \in DOMAIN After /\ Lost[s] \in DOMAIN After
  BY DEF After, Lost

LEMMA ScheduleParameters ==
  /\ Month \in Nat \ {0} /\ Frequency \in Nat \ {0} /\ Maturity \in Nat \ {0}
  /\ LastDay \in Nat \ {0} /\ PaymentDay \in Nat /\ Grace \in Nat /\ Soon \in Nat
  /\ MaxFaults \in Nat
  BY Parameters

\* A period has at least one day.
LEMMA PeriodIsPositive == Period \in Nat \ {0}
  BY ScheduleParameters DEF Period

\* The payment day a period later is not before the day it is computed from.
LEMMA AdvanceIsLater ==
  ASSUME NEW d \in Nat
  PROVE  AdvanceByPeriod(d) \in Nat /\ AdvanceByPeriod(d) >= d
  <1> DEFINE q == d \div Month
  <1>1. q \in Nat /\ d < (q + 1) * Month
    BY ScheduleParameters
  <1>2. (q + Frequency) * Month >= (q + 1) * Month /\ (q + Frequency) * Month \in Nat
    BY <1>1, ScheduleParameters
  <1> QED BY <1>1, <1>2, ScheduleParameters DEF AdvanceByPeriod

\* A status the reminders write is one of the five, and a default needs a missed date.
LEMMA RemindedFacts ==
  ASSUME ScheduleTypeOK, offer.next # NoDate
  PROVE  /\ Reminded \in DueStatus
         /\ Reminded = "defaulted" => day - offer.next > Grace
  <1>1. offer.next - day \in Int /\ Grace \in Nat /\ Soon \in Nat
    BY ScheduleParameters DEF ScheduleTypeOK
  <1>2. CASE offer.next - day < -Grace
    BY <1>1, <1>2, ScheduleParameters DEF Reminded, DueStatus, ScheduleTypeOK
  <1>3. CASE offer.next - day < 0 /\ offer.next - day >= -Grace
    BY <1>1, <1>3 DEF Reminded, DueStatus
  <1>4. CASE offer.next - day = 0
    BY <1>1, <1>4 DEF Reminded, DueStatus
  <1>5. CASE offer.next - day > 0 /\ offer.next - day <= Soon
    BY <1>1, <1>5 DEF Reminded, DueStatus
  <1>6. CASE offer.next - day > 0 /\ offer.next - day > Soon
    BY <1>1, <1>6 DEF Reminded, DueStatus
  <1> QED BY <1>1, <1>2, <1>3, <1>4, <1>5, <1>6

\* The number of payments is fixed when the offer is made.
LEMMA TotalIsFixed ==
  ASSUME UNCHANGED kind
  PROVE  TotalExpected' = TotalExpected
  BY DEF TotalExpected

LEMMA TotalType == TotalExpected \in Nat
  <1> DEFINE S == {k \in 1..Maturity : k * Period + PaymentDay <= Maturity}
  <1>1. IsFiniteSet(1..Maturity)
    BY FS_Interval, ScheduleParameters
  <1>2. IsFiniteSet(S)
    BY <1>1, FS_Subset
  <1>3. Cardinality(S) \in Nat
    BY <1>2, FS_CardinalityType
  <1> QED BY <1>3 DEF TotalExpected

\* Whatever keeps the days and sets the next date into the future leaves no date past grace
\* that was not.
LEMMA StaysNoticed ==
  ASSUME ScheduleTypeOK, Noticed, UNCHANGED calendar,
         offer'.next = offer.next \/ offer'.next = NoDate \/ (offer'.next \in Nat /\ offer'.next >= day),
         offer'.made = offer.made \/ offer'.next # offer.next \/ offer'.made = offer.made + 1,
         kind.bullet => offer'.next = offer.next \/ offer'.next = Maturity
  PROVE  Noticed'
  <1>1. TotalExpected' = TotalExpected
    BY TotalIsFixed DEF calendar
  <1> QED BY <1>1, TotalType, ScheduleParameters DEF Noticed, PastGrace, ScheduleTypeOK, calendar, NoDate
-----------------------------------------------------------------------------
\* The jobs: what they decide comes from the row, what they write from what they decided.
LEMMA FindScheduledStep ==
  ASSUME ScheduleInv, FindScheduled
  PROVE  ScheduleInv'
  <1>1. UNCHANGED <<offer, requests, calendar, faults>> /\ cron = Idle /\ stage = "scheduled"
    BY DEF FindScheduled, KeepRest, Turn
  <1>2. CASE MatureNow /\ Find("mature", "current")
    BY <1>1, <1>2, TotalIsFixed DEF ScheduleInv, ScheduleTypeOK, DefaultNeedsGrace, Decided, Asked, Noticed,
         PastGrace, Find, DueStatus, requests, calendar, At
  <1>3. CASE NotifyNow /\ Find("notify", "due")
    BY <1>1, <1>3, TotalIsFixed DEF ScheduleInv, ScheduleTypeOK, DefaultNeedsGrace, Decided, Asked, Noticed,
         PastGrace, Find, DueStatus, requests, calendar, At, NotifyNow
  <1>4. CASE Pass
    BY <1>1, <1>4, JobFacts, TotalIsFixed DEF ScheduleInv, ScheduleTypeOK, DefaultNeedsGrace, Decided, Asked,
         Noticed, PastGrace, Pass, requests, calendar, At
  <1> QED BY <1>2, <1>3, <1>4 DEF FindScheduled

LEMMA FindOverdueStep ==
  ASSUME ScheduleInv, FindOverdue
  PROVE  ScheduleInv'
  <1>1. UNCHANGED <<offer, requests, calendar, faults>> /\ cron = Idle /\ stage = "overdue"
    BY DEF FindOverdue, KeepRest, Turn
  <1>2. CASE Pass
    BY <1>1, <1>2, JobFacts, TotalIsFixed DEF ScheduleInv, ScheduleTypeOK, DefaultNeedsGrace, Decided, Asked,
         Noticed, PastGrace, Pass, requests, calendar, At
  <1>3. CASE (Late \/ LateBullet) /\ Find("escalate", Overdue)
    <2>1. Overdue \in DueStatus
      BY DEF Overdue, Escalation, DueStatus
    <2>2. ASSUME Overdue = "defaulted" PROVE missed
      <3>1. ~kind.bullet /\ day - offer.next > Grace
        BY <2>2 DEF Overdue, Escalation
      <3>2. Late
        BY <1>3, <3>1 DEF LateBullet
      <3> QED BY <3>1, <3>2, ScheduleParameters
            DEF Late, Unfinished, ScheduleInv, Noticed, PastGrace, NoDate, ScheduleTypeOK
    <2> QED BY <1>1, <1>3, <2>1, <2>2, TotalIsFixed DEF ScheduleInv, ScheduleTypeOK, DefaultNeedsGrace, Decided,
          Asked, Noticed, PastGrace, Find, requests, calendar, At
  <1> QED BY <1>2, <1>3 DEF FindOverdue

LEMMA FindCompletedStep ==
  ASSUME ScheduleInv, FindCompleted
  PROVE  ScheduleInv'
  <1>1. UNCHANGED <<offer, requests, calendar, faults>> /\ cron = Idle /\ stage = "completed"
    BY DEF FindCompleted, KeepRest, Turn
  <1>2. Find("flag", "due") \/ Pass
    BY DEF FindCompleted
  <1> QED BY <1>1, <1>2, JobFacts, TotalIsFixed DEF ScheduleInv, ScheduleTypeOK, DefaultNeedsGrace, Decided,
        Asked, Noticed, PastGrace, Pass, Find, DueStatus, requests, calendar, At

LEMMA FindReminderStep ==
  ASSUME ScheduleInv, FindReminder
  PROVE  ScheduleInv'
  <1>1. UNCHANGED <<offer, requests, calendar, faults>> /\ cron = Idle /\ stage = "reminder"
    BY DEF FindReminder, KeepRest, Turn
  <1>2. CASE Pass
    BY <1>1, <1>2, JobFacts, TotalIsFixed DEF ScheduleInv, ScheduleTypeOK, DefaultNeedsGrace, Decided, Asked,
         Noticed, PastGrace, Pass, requests, calendar, At
  <1>3. CASE offer.next # NoDate /\ Unfinished /\ Find("remind", Reminded)
    <2>1. Reminded \in DueStatus /\ (Reminded = "defaulted" => day - offer.next > Grace)
      BY <1>3, RemindedFacts DEF ScheduleInv
    <2>2. ASSUME Reminded = "defaulted" PROVE missed
      BY <1>3, <2>1, <2>2, ScheduleParameters DEF Unfinished, ScheduleInv, Noticed, PastGrace, ScheduleTypeOK
    <2> QED BY <1>1, <1>3, <2>1, <2>2, TotalIsFixed DEF ScheduleInv, ScheduleTypeOK, DefaultNeedsGrace, Decided,
          Asked, Noticed, PastGrace, Find, requests, calendar, At
  <1> QED BY <1>2, <1>3 DEF FindReminder

\* Mature, Notify, Escalate and WriteDue write what was decided.
LEMMA WriteStep ==
  ASSUME ScheduleInv, Mature \/ Notify \/ Escalate \/ WriteDue
  PROVE  ScheduleInv'
  <1>1. UNCHANGED <<requests, calendar, faults>> /\ cron' = Idle /\ stage' = After[stage]
    BY DEF Mature, Notify, Escalate, WriteDue, KeepRest, EndJob
  <1>2. /\ ScheduleTypeOK' /\ DefaultNeedsGrace'
    <2>1. CASE Mature
      BY <1>1, <2>1, JobFacts DEF ScheduleInv, ScheduleTypeOK, DefaultNeedsGrace, Mature, Idle, Status, DueStatus,
           requests, calendar
    <2>2. CASE Notify
      BY <1>1, <2>2, JobFacts DEF ScheduleInv, ScheduleTypeOK, DefaultNeedsGrace, Notify, Idle, Status, DueStatus,
           requests, calendar
    <2>3. CASE Escalate
      BY <1>1, <2>3, JobFacts, ScheduleParameters DEF ScheduleInv, ScheduleTypeOK, DefaultNeedsGrace, Decided, Escalate,
           Idle, Status, DueStatus, requests, calendar
    <2>4. CASE WriteDue
      BY <1>1, <2>4, JobFacts DEF ScheduleInv, ScheduleTypeOK, DefaultNeedsGrace, Decided, WriteDue, Idle, Status,
           DueStatus, requests, calendar
    <2> QED BY <2>1, <2>2, <2>3, <2>4
  <1>3. Noticed'
    <2>1. /\ offer'.made = offer.made
          /\ offer'.next = offer.next \/ (offer'.next = day /\ ~kind.bullet)
             \/ (offer'.next = Maturity /\ kind.bullet)
      BY DEF Mature, Notify, Escalate, WriteDue, ScheduleInv, ScheduleTypeOK, Decided
    <2> QED BY <1>1, <2>1, TotalIsFixed, ScheduleParameters
          DEF ScheduleInv, Noticed, PastGrace, ScheduleTypeOK, calendar, NoDate
  <1>4. Decided' /\ Asked'
    BY <1>1 DEF ScheduleInv, Decided, Asked, Idle, requests, calendar, At
  <1> QED BY <1>2, <1>3, <1>4 DEF ScheduleInv

LEMMA JobFailsStep ==
  ASSUME ScheduleInv, JobFails
  PROVE  ScheduleInv'
  <1>1. /\ UNCHANGED <<offer, requests, calendar>> /\ cron' = Idle
        /\ stage' \in DOMAIN After /\ faults' \in 0..MaxFaults
    BY JobFacts, ScheduleParameters DEF JobFails, ScheduleInv, ScheduleTypeOK
  <1> QED BY <1>1, TotalIsFixed DEF ScheduleInv, ScheduleTypeOK, DefaultNeedsGrace, Decided, Asked, Noticed,
        PastGrace, Idle, DueStatus, requests, calendar, At

-----------------------------------------------------------------------------
\* A request that takes up work: what it will write rests on what it has just read.
LEMMA AskStep ==
  ASSUME ScheduleInv, NEW h \in Requests,
         Pay(h) \/ Settle(h) \/ MarkDefaulted(h) \/ DistributeCollateral(h) \/ Toggle(h)
  PROVE  ScheduleInv'
  <1>1. UNCHANGED <<offer, signed, stage, cron, calendar, faults>>
    BY DEF Pay, Settle, MarkDefaulted, DistributeCollateral, Toggle, KeepJobs
  <1>2. PICK p \in {"pay", "close", "declare", "seize", "pause", "resume"} :
          /\ req' = [req EXCEPT ![h] = p]
          /\ p = "pay" => ~kind.bullet
          /\ p = "declare" => day - Maturity > Grace
          /\ p = "seize" => signed
    BY DEF Pay, Settle, MarkDefaulted, DistributeCollateral, Toggle, Go
  <1>3. ScheduleTypeOK'
    BY <1>1, <1>2 DEF ScheduleInv, ScheduleTypeOK, calendar
  <1>4. DefaultNeedsGrace' /\ Decided' /\ Noticed'
    BY <1>1, TotalIsFixed DEF ScheduleInv, DefaultNeedsGrace, Decided, Noticed, PastGrace, calendar
  <1>5. Asked'
    BY <1>1, <1>2 DEF ScheduleInv, ScheduleTypeOK, Asked, At, calendar
  <1> QED BY <1>3, <1>4, <1>5 DEF ScheduleInv

LEMMA CollateralStep ==
  ASSUME ScheduleInv, PrepareCollateral
  PROVE  ScheduleInv'
  BY TotalIsFixed DEF ScheduleInv, ScheduleTypeOK, DefaultNeedsGrace, Decided, Asked, Noticed, PastGrace,
     PrepareCollateral, KeepJobs, calendar, At

\* A request that writes.
LEMMA RequestsStep ==
  ASSUME ScheduleInv, NEW h \in Requests, RequestStep(h)
  PROVE  ScheduleInv'
  <1>1. UNCHANGED <<signed, stage, cron, calendar, faults>> /\ req' = [req EXCEPT ![h] = "idle"]
    BY DEF RequestStep, CountPeriod, Close, Declare, Seize, Toggled, KeepJobs, Go
  <1>2. Decided' /\ Asked'
    BY <1>1 DEF ScheduleInv, ScheduleTypeOK, Decided, Asked, At, calendar
  <1>3. NextPayment \in Nat \cup {NoDate} /\ (NextPayment # NoDate => NextPayment >= day)
    BY AdvanceIsLater DEF NextPayment, ScheduleInv, ScheduleTypeOK
  <1>4. ScheduleTypeOK' /\ DefaultNeedsGrace'
    <2> DEFINE Row == [status : Status, due : DueStatus, next : Nat \cup {NoDate}, made : Nat]
    <2>1. offer \in Row /\ offer.made + 1 \in Nat
      BY DEF ScheduleInv, ScheduleTypeOK
    <2>2. {"active", "paused", "closed", "defaulted"} \subseteq Status
          /\ {"current", "overdue", "defaulted"} \subseteq DueStatus
      BY DEF Status, DueStatus
    <2>3. /\ offer' \in Row
          /\ offer'.due = "defaulted" => offer.due = "defaulted" \/ Declare(h) \/ Seize(h)
          /\ offer'.status = "defaulted" => offer.status = "defaulted" \/ Declare(h)
      <3> HIDE DEF Row
      <3>1. CASE CountPeriod(h)
        <4>1. CASE UNCHANGED offer BY <4>1, <2>1
        <4>2. CASE offer' = [offer EXCEPT !.due = "overdue"]
          BY <4>2, <2>1, <2>2 DEF Row
        <4>3. CASE offer' = [offer EXCEPT !.due = "current", !.next = NextPayment, !.made = @ + 1]
          BY <4>3, <2>1, <2>2, <1>3 DEF Row
        <4> QED BY <3>1, <4>1, <4>2, <4>3 DEF CountPeriod
      <3>2. CASE UNCHANGED offer BY <3>2, <2>1
      <3>3. CASE Close(h) /\ offer' = [offer EXCEPT !.status = "closed", !.due = "current"]
        BY <3>3, <2>1, <2>2 DEF Row
      <3>4. CASE Declare(h)
        BY <3>4, <2>1, <2>2 DEF Declare, Row
      <3>5. CASE Seize(h) /\ offer' = [offer EXCEPT !.status = "closed", !.due = "defaulted"]
        BY <3>5, <2>1, <2>2 DEF Row
      <3>6. CASE Toggled(h)
        BY <3>6, <2>1, <2>2 DEF Toggled, Row
      <3> QED BY <3>1, <3>2, <3>3, <3>4, <3>5, <3>6 DEF RequestStep, Close, Seize
    <2>4. /\ Declare(h) => missed /\ day - Maturity > Grace
          /\ Seize(h) => missed
      BY DEF ScheduleInv, Asked, Noticed, PastGrace, Declare, Seize
    <2> QED BY <1>1, <2>3, <2>4 DEF ScheduleInv, ScheduleTypeOK, DefaultNeedsGrace, calendar
  <1>5. Noticed'
    <2>1. CASE CountPeriod(h)
      <3>1. ~kind.bullet
        BY <2>1 DEF CountPeriod, ScheduleInv, Asked
      <3>2. \/ offer'.next = NextPayment
            \/ offer'.next = offer.next /\ offer'.made = offer.made
        BY <2>1 DEF CountPeriod, ScheduleInv, ScheduleTypeOK
      <3> QED BY <1>1, <1>3, <3>1, <3>2, TotalIsFixed, ScheduleParameters
            DEF ScheduleInv, Noticed, PastGrace, ScheduleTypeOK, calendar, NoDate
    <2>2. CASE offer'.next = offer.next /\ offer'.made = offer.made
      BY <1>1, <2>2, TotalIsFixed DEF ScheduleInv, Noticed, PastGrace, calendar
    <2> QED BY <2>1, <2>2 DEF RequestStep, Close, Declare, Seize, Toggled, ScheduleInv, ScheduleTypeOK
  <1> QED BY <1>2, <1>4, <1>5 DEF ScheduleInv

-----------------------------------------------------------------------------
\* A day later, or a period earlier: what was missed stays missed, and the maturity of a
\* declared offer is still past by more than the grace.
LEMMA TickStep ==
  ASSUME ScheduleInv, Tick
  PROVE  ScheduleInv'
  <1>1. /\ UNCHANGED <<kind, cron, req, signed, faults>>
        /\ stage' = "scheduled" /\ missed' = (missed \/ PastGrace')
    BY DEF Tick, requests
  <1>2. /\ day' \in Nat
        /\ day - Maturity > Grace => day' - Maturity > Grace
        /\ ~(day < LastDay) => day' - Maturity > Grace
    BY Parameters, ScheduleParameters, PeriodIsPositive DEF Tick, ScheduleInv, ScheduleTypeOK
  <1>3. /\ offer' \in [status : Status, due : DueStatus, next : Nat \cup {NoDate}, made : Nat]
        /\ offer'.status = offer.status /\ offer'.due = offer.due
        /\ day < LastDay => offer'.next = offer.next
    BY PeriodIsPositive DEF Tick, ScheduleInv, ScheduleTypeOK, NoDate
  <1>4. missed' \in BOOLEAN /\ (missed => missed') /\ (PastGrace' => missed')
    BY <1>1 DEF ScheduleInv, ScheduleTypeOK, PastGrace
  <1>5. ScheduleTypeOK'
    BY <1>1, <1>2, <1>3, <1>4, JobFacts DEF ScheduleInv, ScheduleTypeOK
  <1>6. DefaultNeedsGrace' /\ Decided'
    BY <1>1, <1>2, <1>3, <1>4 DEF ScheduleInv, DefaultNeedsGrace, Decided
  <1>7. Asked'
    BY <1>1, <1>2, <1>4 DEF ScheduleInv, Asked, At
  <1>8. Noticed'
    BY <1>1, <1>2, <1>3, <1>4 DEF ScheduleInv, Noticed, PastGrace
  <1> QED BY <1>5, <1>6, <1>7, <1>8 DEF ScheduleInv

LEMMA RestartJobsStep ==
  ASSUME ScheduleInv, RestartJobs
  PROVE  ScheduleInv'
  <1>1. /\ UNCHANGED <<offer, signed, calendar>> /\ cron' \in {cron, Idle}
        /\ stage' \in DOMAIN After /\ faults' \in 0..MaxFaults
        /\ req' = [g \in Requests |-> "idle"]
    BY JobFacts, ScheduleParameters DEF RestartJobs, ScheduleInv, ScheduleTypeOK
  <1> QED BY <1>1, TotalIsFixed DEF ScheduleInv, ScheduleTypeOK, DefaultNeedsGrace, Decided, Asked, Noticed,
        PastGrace, Idle, DueStatus, calendar, At

LEMMA ScheduleInitInv == ScheduleInit => ScheduleInv
  <1> SUFFICES ASSUME ScheduleInit PROVE ScheduleInv OBVIOUS
  <1>1. ScheduleTypeOK
    <2>1. offer \in [status : Status, due : DueStatus, next : Nat \cup {NoDate}, made : Nat]
      BY DEF ScheduleInit, Status, DueStatus
    <2>2. cron \in [at : {"idle", "mature", "notify", "escalate", "flag", "remind"}, due : DueStatus]
      BY DEF ScheduleInit, Idle, DueStatus
    <2>3. req \in [Requests -> {"idle", "pay", "close", "declare", "seize", "pause", "resume"}]
      BY DEF ScheduleInit
    <2>4. day \in Nat /\ faults \in 0..MaxFaults
      BY ScheduleParameters DEF ScheduleInit
    <2> QED BY <2>1, <2>2, <2>3, <2>4, JobFacts DEF ScheduleInit, ScheduleTypeOK
  <1>2. Noticed
    BY ScheduleParameters DEF ScheduleInit, Noticed, PastGrace, NoDate
  <1> QED BY <1>1, <1>2 DEF ScheduleInit, ScheduleInv, DefaultNeedsGrace, Decided, Asked, Idle, At

LEMMA ScheduleNextInv == ScheduleInv /\ [ScheduleNext]_scheduleVars => ScheduleInv'
  <1> SUFFICES ASSUME ScheduleInv, [ScheduleNext]_scheduleVars PROVE ScheduleInv' OBVIOUS
  <1>1. CASE FindScheduled BY <1>1, FindScheduledStep
  <1>2. CASE FindOverdue BY <1>2, FindOverdueStep
  <1>3. CASE FindCompleted BY <1>3, FindCompletedStep
  <1>4. CASE FindReminder BY <1>4, FindReminderStep
  <1>5. CASE Mature \/ Notify \/ Escalate \/ WriteDue BY <1>5, WriteStep
  <1>6. CASE JobFails BY <1>6, JobFailsStep
  <1>7. CASE Tick BY <1>7, TickStep
  <1>8. CASE RestartJobs BY <1>8, RestartJobsStep
  <1>9. CASE PrepareCollateral BY <1>9, CollateralStep
  <1>10. ASSUME NEW h \in Requests,
                Pay(h) \/ Settle(h) \/ MarkDefaulted(h) \/ DistributeCollateral(h) \/ Toggle(h)
         PROVE  ScheduleInv'
    BY <1>10, AskStep
  <1>11. ASSUME NEW h \in Requests, RequestStep(h)
         PROVE  ScheduleInv'
    BY <1>11, RequestsStep
  <1>12. CASE UNCHANGED scheduleVars
    BY <1>12, TotalIsFixed DEF ScheduleInv, ScheduleTypeOK, DefaultNeedsGrace, Decided, Asked, Noticed, PastGrace,
         scheduleVars, requests, calendar, At
  <1> QED BY <1>1, <1>2, <1>3, <1>4, <1>5, <1>6, <1>7, <1>8, <1>9, <1>10, <1>11, <1>12
        DEF ScheduleNext, JobStep

LEMMA ScheduleInvariance == ScheduleSpec => []ScheduleInv
  BY ScheduleInitInv, ScheduleNextInv, PTL DEF ScheduleSpec

\* Every reachable state of the schedule is well typed, whatever the calendar and however
\* often the calendar is cut.
THEOREM ScheduleTypeCorrect == ScheduleSpec => []ScheduleTypeOK
  BY ScheduleInvariance, PTL DEF ScheduleInv

\* No offer is in default before a due date or the maturity is past by more than the grace,
\* for any number of overlapping requests: no stale write of the jobs (checkOverduePayments,
\* updatePaymentDueStatus), of markDefaulted or of processCollateralDistribution brings a
\* default about that no date called for.
THEOREM DefaultsNeedGrace == ScheduleSpec => []DefaultNeedsGrace
  BY ScheduleInvariance, PTL DEF ScheduleInv

=============================================================================
