------------------------- MODULE DepositRelayProofs -------------------------
(***************************************************************************)
(* Proofs about DepositRelay, for any number of payments, memos, handlers, *)
(* reconnection attempts, retries and restarts.  That a lone payment is    *)
(* forwarded at most once rests on the cursor: what the stream delivers    *)
(* again is always behind its place (Placed), so one payment has one       *)
(* handler, and once that has sent nothing else sends (Single).            *)
(***************************************************************************)
EXTENDS DepositRelay, TLAPS, FiniteSetTheorems

Busy(h) == job[h] # Idle

\* The guard and the counter of the monitor: it only stops, and only waits, with the guard set.
Guarded ==
  /\ mon.timer # None => mon.reconnecting
  /\ mon.running => mon.attempts < MaxAttempts
  /\ ~mon.running => mon.reconnecting /\ mon.timer # "backoff"

\* What a handler has made sure of at its place.
Tracks(h) ==
  /\ job[h].at \in {"update", "read", "claim", "sequence", "submit", "await", "complete", "fail"} =>
       row[job[h].memo] # Absent
  /\ job[h].at # "read" => ~Busy(h) \/ job[h].paid \in Payments

Tracked == \A h \in Handlers : Tracks(h)

\* The cursor is the stream's place, if it is anything; payments are told apart.
Placed ==
  /\ mon.cursor \in {0, stream.pos}
  /\ \A i, j \in DOMAIN arrived : arrived[i] = arrived[j] => i = j

-----------------------------------------------------------------------------
LEMMA JobFacts ==
  ASSUME TypeOK, NEW h \in Handlers
  PROVE  /\ job[h] \in Job \cup {Idle}
         /\ Busy(h) <=> job[h] \in Job
         /\ Busy(h) <=> job[h].at # "idle"
         /\ Busy(h) => job[h].memo \in Memos /\ job[h].asset \in Assets /\ job[h].seq \in Nat
  BY DEF TypeOK, Job, Idle, Busy, Places

LEMMA RowFacts ==
  ASSUME TypeOK, NEW m \in Memos
  PROVE  /\ row[m] \in Deposit \cup {Absent}
         /\ row[m] # Absent => row[m] \in Deposit /\ row[m].paid \in Payments
         /\ row[m].status \in Status <=> row[m] # Absent
         /\ row[m].status = None <=> row[m] = Absent
  BY DEF TypeOK, Deposit, Absent, Status, None

\* The job that moves, and the others that do not.
JobBecomes(h, j) ==
  /\ job' \in [Handlers -> Job \cup {Idle}]
  /\ \A g \in Handlers : g # h => job'[g] = job[g]
  /\ job'[h] = j

LEMMA DoneFacts ==
  ASSUME TypeOK, NEW h \in Handlers, Done(h)
  PROVE  JobBecomes(h, Idle)
  BY DEF TypeOK, Done, JobBecomes

LEMMA GoFacts ==
  ASSUME TypeOK, NEW h \in Handlers, Busy(h), NEW place \in Places, Go(h, place)
  PROVE  /\ JobBecomes(h, job'[h]) /\ job'[h] \in Job /\ job'[h].at = place
         /\ job'[h].memo = job[h].memo /\ job'[h].paid = job[h].paid
         /\ job'[h].asset = job[h].asset /\ job'[h].seq = job[h].seq
<1>1. job[h] \in Job /\ job \in [Handlers -> Job \cup {Idle}]
  BY JobFacts DEF TypeOK
<1>2. job'[h] = [job[h] EXCEPT !.at = place]
  BY <1>1 DEF Go
<1>3. job'[h] \in Job
  BY <1>1, <1>2 DEF Job
<1>4. QED
  BY <1>1, <1>2, <1>3 DEF JobBecomes, Go, Job

LEMMA BeginFacts ==
  ASSUME TypeOK, NEW h \in Handlers, NEW place \in Places, NEW m \in Memos,
         NEW p \in Payments \cup {None}, NEW a \in Assets, Begin(h, place, m, p, a)
  PROVE  /\ JobBecomes(h, job'[h]) /\ job'[h] \in Job
         /\ job'[h].at = place /\ job'[h].memo = m /\ job'[h].paid = p /\ job'[h].asset = a
<1>1. [at |-> place, memo |-> m, paid |-> p, asset |-> a, seq |-> 0] \in Job
  BY DEF Job
<1>2. QED
  BY <1>1 DEF TypeOK, JobBecomes, Begin

\* forwardAsset takes the payment of the row, withdrawFromTreasury the sequence number.
LEMMA ReadFacts ==
  ASSUME TypeOK, Tracked, NEW h \in Handlers, Read(h), ~Done(h)
  PROVE  /\ Busy(h) /\ row[job[h].memo] # Absent /\ JobBecomes(h, job'[h]) /\ job'[h] \in Job
         /\ job'[h].at = "claim" /\ job'[h].paid = row[job[h].memo].paid
         /\ job'[h].memo = job[h].memo /\ job'[h].asset = job[h].asset
<1>1. Busy(h) /\ job[h] \in Job /\ job[h].memo \in Memos
  BY JobFacts DEF Read, At
<1>2. row[job[h].memo] # Absent
  BY DEF Tracked, Tracks, Read, At
<1>3. row[job[h].memo].paid \in Payments
  BY <1>1, <1>2, RowFacts
<1>4. job' = [job EXCEPT ![h] = [job[h] EXCEPT !.at = "claim", !.paid = row[job[h].memo].paid]]
  BY DEF Read, Drop
<1>5. [job[h] EXCEPT !.at = "claim", !.paid = row[job[h].memo].paid] \in Job
  BY <1>1, <1>3 DEF Job, Places
<1>6. JobBecomes(h, [job[h] EXCEPT !.at = "claim", !.paid = row[job[h].memo].paid])
  BY <1>4, <1>5 DEF TypeOK, JobBecomes
<1>7. QED
  BY <1>1, <1>2, <1>4, <1>5, <1>6 DEF JobBecomes, Job

LEMMA SequenceFacts ==
  ASSUME TypeOK, NEW h \in Handlers, TakeSequence(h), ~Go(h, "fail")
  PROVE  /\ Busy(h) /\ JobBecomes(h, job'[h]) /\ job'[h] \in Job
         /\ job'[h].at = "submit" /\ job'[h].paid = job[h].paid
         /\ job'[h].memo = job[h].memo /\ job'[h].asset = job[h].asset
<1>1. Busy(h) /\ job[h] \in Job
  BY JobFacts DEF TakeSequence, At
<1>2. job'[h] = [job[h] EXCEPT !.at = "submit", !.seq = seq]
      /\ \A g \in Handlers : g # h => job'[g] = job[g]
  BY DEF TypeOK, TakeSequence
<1>3. job'[h] \in Job
  BY <1>1, <1>2 DEF TypeOK, Job, Places
<1>4. job' \in [Handlers -> Job \cup {Idle}]
  BY <1>3 DEF TypeOK, TakeSequence
<1>5. QED
  BY <1>1, <1>2, <1>3, <1>4 DEF JobBecomes, Job

\* The writes of a row.
RowBecomes(m, r) ==
  /\ row' \in [Memos -> Deposit \cup {Absent}]
  /\ \A n \in Memos : n # m => row'[n] = row[n]
  /\ row'[m] = r /\ r # Absent

LEMMA WriteFacts ==
  ASSUME TypeOK, NEW m \in Memos, NEW d \in Deposit, row' = [row EXCEPT ![m] = d]
  PROVE  RowBecomes(m, d)
<1>1. d # Absent
  <2>1. d.status # None
    BY DEF Deposit, Status, None
  <2>2. QED
    BY <2>1 DEF Absent
<1>2. QED
  BY <1>1 DEF TypeOK, RowBecomes

LEMMA TransferFacts ==
  ASSUME TypeOK, NEW h \in Handlers, Busy(h), job[h].paid \in Payments
  PROVE  TransferOf(h) \in Transfer
  BY JobFacts DEF TransferOf, Transfer

\* Which row a step writes, if it writes one, and what becomes of its payment.
LEMMA RowStep ==
  ASSUME TypeOK, Tracked, NEW h \in Handlers,
         Create(h) \/ Update(h) \/ Claim(h) \/ Complete(h) \/ Fail(h), row' # row
  PROVE  LET m == job[h].memo IN
         /\ Busy(h) /\ m \in Memos
         /\ RowBecomes(m, row'[m])
         /\ row'[m] # Absent
         /\ \/ row'[m].paid = row[m].paid /\ row[m] # Absent
            \/ row'[m].paid = job[h].paid
<1> DEFINE m == job[h].memo
<1>1. Busy(h) /\ m \in Memos /\ job[h] \in Job
  BY JobFacts DEF Create, Update, Claim, Complete, Fail, At
<1>2. CASE Create(h)
  <2>1. job[h].paid \in Payments
    BY <1>1, <1>2 DEF Create, At, Tracked, Tracks
  <2>2. [status |-> "received", paid |-> job[h].paid, out |-> {}] \in Deposit
    BY <2>1 DEF Deposit, Status
  <2> DEFINE d == [status |-> "received", paid |-> job[h].paid, out |-> {}]
  <2>3. d \in Deposit /\ d.paid = job[h].paid /\ row' = [row EXCEPT ![m] = d]
    BY <1>2, <2>2 DEF Create
  <2> HIDE DEF d
  <2>4. RowBecomes(m, d)
    BY <1>1, <2>3, WriteFacts, Zenon
  <2>5. QED
    BY <1>1, <2>3, <2>4 DEF RowBecomes
<1>3. CASE Update(h)
  <2>1. job[h].paid \in Payments /\ row[m] \in Deposit
    BY <1>1, <1>3, RowFacts DEF Update, At, Tracked, Tracks
  <2> DEFINE d == [row[m] EXCEPT !.status = "received", !.paid = job[h].paid]
  <2>2. d \in Deposit /\ d.paid = job[h].paid
    BY <2>1 DEF Deposit, Status
  <2>3. row' = [row EXCEPT ![m] = d]
    BY <1>1, <1>3 DEF Update, TypeOK
  <2> HIDE DEF d
  <2>4. RowBecomes(m, d)
    BY <1>1, <2>2, <2>3, WriteFacts, Zenon
  <2>5. QED
    BY <1>1, <2>2, <2>4 DEF RowBecomes
<1>4. CASE Claim(h) \/ Fail(h)
  <2>1. row[m] \in Deposit /\ row[m] # Absent
    BY <1>1, <1>4, RowFacts DEF Claim, Fail, At, Tracked, Tracks
  <2>2. PICK s \in Status : row' = [row EXCEPT ![m].status = s]
    BY <1>4 DEF Claim, Fail, Status
  <2> DEFINE d == [row[m] EXCEPT !.status = s]
  <2>3. d \in Deposit /\ d.paid = row[m].paid
    BY <2>1 DEF Deposit
  <2>4. row' = [row EXCEPT ![m] = d]
    BY <2>2
  <2> HIDE DEF d
  <2>5. RowBecomes(m, d)
    BY <1>1, <2>3, <2>4, WriteFacts, Zenon
  <2>6. QED
    BY <1>1, <2>1, <2>3, <2>5 DEF RowBecomes
<1>5. CASE Complete(h)
  <2>1. row[m] \in Deposit /\ row[m] # Absent /\ job[h].paid \in Payments
    BY <1>1, <1>5, RowFacts DEF Complete, At, Tracked, Tracks
  <2>2. TransferOf(h) \in Transfer
    BY <1>1, <2>1, TransferFacts
  <2> DEFINE d == [row[m] EXCEPT !.status = "completed", !.out = {TransferOf(h)}]
  <2>3. d \in Deposit /\ d.paid = row[m].paid
    BY <2>1, <2>2 DEF Deposit, Status
  <2>4. row' = [row EXCEPT ![m] = d]
    BY <1>1, <1>5 DEF Complete, TypeOK
  <2> HIDE DEF d
  <2>5. RowBecomes(m, d)
    BY <1>1, <2>3, <2>4, WriteFacts, Zenon
  <2>6. QED
    BY <1>1, <2>1, <2>3, <2>5 DEF RowBecomes
<1>6. QED
  BY <1>2, <1>3, <1>4, <1>5

\* What a step of a handler does to its job, whatever step it is.
LEMMA JobStep ==
  ASSUME TypeOK, Tracked, NEW h \in Handlers, Step(h)
  PROVE  /\ Busy(h) /\ JobBecomes(h, job'[h])
         /\ \/ job'[h] = Idle
            \/ /\ job'[h] \in Job /\ job'[h].memo = job[h].memo /\ job'[h].asset = job[h].asset
               /\ \/ job'[h].paid = job[h].paid
                  \/ /\ job'[h].paid = row[job[h].memo].paid /\ row[job[h].memo] # Absent
                     /\ job'[h].at = "claim"
<1>1. Busy(h)
  BY JobFacts DEF Step, At, FetchMemo, Find, Create, Update, Read, Claim, TakeSequence, Submit,
                  Answer, Complete, Fail
<1>2. CASE Done(h)
  BY <1>1, <1>2, DoneFacts DEF JobBecomes
<1>3. CASE \E place \in Places : Go(h, place)
  BY <1>1, <1>3, GoFacts
<1>4. CASE Read(h)
  <2>1. CASE ~Done(h)
    BY <1>4, <2>1, ReadFacts
  <2>2. QED
    BY <1>2, <2>1
<1>5. CASE TakeSequence(h)
  <2>1. CASE ~Go(h, "fail")
    BY <1>5, <2>1, SequenceFacts
  <2>2. QED
    BY <1>3, <2>1 DEF Places
<1>6. Done(h) \/ (\E place \in Places : Go(h, place)) \/ Read(h) \/ TakeSequence(h)
  BY DEF Step, FetchMemo, Find, Create, Update, Claim, Submit, Answer, Complete, Fail, Drop, Places
<1>7. QED
  BY <1>2, <1>3, <1>4, <1>5, <1>6

\* Only the writes of RowStep touch a row, and only Submit hands over a transfer.
LEMMA StepWrites ==
  ASSUME TypeOK, Tracked, NEW h \in Handlers, Step(h)
  PROVE  /\ UNCHANGED <<arrived, stream, mon, retries, restarts, seq, landed>>
         /\ UNCHANGED dropped \/ dropped' = dropped \cup {job[h].memo}
         /\ \/ UNCHANGED row
            \/ Create(h) \/ Update(h) \/ Claim(h) \/ Complete(h) \/ Fail(h)
         /\ UNCHANGED sent \/ Submit(h)
  BY DEF Step, FetchMemo, Find, Create, Update, Read, Claim, TakeSequence, Submit, Answer,
         Complete, Fail, Drop, monitored, relayed, network

LEMMA TypeStep ==
  ASSUME TypeOK, Guarded, Tracked, [Next]_vars
  PROVE  TypeOK'
<1> USE Parameters
<1>0. 0 \in 0..MaxAttempts
  OBVIOUS
<1>1. CASE UNCHANGED vars
  BY <1>1 DEF TypeOK, vars, network
<1>2. ASSUME NEW h \in Handlers, Step(h)
      PROVE  TypeOK'
  <2>1. job' \in [Handlers -> Job \cup {Idle}]
    BY <1>2, JobStep DEF JobBecomes
  <2>2. row' \in [Memos -> Deposit \cup {Absent}]
    <3>1. CASE row' # row
      BY <1>2, <3>1, StepWrites, RowStep DEF RowBecomes
    <3>2. QED
      BY <3>1 DEF TypeOK
  <2>3. sent' \subseteq Transfer /\ landed' \subseteq sent'
    <3>1. CASE Submit(h)
      <4>1. job[h].paid \in Payments
        BY <1>2, <3>1, JobFacts DEF Submit, At, Tracked, Tracks
      <4>2. TransferOf(h) \in Transfer
        BY <1>2, <4>1, JobStep, TransferFacts
      <4>3. QED
        BY <3>1, <4>2 DEF Submit, TypeOK
    <3>2. QED
      BY <1>2, <3>1, StepWrites DEF TypeOK
  <2>4. dropped' \subseteq Memos
    BY <1>2, JobStep, JobFacts, StepWrites DEF TypeOK
  <2>5. QED
    BY <1>2, <2>1, <2>2, <2>3, <2>4, StepWrites DEF TypeOK
<1>3. ASSUME NEW p \in Payments, Pay(p)
      PROVE  TypeOK'
  <2>1. arrived' \in Seq(Payments) /\ Len(arrived') = Len(arrived) + 1
    BY <1>3 DEF Pay, TypeOK
  <2>2. stream' \in [open : BOOLEAN, pos : 0..Len(arrived')]
        /\ mon' \in [running : BOOLEAN, reconnecting : BOOLEAN, attempts : 0..MaxAttempts,
                     cursor : 0..Len(arrived'), timer : {None, "backoff", "notFound"}]
    BY <1>3, <2>1 DEF Pay, TypeOK
  <2>3. QED
    BY <1>3, <2>1, <2>2 DEF Pay, TypeOK, network
<1>4. ASSUME NEW h \in Handlers, Message(h)
      PROVE  TypeOK'
  <2>1. arrived[stream.pos + 1] \in Payments
    BY <1>4 DEF Message, TypeOK
  <2>2. JobBecomes(h, job'[h])
    BY <1>4, <2>1, BeginFacts DEF Message, Places
  <2>3. stream' \in [open : BOOLEAN, pos : 0..Len(arrived')]
        /\ mon' \in [running : BOOLEAN, reconnecting : BOOLEAN, attempts : 0..MaxAttempts,
                     cursor : 0..Len(arrived'), timer : {None, "backoff", "notFound"}]
    <3>1. stream.pos \in Nat /\ Len(arrived) \in Nat /\ stream.pos < Len(arrived)
          /\ stream.pos + 1 \in 0..Len(arrived) /\ arrived' = arrived
      BY <1>4 DEF Message, TypeOK
    <3>2. stream' = [stream EXCEPT !.pos = stream.pos + 1]
          /\ mon' = [mon EXCEPT !.attempts = 0, !.cursor = stream.pos + 1]
      BY <1>4 DEF Message
    <3>3. QED
      BY <1>0, <3>1, <3>2 DEF TypeOK
  <2>4. QED
    BY <1>4, <2>2, <2>3 DEF Message, TypeOK, JobBecomes, network
<1>5. ASSUME NEW h \in Handlers, NEW m \in Memos, NEW a \in Assets, Retry(h, m, a)
      PROVE  TypeOK'
  <2>1. JobBecomes(h, job'[h])
    BY <1>5, BeginFacts DEF Retry, Places
  <2>2. QED
    BY <1>5, <2>1 DEF Retry, TypeOK, JobBecomes, network
<1>6. ASSUME StreamError("notFound") \/ StreamError("other")
      PROVE  TypeOK'
  <2>1. stream' \in [open : BOOLEAN, pos : 0..Len(arrived)]
    BY <1>6 DEF StreamError, TypeOK
  <2>2. mon' \in [running : BOOLEAN, reconnecting : BOOLEAN, attempts : 0..MaxAttempts,
                  cursor : 0..Len(arrived), timer : {None, "backoff", "notFound"}]
    <3>1. CASE ~mon.running \/ mon.reconnecting
      BY <1>6, <3>1 DEF StreamError, TypeOK
    <3>2. CASE mon.running /\ ~mon.reconnecting
      <4>1. mon.attempts + 1 \in 0..MaxAttempts
        BY <3>2 DEF Guarded, TypeOK
      <4>2. QED
        BY <1>6, <3>2, <4>1 DEF StreamError, TypeOK, None
    <3>3. QED
      BY <3>1, <3>2 DEF TypeOK
  <2>3. QED
    BY <1>6, <2>1, <2>2 DEF StreamError, TypeOK, network
<1>7. CASE Reconnect
  <2>1. Opened(mon) \in [running : BOOLEAN, reconnecting : BOOLEAN, attempts : 0..MaxAttempts,
                         cursor : 0..Len(arrived), timer : {None, "backoff", "notFound"}]
    BY DEF Opened, TypeOK, None
  <2>2. mon' \in [running : BOOLEAN, reconnecting : BOOLEAN, attempts : 0..MaxAttempts,
                  cursor : 0..Len(arrived), timer : {None, "backoff", "notFound"}]
    BY <1>7, <1>0, <2>1 DEF Reconnect
  <2>3. Len(arrived) \in 0..Len(arrived) /\ mon.cursor \in 0..Len(arrived)
    BY DEF TypeOK
  <2>4. stream' \in [open : BOOLEAN, pos : 0..Len(arrived)]
    BY <1>7, <2>3 DEF Reconnect, Latest
  <2>5. QED
    BY <1>7, <2>2, <2>4 DEF Reconnect, TypeOK, network
<1>8. CASE Stable
  <2>1. mon' \in [running : BOOLEAN, reconnecting : BOOLEAN, attempts : 0..MaxAttempts,
                  cursor : 0..Len(arrived), timer : {None, "backoff", "notFound"}]
    BY <1>8, <1>0 DEF Stable, TypeOK
  <2>2. QED
    BY <1>8, <2>1 DEF Stable, TypeOK, network
<1>9. CASE Restart
  <2>1. Len(arrived) \in Nat /\ restarts' \in 0..MaxRestarts
    BY <1>9 DEF Restart, TypeOK
  <2>2. stream' \in [open : BOOLEAN, pos : 0..Len(arrived)]
    BY <1>9, <2>1 DEF Restart, Latest
  <2>3. mon' \in [running : BOOLEAN, reconnecting : BOOLEAN, attempts : 0..MaxAttempts,
                  cursor : 0..Len(arrived), timer : {None, "backoff", "notFound"}]
    BY <1>9, <2>1 DEF Restart, Started
  <2>4. job' \in [Handlers -> Job \cup {Idle}]
    BY <1>9 DEF Restart
  <2>5. dropped' \subseteq Memos
    <3>1. ASSUME NEW h \in Handlers, job[h].at \in Owing
          PROVE  job[h].memo \in Memos
      BY <3>1, JobFacts DEF Owing
    <3>2. QED
      BY <1>9, <3>1 DEF Restart, TypeOK
  <2>6. QED
    BY <1>9, <2>1, <2>2, <2>3, <2>4, <2>5 DEF Restart, TypeOK, network
<1>10. CASE OtherPayment \/ \E t \in sent : Include(t)
  BY <1>10 DEF OtherPayment, Include, relayed, monitored, TypeOK
<1>11. QED
  BY <1>1, <1>2, <1>3, <1>4, <1>5, <1>6, <1>7, <1>8, <1>9, <1>10 DEF Next
LEMMA GuardedStep ==
  ASSUME TypeOK, Guarded, [Next]_vars
  PROVE  Guarded'
<1> USE Parameters
<1>1. CASE UNCHANGED mon
  BY <1>1 DEF Guarded
<1>2. ASSUME NEW h \in Handlers, Message(h)
      PROVE  Guarded'
  BY <1>2 DEF Message, Guarded, TypeOK
<1>3. CASE StreamError("notFound") \/ StreamError("other")
  <2>1. CASE ~mon.running \/ mon.reconnecting
    <3>1. mon' = mon
      BY <1>3, <2>1 DEF StreamError
    <3>2. QED
      BY <3>1 DEF Guarded
  <2>2. CASE mon.running /\ ~mon.reconnecting
    <3> DEFINE counted == [mon EXCEPT !.reconnecting = TRUE, !.attempts = @ + 1]
    <3>0. /\ mon \in [running : BOOLEAN, reconnecting : BOOLEAN, attempts : Nat,
                      cursor : 0..Len(arrived), timer : {None, "backoff", "notFound"}]
          /\ mon.timer = None
      BY <2>2 DEF Guarded, TypeOK
    <3>1. /\ counted.running = TRUE /\ counted.reconnecting = TRUE
          /\ counted.attempts = mon.attempts + 1 /\ counted.timer = None
      BY <2>2, <3>0
    <3>2. mon.attempts + 1 \in Nat
      BY <3>0
    <3>3. counted \in [running : BOOLEAN, reconnecting : BOOLEAN, attempts : Nat,
                       cursor : 0..Len(arrived), timer : {None, "backoff", "notFound"}]
      BY <3>0, <3>2
    <3>4. \/ mon' = [counted EXCEPT !.running = FALSE, !.timer = "notFound"]
          \/ counted.attempts >= MaxAttempts /\ mon' = [counted EXCEPT !.running = FALSE]
          \/ counted.attempts < MaxAttempts /\ mon' = [counted EXCEPT !.timer = "backoff"]
      BY <1>3, <2>2, <3>0, <3>1 DEF StreamError
    <3> HIDE DEF counted
    <3>5. QED
      BY <3>1, <3>4, <3>3 DEF Guarded, None
  <2>3. QED
    BY <2>1, <2>2 DEF TypeOK
<1>4. CASE Reconnect
  BY <1>4 DEF Reconnect, Opened, Guarded, TypeOK, None
<1>5. CASE Stable
  BY <1>5 DEF Stable, Guarded, TypeOK
<1>6. CASE Restart
  BY <1>6 DEF Restart, Started, Guarded
<1>7. QED
  BY <1>1, <1>2, <1>3, <1>4, <1>5, <1>6
  DEF Next, vars, Pay, Retry, OtherPayment, Include, Step, FetchMemo, Find, Create, Update, Read,
      Claim, TakeSequence, Submit, Answer, Complete, Fail, relayed, monitored

LEMMA PlacedStep ==
  ASSUME TypeOK, Placed, [Next]_vars
  PROVE  Placed'
<1>1. CASE UNCHANGED <<arrived, stream, mon>>
  BY <1>1 DEF Placed
<1>2. ASSUME NEW p \in Payments, Pay(p)
      PROVE  Placed'
  BY <1>2 DEF Pay, Placed, TypeOK
<1>3. ASSUME NEW h \in Handlers, Message(h)
      PROVE  Placed'
  BY <1>3 DEF Message, Placed, TypeOK
<1>4. CASE StreamError("notFound") \/ StreamError("other")
  BY <1>4 DEF StreamError, Placed, TypeOK
<1>5. CASE Reconnect
  BY <1>5 DEF Reconnect, Opened, Latest, Placed, TypeOK
<1>6. CASE Stable
  BY <1>6 DEF Stable, Placed, TypeOK
<1>7. CASE Restart
  BY <1>7 DEF Restart, Started, Placed, TypeOK
<1>8. QED
  BY <1>1, <1>2, <1>3, <1>4, <1>5, <1>6, <1>7
  DEF Next, vars, Retry, OtherPayment, Include, Step, FetchMemo, Find, Create, Update, Read,
      Claim, TakeSequence, Submit, Answer, Complete, Fail, relayed, monitored

LEMMA TrackedStep ==
  ASSUME TypeOK, Tracked, [Next]_vars
  PROVE  Tracked'
<1>1. CASE UNCHANGED <<row, job>>
  BY <1>1 DEF Tracked, Tracks, Busy
<1>2. ASSUME NEW h \in Handlers, Step(h)
      PROVE  Tracked'
  <2>1. \A m \in Memos : row[m] # Absent => row'[m] # Absent
    BY <1>2, StepWrites, RowStep DEF RowBecomes
  <2>2. ASSUME NEW g \in Handlers, g # h
        PROVE  Tracks(g)'
    <3>1. job'[g] = job[g] /\ Tracks(g)
      BY <1>2, <2>2, JobStep DEF JobBecomes, Tracked
    <3>2. Busy(g) => job[g].memo \in Memos /\ job[g].at # "idle"
      BY JobFacts
    <3>3. ~Busy(g) => job[g].at = "idle"
      BY DEF Busy, Idle
    <3>4. QED
      BY <2>1, <3>1, <3>2, <3>3 DEF Tracks, Busy
  <2>3. Tracks(h)'
    <3>1. Busy(h) /\ job[h].memo \in Memos /\ job[h] \in Job /\ Tracks(h)
      BY <1>2, JobStep, JobFacts DEF Tracked
    <3>2. CASE job'[h] = Idle
      BY <3>2 DEF Tracks, Busy, Idle
    <3>3. CASE job'[h] # Idle
      <4>1. job'[h] \in Job /\ job'[h].memo = job[h].memo
        BY <1>2, <3>3, JobStep
      <4>2. job'[h].paid \in Payments \/ job'[h].at = "read"
        <5>1. CASE job[h].at = "read"
          BY <1>2, <3>1, <3>3, <5>1, ReadFacts, RowFacts, DoneFacts
          DEF JobBecomes, Step, At, FetchMemo, Find, Create, Update, Claim, TakeSequence, Submit,
              Answer, Complete, Fail
        <5>2. CASE job[h].at # "read"
          BY <1>2, <3>1, <3>3, <5>2, JobStep, RowFacts DEF Tracks
        <5>3. QED
          BY <5>1, <5>2
      <4>3. job'[h].at \in {"update", "read", "claim", "sequence", "submit", "await", "complete",
                            "fail"} => row'[job[h].memo] # Absent
        <5>1. CASE row[job[h].memo] # Absent
          BY <2>1, <3>1, <5>1
        <5>2. CASE row[job[h].memo] = Absent
          <6>1. job[h].at \in {"memo", "find", "create"}
            BY <3>1, <5>2 DEF Tracks, Job, Places
          <6>2. CASE FetchMemo(h)
            BY <3>1, <3>3, <6>2, GoFacts, DoneFacts DEF FetchMemo, Places, JobBecomes
          <6>3. CASE Find(h)
            <7>1. row[job[h].memo].status = None
              BY <3>1, <5>2, RowFacts
            <7>2. Done(h) \/ Go(h, "create")
              BY <6>3, <7>1 DEF Find
            <7>3. QED
              BY <3>1, <3>3, <7>2, GoFacts, DoneFacts DEF Places, JobBecomes
          <6>4. CASE Create(h)
            <7>1. ~Done(h)
              BY <3>1, <3>3, DoneFacts DEF JobBecomes
            <7>2. row' # row
              <8>1. row' = [row EXCEPT ![job[h].memo] =
                              [status |-> "received", paid |-> job[h].paid, out |-> {}]]
                BY <6>4, <7>1 DEF Create
              <8>2. row'[job[h].memo].status = "received"
                BY <3>1, <8>1 DEF TypeOK
              <8>3. QED
                BY <5>2, <8>2 DEF Absent, None
            <7>3. QED
              BY <1>2, <6>4, <7>2, RowStep
          <6>5. QED
            BY <1>2, <6>1, <6>2, <6>3, <6>4
            DEF Step, At, Update, Read, Claim, TakeSequence, Submit, Answer, Complete, Fail
        <5>3. QED
          BY <5>1, <5>2
      <4>4. QED
        BY <4>1, <4>2, <4>3 DEF Tracks
    <3>4. QED
      BY <3>2, <3>3
  <2>4. QED
    BY <2>2, <2>3 DEF Tracked
<1>3. ASSUME NEW h \in Handlers, Message(h)
      PROVE  Tracked'
  <2> DEFINE p == arrived[stream.pos + 1]
  <2>1. p \in Payments /\ MemoOf[p] \in Memos /\ AssetOf[p] \in Assets
    BY <1>3, Parameters DEF Message, TypeOK
  <2>2. JobBecomes(h, job'[h]) /\ job'[h].at = "memo" /\ job'[h].paid \in Payments
    <3>1. Begin(h, "memo", MemoOf[p], p, AssetOf[p])
      BY <1>3 DEF Message
    <3> HIDE DEF p
    <3>2. QED
      BY <2>1, <3>1, BeginFacts DEF Places
  <2>3. QED
    BY <1>3, <2>2 DEF Message, JobBecomes, Tracked, Tracks, Busy
<1>4. ASSUME NEW h \in Handlers, NEW m \in Memos, NEW a \in Assets, Retry(h, m, a)
      PROVE  Tracked'
  <2>1. JobBecomes(h, job'[h]) /\ job'[h].at = "read" /\ job'[h].memo = m
    <3>1. Begin(h, "read", m, None, a)
      BY <1>4 DEF Retry
    <3>2. QED
      BY <3>1, BeginFacts DEF Places
  <2>2. QED
    BY <1>4, <2>1 DEF Retry, JobBecomes, Tracked, Tracks, Busy
<1>5. CASE Restart
  BY <1>5 DEF Restart, Tracked, Tracks, Busy, Idle
<1>6. QED
  BY <1>1, <1>2, <1>3, <1>4, <1>5
  DEF Next, vars, Pay, StreamError, Reconnect, Stable, OtherPayment, Include, relayed, monitored
-----------------------------------------------------------------------------
\* A payment the stream has passed.
Behind(m, p) == MemoOf[p] = m /\ \E i \in 1..stream.pos : arrived[i] = p

\* At most one payment has the memo, and no admin retries it.
Single(m) ==
  /\ ~Retried(m)
  /\ \A i, j \in DOMAIN arrived : MemoOf[arrived[i]] = m /\ MemoOf[arrived[j]] = m => i = j

Working(h, m) == Busy(h) /\ job[h].memo = m

\* The only payment has one handler, and at most one transfer, after which that handler
\* only waits for the answer and writes it down.
Sole(m) ==
  /\ \A h \in Handlers : Working(h, m) =>
       Behind(m, job[h].paid) /\ job[h].asset = AssetOf[job[h].paid]
  /\ \A g, h \in Handlers : Working(g, m) /\ Working(h, m) => g = h
  /\ row[m] # Absent => Behind(m, row[m].paid)
  /\ \A t \in sent : t.memo = m =>
       /\ Behind(m, t.paid) /\ t.asset = AssetOf[t.paid]
       /\ \A h \in Handlers : Working(h, m) => job[h].at \in {"await", "complete", "fail"}
  /\ \A t, u \in sent : t.memo = m /\ u.memo = m => t = u

LEMMA Grows ==
  ASSUME TypeOK, Placed, [Next]_vars
  PROVE  /\ stream.pos \in 0..Len(arrived) /\ stream'.pos \in Nat /\ stream'.pos >= stream.pos
         /\ DOMAIN arrived = 1..Len(arrived) /\ DOMAIN arrived \subseteq DOMAIN arrived'
         /\ \A i \in DOMAIN arrived : arrived'[i] = arrived[i]
         /\ \A m \in Memos : Retried(m) => Retried(m)'
<1>1. stream.pos \in 0..Len(arrived) /\ DOMAIN arrived = 1..Len(arrived) /\ Len(arrived) \in Nat
  BY DEF TypeOK
<1>2. stream'.pos \in Nat /\ stream'.pos >= stream.pos
  <2>1. CASE UNCHANGED stream
    BY <1>1, <2>1
  <2>2. ASSUME NEW h \in Handlers, Message(h)
        PROVE  stream'.pos = stream.pos + 1
    BY <2>2 DEF Message, TypeOK
  <2>3. CASE StreamError("notFound") \/ StreamError("other")
    BY <1>1, <2>3 DEF StreamError, TypeOK
  <2>4. CASE Reconnect
    BY <1>1, <2>4 DEF Reconnect, Latest, Placed
  <2>5. CASE Restart
    BY <1>1, <2>5 DEF Restart, Latest
  <2>6. \/ UNCHANGED stream \/ StreamError("notFound") \/ StreamError("other") \/ Reconnect
        \/ Restart \/ \E h \in Handlers : Message(h)
    BY DEF Next, vars, Pay, Stable, Retry, OtherPayment, Include, Step, FetchMemo, Find, Create,
           Update, Read, Claim, TakeSequence, Submit, Answer, Complete, Fail, relayed, monitored
  <2>7. CASE \E h \in Handlers : Message(h)
    BY <1>1, <2>2, <2>7
  <2>8. QED
    BY <2>1, <2>3, <2>4, <2>5, <2>6, <2>7
<1>3. UNCHANGED arrived \/ \E p \in Payments : arrived' = Append(arrived, p)
  BY DEF Next, vars, Pay, Message, StreamError, Reconnect, Stable, Restart, Retry, OtherPayment,
         Include, Step, FetchMemo, Find, Create, Update, Read, Claim, TakeSequence, Submit,
         Answer, Complete, Fail, relayed, monitored
<1>4. UNCHANGED retries \/ \E m \in Memos : retries' = Append(retries, m)
  BY DEF Next, vars, Pay, Message, StreamError, Reconnect, Stable, Restart, Retry, OtherPayment,
         Include, Step, FetchMemo, Find, Create, Update, Read, Claim, TakeSequence, Submit,
         Answer, Complete, Fail, relayed, monitored
<1>5. \A i \in DOMAIN arrived : i \in DOMAIN arrived' /\ arrived'[i] = arrived[i]
  <2>1. ASSUME NEW p \in Payments, arrived' = Append(arrived, p)
        PROVE  \A i \in DOMAIN arrived : i \in DOMAIN arrived' /\ arrived'[i] = arrived[i]
    <3>1. arrived \in Seq(Payments)
      BY DEF TypeOK
    <3>2. QED
      BY <2>1, <3>1
  <2>2. QED
    BY <1>3, <2>1
<1>6. \A i \in DOMAIN retries : i \in DOMAIN retries' /\ retries'[i] = retries[i]
  <2>1. ASSUME NEW m \in Memos, retries' = Append(retries, m)
        PROVE  \A i \in DOMAIN retries : i \in DOMAIN retries' /\ retries'[i] = retries[i]
    <3>1. retries \in Seq(Memos)
      BY DEF TypeOK
    <3>2. QED
      BY <2>1, <3>1
  <2>2. QED
    BY <1>4, <2>1
<1>7. QED
  BY <1>1, <1>2, <1>5, <1>6 DEF Retried

LEMMA BehindFacts ==
  ASSUME TypeOK, Placed, [Next]_vars, NEW m \in Memos
  PROVE  /\ Single(m)' => Single(m)
         /\ \A p : Behind(m, p) => Behind(m, p)'
         /\ Single(m) => \A p, q : Behind(m, p) /\ Behind(m, q) => p = q
<1>1. Single(m)' => Single(m)
  BY Grows DEF Single
<1>2. ASSUME NEW p, Behind(m, p)
      PROVE  Behind(m, p)'
  <2>1. PICK i \in 1..stream.pos : arrived[i] = p
    BY <1>2 DEF Behind
  <2>2. i \in 1..stream'.pos /\ arrived'[i] = p
    BY <2>1, Grows
  <2>3. QED
    BY <1>2, <2>2 DEF Behind
<1>3. ASSUME Single(m), NEW p, NEW q, Behind(m, p), Behind(m, q)
      PROVE  p = q
  BY <1>3, Grows DEF Single, Behind
<1>4. QED
  BY <1>1, <1>2, <1>3

LEMMA SoleStep ==
  ASSUME TypeOK, Tracked, Placed, NEW m \in Memos, Single(m) => Sole(m), Single(m)', [Next]_vars
  PROVE  Sole(m)'
<1>1. Single(m) /\ Sole(m)
  BY BehindFacts
<1>2. \A p : Behind(m, p) => Behind(m, p)'
  BY BehindFacts
<1>3. CASE UNCHANGED <<row, job, sent>>
  BY <1>1, <1>2, <1>3 DEF Sole, Working, Busy
<1>4. CASE Restart
  <2>1. \A h \in Handlers : ~Working(h, m)'
    BY <1>4 DEF Restart, Working, Busy
  <2>2. UNCHANGED <<row, sent>>
    BY <1>4 DEF Restart, network
  <2>3. QED
    BY <1>1, <1>2, <2>1, <2>2 DEF Sole
<1>5. ASSUME NEW h \in Handlers, JobBecomes(h, job'[h]), UNCHANGED <<row, sent>>, ~Working(h, m)'
      PROVE  Sole(m)'
  <2>1. \A g \in Handlers : Working(g, m)' => Working(g, m) /\ job'[g] = job[g]
    BY <1>5 DEF JobBecomes, Working, Busy
  <2>2. QED
    BY <1>1, <1>2, <1>5, <2>1 DEF Sole
<1>6. ASSUME NEW h \in Handlers, Message(h)
      PROVE  Sole(m)'
  <2>1. PICK p \in Payments : p = arrived[stream.pos + 1]
    BY <1>6 DEF Message, TypeOK
  <2>2. JobBecomes(h, job'[h]) /\ job'[h].memo = MemoOf[p] /\ job'[h].paid = p
        /\ job'[h].asset = AssetOf[p]
    <3>1. Begin(h, "memo", MemoOf[p], p, AssetOf[p])
      BY <1>6, <2>1 DEF Message
    <3>2. MemoOf[p] \in Memos /\ AssetOf[p] \in Assets
      BY Parameters
    <3>3. QED
      BY <3>1, <3>2, BeginFacts DEF Places
  <2>3. UNCHANGED <<row, sent>>
    BY <1>6 DEF Message, network
  <2>4. CASE MemoOf[p] # m
    BY <1>5, <2>2, <2>3, <2>4 DEF Working
  <2>5. CASE MemoOf[p] = m
    <3>1. stream.pos + 1 \in DOMAIN arrived /\ stream.pos \in Nat
      BY <1>6, Grows DEF Message
    <3>2. \A q : ~Behind(m, q)
      BY <1>1, <2>1, <2>5, <3>1, Grows DEF Single, Behind
    <3>3. \A g \in Handlers : Working(g, m)' => g = h
      BY <1>1, <2>2, <3>2 DEF Sole, JobBecomes, Working, Busy
    <3>4. row[m] = Absent /\ \A t \in sent : t.memo # m
      BY <1>1, <3>2 DEF Sole
    <3>5. Behind(m, p)'
      <4>1. stream'.pos = stream.pos + 1 /\ arrived' = arrived
        BY <1>6 DEF Message, TypeOK
      <4>2. QED
        BY <2>1, <2>5, <3>1, <4>1 DEF Behind
    <3>6. QED
      BY <2>2, <2>3, <3>3, <3>4, <3>5 DEF Sole
  <2>6. QED
    BY <2>4, <2>5
<1>7. ASSUME NEW h \in Handlers, NEW n \in Memos, NEW a \in Assets, Retry(h, n, a)
      PROVE  Sole(m)'
  <2>1. n # m
    <3>1. retries \in Seq(Memos) /\ retries' = Append(retries, n)
      BY <1>7 DEF Retry, TypeOK
    <3>2. Len(retries) + 1 \in DOMAIN retries' /\ retries'[Len(retries) + 1] = n
      BY <3>1
    <3>3. QED
      BY <3>2 DEF Single, Retried
  <2>2. Begin(h, "read", n, None, a) /\ UNCHANGED <<row, sent>>
    BY <1>7 DEF Retry, network
  <2>3. JobBecomes(h, job'[h]) /\ job'[h].memo = n
    BY <2>2, BeginFacts DEF Places
  <2>4. QED
    BY <1>5, <2>1, <2>2, <2>3 DEF Working
<1>8. ASSUME NEW h \in Handlers, Step(h)
      PROVE  Sole(m)'
  <2>1. /\ Busy(h) /\ JobBecomes(h, job'[h])
        /\ \A g \in Handlers : Working(g, m)' => Working(g, m)
    BY <1>8, JobStep DEF JobBecomes, Working, Busy
  <2>2. CASE ~Working(h, m)
    <3>1. row'[m] = row[m]
      BY <1>8, <2>1, <2>2, StepWrites, RowStep DEF RowBecomes, Working
    <3>2. \A t \in sent' : t.memo = m => t \in sent
      BY <1>8, <2>1, <2>2, StepWrites DEF Submit, TransferOf, Working
    <3>3. \A g \in Handlers : Working(g, m)' => job'[g] = job[g]
      BY <2>1, <2>2 DEF JobBecomes
    <3>4. QED
      BY <1>1, <1>2, <2>1, <3>1, <3>2, <3>3 DEF Sole
  <2>3. CASE Working(h, m)
    <3>1. Behind(m, job[h].paid) /\ job[h].asset = AssetOf[job[h].paid]
      BY <1>1, <2>3 DEF Sole
    <3>2. \A g \in Handlers : Working(g, m)' => g = h
      BY <1>1, <2>1, <2>3 DEF Sole
    <3>3. Working(h, m)' => job'[h].paid = job[h].paid /\ job'[h].asset = job[h].asset
      <4>1. row[m] # Absent => row[m].paid = job[h].paid
        BY <1>1, <3>1, BehindFacts DEF Sole
      <4>2. QED
        BY <1>8, <2>3, <4>1, JobStep DEF Working, Busy
    <3>4. row'[m] # Absent => Behind(m, row'[m].paid)
      BY <1>1, <1>8, <2>3, <3>1, StepWrites, RowStep DEF Sole, Working
    <3>5. CASE Submit(h)
      <4>1. \A t \in sent' : t.memo = m => t = TransferOf(h)
        BY <1>1, <2>3, <3>5 DEF Sole, Submit, At
      <4>2. job'[h].at = "await"
        BY <2>1, <3>5, GoFacts DEF Submit, Places
      <4>3. TransferOf(h).paid = job[h].paid /\ TransferOf(h).asset = job[h].asset
        BY DEF TransferOf
      <4>4. QED
        BY <1>2, <3>1, <3>2, <3>3, <3>4, <4>1, <4>2, <4>3 DEF Sole
    <3>6. CASE ~Submit(h)
      <4>1. sent' = sent
        BY <1>8, <3>6, StepWrites
      <4>2. ASSUME NEW t \in sent, t.memo = m, Working(h, m)'
            PROVE  job'[h].at \in {"await", "complete", "fail"}
        <5>1. job[h].at \in {"await", "complete", "fail"}
          BY <1>1, <2>3, <4>2 DEF Sole
        <5>2. job'[h] # Idle
          BY <4>2 DEF Working, Busy
        <5>3. ~Done(h)
          BY <2>1, <5>2, DoneFacts DEF JobBecomes
        <5>4. Go(h, "complete") \/ Go(h, "fail")
          BY <1>8, <5>1, <5>3
          DEF Step, At, FetchMemo, Find, Create, Update, Read, Claim, TakeSequence, Submit, Answer,
              Complete, Fail, Drop
        <5>5. QED
          BY <2>1, <5>4, GoFacts DEF Places
      <4>3. QED
        BY <1>1, <1>2, <3>1, <3>2, <3>3, <3>4, <4>1, <4>2 DEF Sole
    <3>7. QED
      BY <3>5, <3>6
  <2>4. QED
    BY <2>2, <2>3
<1>9. QED
  BY <1>3, <1>4, <1>6, <1>7, <1>8
  DEF Next, vars, network, Pay, StreamError, Reconnect, Stable, OtherPayment, Include, relayed, monitored

-----------------------------------------------------------------------------
IInv ==
  /\ TypeOK /\ Guarded /\ Tracked /\ Placed
  /\ \A m \in Memos : Single(m) => Sole(m)

\* IInv is an inductive invariant.
THEOREM Inductive == Spec => []IInv
<1>1. Init => IInv
  <2> SUFFICES ASSUME Init PROVE IInv
    OBVIOUS
  <2>1. TypeOK
    BY Parameters DEF Init, TypeOK, Started
  <2>2. Guarded /\ Tracked /\ Placed
    BY Parameters DEF Init, Guarded, Tracked, Tracks, Placed, Started, Busy, Idle
  <2>3. \A m \in Memos : Sole(m)
    BY DEF Init, Sole, Working, Busy
  <2>4. QED
    BY <2>1, <2>2, <2>3 DEF IInv
<1>2. IInv /\ [Next]_vars => IInv'
  BY TypeStep, GuardedStep, PlacedStep, TrackedStep, SoleStep DEF IInv
<1>3. QED
  BY <1>1, <1>2, PTL DEF Spec

\* The monitor, the rows, the handlers and the transfers keep their types: the attempts stay
\* within maxReconnectAttempts, and the cursor and the stream within the ledger.
THEOREM TypeCorrect == Spec => []TypeOK
<1>1. IInv => TypeOK
  BY DEF IInv
<1>2. QED
  BY <1>1, Inductive, PTL

\* An investor's only payment, which no admin retries, is handed to the network at most
\* once and in its own asset, whatever errors, timeouts and restarts fall on the way.
THEOREM ForwardsOnce == Spec => []ForwardedOnce
<1>1. IInv => ForwardedOnce
  <2> SUFFICES ASSUME IInv, NEW m \in Memos, Alone(m)
               PROVE  LET transfers == {t \in sent : t.memo = m} IN
                      /\ Cardinality(transfers) <= 1
                      /\ \A t \in transfers : t.asset = AssetOf[t.paid]
    BY DEF ForwardedOnce
  <2> DEFINE mine == {i \in DOMAIN arrived : MemoOf[arrived[i]] = m}
             transfers == {t \in sent : t.memo = m}
  <2>1. IsFiniteSet(mine)
    <3>1. DOMAIN arrived = 1..Len(arrived) /\ Len(arrived) \in Nat
      BY DEF IInv, TypeOK
    <3>2. IsFiniteSet(DOMAIN arrived)
      BY <3>1, FS_Interval
    <3>3. QED
      BY <3>2, FS_Subset
  <2>2. PICK i : mine = {i}
    BY <2>1, FS_Singleton DEF Alone
  <2>3. Single(m) /\ Sole(m)
    BY <2>2 DEF Single, Alone, IInv
  <2>4. CASE transfers = {}
    BY <2>4, FS_EmptySet
  <2>5. CASE transfers # {}
    <3>1. PICK t : transfers = {t}
      BY <2>3, <2>5 DEF Sole
    <3>2. Cardinality(transfers) = 1
      BY <3>1, FS_Singleton
    <3>3. QED
      BY <2>3, <3>2 DEF Sole
  <2>6. QED
    BY <2>4, <2>5
<1>2. QED
  BY <1>1, Inductive, PTL
=============================================================================
