---------------------------- MODULE DepositRelay ----------------------------
(***************************************************************************)
(* PaymentMonitor, which listens to the payments of the treasury account,  *)
(* and DepositRelayService, which passes a deposit on to the wallet of the *)
(* investor its memo stands for.  The monitor keeps its place in the       *)
(* stream in memory.  There is one deposit row per memo, for all payments  *)
(* with that memo, and handlers of payments and of admin retries run at    *)
(* the same time without a lock.  The stream and the network are external. *)
(***************************************************************************)
EXTENDS Naturals, FiniteSets, Sequences

CONSTANTS
  Payments,      \* payments investors make to the treasury
  Memos,         \* an investor's memo, the same for all the payments
  MemoOf,        \* the memo of each payment
  AssetOf,       \* the asset of each payment
  Handlers,      \* payments and retries in work at the same time
  MaxAttempts,   \* maxReconnectAttempts
  MaxRetries,    \* bound on an admin's retries
  MaxRestarts    \* bound on restarts of the process

Assets == {"USDC", "XLM"}

ASSUME Parameters ==
  /\ MemoOf \in [Payments -> Memos] /\ AssetOf \in [Payments -> Assets]
  /\ MaxAttempts \in Nat \ {0} /\ MaxRetries \in Nat /\ MaxRestarts \in Nat

VARIABLES
  arrived,       \* the payments the treasury has received, in the order of the ledger
  stream,        \* whether the stream is open, and up to where it has delivered
  mon,           \* the fields of PaymentMonitor
  row,           \* the deposit of each memo: status, incoming and outgoing payment
  job,           \* each handler: place and what it has read
  seq,           \* the next sequence number of the treasury account
  sent,          \* the transfers handed to the network
  landed,        \* the ones it has executed
  retries,       \* history: the memos an admin has retried, one entry per retry
  dropped,       \* history: the deposits whose handler ended without its last write
  restarts

network == <<seq, sent, landed>>
vars == <<arrived, stream, mon, row, job, network, retries, dropped, restarts>>

-----------------------------------------------------------------------------
None   == "none"
Status == {"received", "forwarding", "completed", "failed"}

\* A payment is told apart by its id, which stands for its amount and its hash.
Transfer == [memo : Memos, paid : Payments, asset : Assets, seq : Nat]
Deposit  == [status : Status, paid : Payments, out : SUBSET Transfer]
Absent   == [status |-> None]

Places == {"memo", "find", "create", "update", "read", "claim", "sequence", "submit", "await",
           "complete", "fail"}
Idle == [at |-> "idle"]
Job  == [at : Places, memo : Memos, paid : Payments \cup {None}, asset : Assets, seq : Nat]

TypeOK ==
  /\ arrived \in Seq(Payments)
  /\ stream \in [open : BOOLEAN, pos : 0..Len(arrived)]
  /\ mon \in [running : BOOLEAN, reconnecting : BOOLEAN, attempts : 0..MaxAttempts,
              cursor : 0..Len(arrived), timer : {None, "backoff", "notFound"}]
  /\ row \in [Memos -> Deposit \cup {Absent}]
  /\ job \in [Handlers -> Job \cup {Idle}]
  /\ seq \in Nat /\ sent \subseteq Transfer /\ landed \subseteq sent
  /\ retries \in Seq(Memos) /\ dropped \subseteq Memos /\ restarts \in 0..MaxRestarts

\* A new PaymentMonitor.  Cursor 0 is 'now': the ledger's entries count from 1.
Started == [running |-> TRUE, reconnecting |-> FALSE, attempts |-> 0, cursor |-> 0, timer |-> None]

\* start() has opened the stream.
Init ==
  /\ arrived = <<>>
  /\ stream = [open |-> TRUE, pos |-> 0] /\ mon = Started
  /\ row = [m \in Memos |-> Absent]
  /\ job = [h \in Handlers |-> Idle]
  /\ seq = 0 /\ sent = {} /\ landed = {}
  /\ retries = <<>> /\ dropped = {} /\ restarts = 0

At(h, place) == job[h].at = place
Go(h, place) == job' = [job EXCEPT ![h].at = place]
Done(h) == job' = [job EXCEPT ![h] = Idle]
Begin(h, place, m, p, a) ==
  job' = [job EXCEPT ![h] = [at |-> place, memo |-> m, paid |-> p, asset |-> a, seq |-> 0]]

-----------------------------------------------------------------------------
(* The monitor *)

Pay(p) ==
  /\ \A i \in DOMAIN arrived : arrived[i] # p
  /\ arrived' = Append(arrived, p)
  /\ UNCHANGED <<stream, mon, row, job, network, retries, dropped, restarts>>

\* Mutant: without a cursor the stream starts at the beginning of the ledger.
FromStart == 0

\* The cursor 'now'.
Latest == Len(arrived)

\* onmessage: the cursor moves first; handlePayment is not waited for.
Message(h) ==
  /\ stream.open /\ stream.pos < Len(arrived) /\ At(h, "idle")
  /\ stream' = [stream EXCEPT !.pos = @ + 1]
  /\ mon' = [mon EXCEPT !.attempts = 0, !.cursor = stream.pos + 1]
  /\ LET p == arrived[stream.pos + 1] IN Begin(h, "memo", MemoOf[p], p, AssetOf[p])
  /\ UNCHANGED <<arrived, row, network, retries, dropped, restarts>>

\* handleStreamError.  A closed stream may report an error late.
StreamError(kind) ==
  /\ stream.open \/ mon.timer # None
  /\ stream' = [stream EXCEPT !.open = FALSE]
  /\ mon' =
       IF ~mon.running \/ mon.reconnecting THEN mon
       ELSE LET counted == [mon EXCEPT !.reconnecting = TRUE, !.attempts = @ + 1] IN
            IF kind = "notFound" THEN [counted EXCEPT !.running = FALSE, !.timer = "notFound"]
            ELSE IF counted.attempts >= MaxAttempts THEN [counted EXCEPT !.running = FALSE]
            ELSE [counted EXCEPT !.timer = "backoff"]
  /\ UNCHANGED <<arrived, row, job, network, retries, dropped, restarts>>

\* Mutant: a new stream does not clear the reconnection guard.
OpenedUncleared(m) == [m EXCEPT !.timer = None]

\* The guard is cleared when a stream is opened.
Opened(m) == [m EXCEPT !.timer = None, !.reconnecting = FALSE]

\* The timer of handleStreamError fires: startStream goes on from the cursor, or from
\* the end of the ledger while no payment has been seen.
Reconnect ==
  /\ mon.timer # None
  /\ mon' = IF mon.timer = "notFound"
            THEN [Opened(mon) EXCEPT !.running = TRUE, !.attempts = 0]
            ELSE Opened(mon)
  /\ stream' = [open |-> TRUE, pos |-> IF mon.cursor = 0 THEN Latest ELSE mon.cursor]
  /\ UNCHANGED <<arrived, row, job, network, retries, dropped, restarts>>

\* The stream has lived for a minute.
Stable ==
  /\ stream.open /\ mon.attempts > 0
  /\ mon' = [mon EXCEPT !.attempts = 0]
  /\ UNCHANGED <<arrived, stream, row, job, network, retries, dropped, restarts>>

-----------------------------------------------------------------------------
(* The relay *)

monitored == <<arrived, stream, mon, retries, restarts>>
relayed   == <<monitored, dropped>>

\* A call of the database throws where nothing catches it.
Drop(h) == Done(h) /\ dropped' = dropped \cup {job[h].memo}

\* handlePayment asks for the memo; without an answer the payment is ignored.
FetchMemo(h) ==
  /\ At(h, "memo")
  /\ Go(h, "find") \/ Done(h)
  /\ UNCHANGED <<row, network, relayed>>

\* handleIncomingPayment up to its first write: a completed deposit, or an exception, ends it.
Find(h) ==
  LET d == row[job[h].memo] IN
  /\ At(h, "find")
  /\ \/ Done(h)
     \/ d.status = None /\ Go(h, "create")
     \/ d.status \notin {"completed", None} /\ Go(h, "update")
  /\ UNCHANGED <<row, network, relayed>>

\* The insert throws, not only when a row with this unique memo is there by now.
Create(h) ==
  LET m == job[h].memo IN
  /\ At(h, "create")
  /\ \/ /\ row[m] = Absent
        /\ row' = [row EXCEPT ![m] = [status |-> "received", paid |-> job[h].paid, out |-> {}]]
        /\ Go(h, "read")
     \/ Done(h) /\ UNCHANGED row
  /\ UNCHANGED <<network, relayed>>

\* The status is not looked at again: it may be 'completed' by now.
Update(h) ==
  /\ At(h, "update")
  /\ \/ /\ row' = [row EXCEPT ![job[h].memo].status = "received", ![job[h].memo].paid = job[h].paid]
        /\ Go(h, "read")
     \/ Done(h) /\ UNCHANGED row
  /\ UNCHANGED <<network, relayed>>

\* POST /deposits/:id/retry with an asset of the body, and retry-all with USDC.
Retry(h, m, a) ==
  /\ Len(retries) < MaxRetries
  /\ At(h, "idle") /\ row[m] # Absent
  /\ Begin(h, "read", m, None, a)
  /\ retries' = Append(retries, m)
  /\ UNCHANGED <<arrived, stream, mon, row, network, dropped, restarts>>

\* forwardAsset reads the row again, before its try: the row stays 'received' if it throws.
Read(h) ==
  LET d == row[job[h].memo] IN
  /\ At(h, "read")
  /\ \/ /\ d.status = "received" /\ job' = [job EXCEPT ![h].at = "claim", ![h].paid = d.paid]
        /\ UNCHANGED dropped
     \/ d.status = "received" /\ Drop(h)
     \/ d.status # "received" /\ Done(h) /\ UNCHANGED dropped
  /\ UNCHANGED <<row, network, monitored>>

Claim(h) ==
  /\ At(h, "claim")
  /\ \/ row' = [row EXCEPT ![job[h].memo].status = "forwarding"] /\ Go(h, "sequence")
     \/ Go(h, "fail") /\ UNCHANGED row
  /\ UNCHANGED <<network, relayed>>

\* withdrawFromTreasury: native XLM cannot go to a smart wallet, and anything may throw.
TakeSequence(h) ==
  /\ At(h, "sequence")
  /\ \/ job[h].asset = "USDC" /\ job' = [job EXCEPT ![h].at = "submit", ![h].seq = seq]
     \/ Go(h, "fail")
  /\ UNCHANGED <<row, network, relayed>>

TransferOf(h) ==
  [memo |-> job[h].memo, paid |-> job[h].paid, asset |-> job[h].asset, seq |-> job[h].seq]

Submit(h) ==
  /\ At(h, "submit")
  /\ sent' = sent \cup {TransferOf(h)}
  /\ Go(h, "await")
  /\ UNCHANGED <<row, seq, landed, relayed>>

\* The answer to submitTransaction: success, or a failure that may be just a timeout.
Answer(h) ==
  /\ At(h, "await")
  /\ \/ TransferOf(h) \in landed /\ Go(h, "complete")
     \/ Go(h, "fail")
  /\ UNCHANGED <<row, network, relayed>>

\* If this write throws, the catch writes 'failed' over a transfer that went through.
Complete(h) ==
  /\ At(h, "complete")
  /\ \/ /\ row' = [row EXCEPT ![job[h].memo].status = "completed",
                              ![job[h].memo].out = {TransferOf(h)}]
        /\ Done(h)
     \/ Go(h, "fail") /\ UNCHANGED row
  /\ UNCHANGED <<network, relayed>>

\* Mutant: the failure is logged and not written.
FailSilently(h) ==
  /\ At(h, "fail")
  /\ Done(h)
  /\ UNCHANGED <<row, network, relayed>>

\* The write of the catch; nothing catches its own exception.
Fail(h) ==
  /\ At(h, "fail")
  /\ \/ row' = [row EXCEPT ![job[h].memo].status = "failed"] /\ Done(h) /\ UNCHANGED dropped
     \/ Drop(h) /\ UNCHANGED row
  /\ UNCHANGED <<network, monitored>>

-----------------------------------------------------------------------------
(* Around them *)

\* The network includes a transfer whose turn it is; it may fail there.
Include(t) ==
  /\ t \in sent /\ t.seq = seq
  /\ seq' = seq + 1
  /\ landed' = landed \cup {t} \/ UNCHANGED landed
  /\ UNCHANGED <<sent, row, job, relayed>>

\* Another operation uses the treasury's next sequence number.
OtherPayment ==
  /\ \E h \in Handlers : At(h, "submit") \/ At(h, "await")
  /\ seq < Cardinality(Payments) + MaxRetries
  /\ seq' = seq + 1
  /\ UNCHANGED <<sent, landed, row, job, relayed>>

\* The places of forwardAsset, which has a row to bring to its end.
Owing == {"read", "claim", "sequence", "submit", "await", "complete", "fail"}

\* The process dies and starts again, with a new monitor at the end of the ledger.
Restart ==
  /\ restarts < MaxRestarts /\ restarts' = restarts + 1
  /\ mon' = Started
  /\ stream' = [open |-> TRUE, pos |-> Latest]
  /\ job' = [h \in Handlers |-> Idle]
  /\ dropped' = dropped \cup {job[h].memo : h \in {g \in Handlers : job[g].at \in Owing}}
  /\ UNCHANGED <<arrived, row, network, retries>>

Step(h) ==
  \/ FetchMemo(h) \/ Find(h) \/ Create(h) \/ Update(h) \/ Read(h) \/ Claim(h)
  \/ TakeSequence(h) \/ Submit(h) \/ Answer(h) \/ Complete(h) \/ Fail(h)

Next ==
  \/ \E p \in Payments : Pay(p)
  \/ \E h \in Handlers :
       Message(h) \/ Step(h) \/ (\E m \in Memos, a \in Assets : Retry(h, m, a))
  \/ StreamError("notFound") \/ StreamError("other")
  \/ Reconnect \/ Stable \/ Restart \/ OtherPayment
  \/ \E t \in sent : Include(t)

Spec == Init /\ [][Next]_vars

\* The event loop runs the handlers and the timers; the stream and the network owe nothing.
Fairness == WF_vars(Reconnect) /\ \A h \in Handlers : WF_vars(Step(h))

FairSpec == Spec /\ Fairness

-----------------------------------------------------------------------------
(***************************************************************************)
(* Properties                                                              *)
(***************************************************************************)

Retried(m) == \E i \in DOMAIN retries : retries[i] = m
Alone(m) == ~Retried(m) /\ Cardinality({i \in DOMAIN arrived : MemoOf[arrived[i]] = m}) = 1

\* An investor's only payment is forwarded at most once, in its own asset, whatever
\* stream errors, timeouts, failed answers and restarts fall on the way.
ForwardedOnce ==
  \A m \in Memos : Alone(m) =>
    LET transfers == {t \in sent : t.memo = m} IN
    /\ Cardinality(transfers) <= 1
    /\ \A t \in transfers : t.asset = AssetOf[t.paid]

GivenUp == ~mon.running /\ mon.timer = None

\* The stream is opened again after every series of errors, however the errors of old
\* streams, the backoff timer and the guard interleave, until the attempts are used up.
MonitorReturns == []<>(stream.open \/ GivenUp)

\* No deposit stays 'received' or 'forwarding', though handlers take each other's rows back
\* to 'received' and skip rows that another one has claimed, unless a handler of it was
\* ended by a restart, by an exception of its first read or by one of its catch.
RelayEnds == \A m \in Memos :
  <>[](row[m].status \in {None, "completed", "failed"} \/ m \in dropped)

=============================================================================
