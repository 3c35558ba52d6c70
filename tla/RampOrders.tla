----------------------------- MODULE RampOrders -----------------------------
(***************************************************************************)
(* Ramp orders: RampOrderService and RampOfframpService, the receiver of   *)
(* the anchor's webhooks, and the reconcilers that fetch what a webhook    *)
(* has not brought.  Each of them reads the local row, decides, and writes *)
(* it by id without a lock.  An off-ramp order also moves tokens in two    *)
(* transactions: from the investor to the investor's relayer account, and  *)
(* from there to the anchor.  The timed reconciler, Cron, sweeps over the  *)
(* BatchSize rows that have gone longest without a write.                  *)
(* The anchor (EtherFuse) and the network are external: an order upstream  *)
(* only moves forward, a webhook comes late, again, out of order or never. *)
(***************************************************************************)
EXTENDS Naturals, FiniteSets

CONSTANTS
  Orders,        \* orders of one investor
  Abandoned,     \* on-ramp orders nobody pays, cancels or looks at: they stay 'created'
  Handlers,      \* requests and webhooks in work at the same time
  Cron,          \* the timed reconciler
  BatchSize,     \* BATCH_SIZE, the rows of one sweep
  MaxXdrs,       \* bound on the transfers an investor signs for an order
  MaxFaults      \* bound on restarts, and on calls whose answer is not what happened

ASSUME Parameters ==
  /\ MaxXdrs \in Nat \ {0} /\ BatchSize \in Nat \ {0} /\ MaxFaults \in Nat
  /\ Cron \notin Handlers

VARIABLES
  sells,         \* the orders of type 'offramp'; the others are of type 'onramp'
  up,            \* the order at the anchor: its status, and whether it asks for a claim
  posted,        \* the updates the anchor has announced; a webhook can bring each of them
  local,         \* ramp_orders: status, relayerHoldTxHash (0: none), burnTransaction set
  older,         \* the pairs of rows whose first was written last before the second
  events,        \* ramp_webhook_events
  job,           \* each worker: place, order, and what it has read or fetched
  sweep,         \* the rows, as read, that the sweep under way has still to visit
  signed,        \* how many transfers the investor has signed for each order
  pending,       \* transactions the network has got, and whose fate nobody waits for
  moved,         \* the signed transfers that have landed
  relayer,       \* tokens on the investor's relayer account
  paid,          \* payments to the anchor for each order
  faults

upstream == <<sells, up, posted>>
table == <<local, older>>
tokens == <<signed, pending, moved, relayer, paid>>
vars == <<upstream, table, events, job, sweep, tokens, faults>>

Workers == Handlers \cup {Cron}

-----------------------------------------------------------------------------
Ended  == {"finalized", "failed", "refunded", "canceled", "expired"}
Status == {"created", "funded", "completed"} \cup Ended

\* Mutant: a status can only be followed by the next one.
StepwiseTransitions ==
  [created   |-> {"funded", "canceled", "expired", "failed", "refunded"},
   funded    |-> {"completed", "refunded", "failed"},
   completed |-> {"finalized"}]

\* ALLOWED_TRANSITIONS, without its empty entries.
AllowedTransitions ==
  [created   |-> Status \ {"created"},
   funded    |-> {"completed", "finalized", "refunded", "failed"},
   completed |-> {"finalized"}]

\* TERMINAL_STATUSES: 'completed' is one of them, whatever the kind of order.
Terminal == Ended \cup {"completed"}

Places == {"insert", "fetch", "read", "write", "cancel", "move", "hold", "pay", "burn"}
Idle   == [at |-> "idle"]
Job    == [at : Places, order : Orders, status : Status, claim : BOOLEAN, xdr : 0..MaxXdrs]
Absent == [status |-> "absent"]
Row    == [status : Status, hold : 0..MaxXdrs, burn : BOOLEAN]
Visited == [order : Orders, status : Status]
Update == [order : Orders, status : Status, claim : BOOLEAN]

TypeOK ==
  /\ sells \subseteq Orders
  /\ up \in [Orders -> [status : Status, claim : BOOLEAN] \cup {Absent}]
  /\ posted \subseteq Update /\ events \subseteq Orders \X Status
  /\ local \in [Orders -> Row \cup {Absent}] /\ older \subseteq Orders \X Orders
  /\ job \in [Workers -> Job \cup {Idle}] /\ sweep \subseteq Visited
  /\ signed \in [Orders -> 0..MaxXdrs]
  /\ pending \subseteq Orders \X (0..MaxXdrs) /\ moved \subseteq Orders \X (0..MaxXdrs)
  /\ relayer \in Nat /\ paid \in [Orders -> Nat]
  /\ faults \in 0..MaxFaults

Init ==
  /\ sells = {}
  /\ up = [o \in Orders |-> Absent] /\ posted = {}
  /\ local = [o \in Orders |-> Absent] /\ older = {} /\ events = {}
  /\ job = [h \in Workers |-> Idle] /\ sweep = {}
  /\ signed = [o \in Orders |-> 0] /\ pending = {} /\ moved = {}
  /\ relayer = 0 /\ paid = [o \in Orders |-> 0]
  /\ faults = 0

At(h, place) == job[h].at = place
Done(h) == job' = [job EXCEPT ![h] = Idle]
Go(h, place) == job' = [job EXCEPT ![h].at = place]

\* A job that has just read the local row.
Begin(h, place, o, x) ==
  job' = [job EXCEPT ![h] =
            [at |-> place, order |-> o, status |-> local[o].status, claim |-> FALSE, xdr |-> x]]

\* A write moves its row behind all others in updatedAt.
Touched(o) ==
  {p \in older : p[1] # o} \cup {<<p, o>> : p \in {n \in Orders \ {o} : local[n] # Absent}}

\* A job that goes on with an update of the anchor.
Carry(h, place, u) ==
  job' = [job EXCEPT ![h] =
            [at |-> place, order |-> u.order, status |-> u.status, claim |-> u.claim, xdr |-> 0]]

-----------------------------------------------------------------------------
(* The anchor *)

Becomes(o, status, wantsClaim) ==
  /\ up' = [up EXCEPT ![o] = [status |-> status, claim |-> wantsClaim]]
  /\ posted' = posted \cup {[order |-> o, status |-> status, claim |-> wantsClaim]}

\* The anchor goes on with an order; an off-ramp needs the tokens to be there.
Advance(o, status) ==
  /\ o \notin Abandoned
  /\ \/ up[o].status = "created" /\ status \in {"funded", "completed", "refunded", "expired", "failed"}
     \/ up[o].status = "funded" /\ status \in {"completed", "refunded", "failed"}
     \/ up[o].status = "completed" /\ status = "finalized" /\ o \in sells
  /\ o \in sells /\ status \in {"funded", "completed", "refunded"} => paid[o] > 0
  /\ \/ Becomes(o, status, up[o].claim)
     \/ status = "completed" /\ o \notin sells /\ Becomes(o, status, TRUE)
  /\ UNCHANGED <<sells, table, events, job, sweep, tokens, faults>>

-----------------------------------------------------------------------------
(* RampOrderService *)

\* createOrder: the order exists at the anchor before it has a row.
Create(h, o) ==
  /\ At(h, "idle") /\ up[o] = Absent
  /\ \/ UNCHANGED sells
     \/ o \notin Abandoned /\ sells' = sells \cup {o}
  /\ Becomes(o, "created", FALSE)
  /\ job' = [job EXCEPT ![h] =
               [at |-> "insert", order |-> o, status |-> "created", claim |-> FALSE, xdr |-> 0]]
  /\ UNCHANGED <<table, events, sweep, tokens, faults>>

Insert(h) ==
  /\ At(h, "insert")
  /\ local' = [local EXCEPT ![job[h].order] = [status |-> "created", hold |-> 0, burn |-> FALSE]]
  /\ older' = Touched(job[h].order)
  /\ Done(h)
  /\ UNCHANGED <<upstream, events, sweep, tokens, faults>>

\* handleWebhook: the event is recorded, the delivery acknowledged, the update applied
\* after that.  A delivery of the same status is acknowledged and dropped.
Receive(h, u) ==
  /\ At(h, "idle") /\ u \in posted /\ <<u.order, u.status>> \notin events
  /\ events' = events \cup {<<u.order, u.status>>}
  /\ Carry(h, "read", u)
  /\ UNCHANGED <<upstream, table, sweep, tokens, faults>>

Stale(o) == local[o].status \in Status \ Terminal

\* The reads of an order that reconcile it on the way.
Reconcile(h, o) ==
  /\ At(h, "idle") /\ Stale(o) /\ o \notin Abandoned
  /\ Begin(h, "fetch", o, 0)
  /\ UNCHANGED <<upstream, table, events, sweep, tokens, faults>>

\* As many stale rows as a sweep takes have gone longer without a write.
Crowded(o) == Cardinality({p \in Orders : Stale(p) /\ <<p, o>> \in older}) >= BatchSize

\* Mutant: the rows written last come first.
NewestBatch ==
  {o \in Orders : Stale(o) /\ Cardinality({p \in Orders : Stale(p) /\ <<o, p>> \in older}) < BatchSize}

Batch == {o \in Orders : Stale(o) /\ ~Crowded(o)}

\* RampOrderReconciler.reconcile reads the rows of a sweep.  It leaves out those written
\* in the last two minutes: in the model their fetch fails instead.
Sweep ==
  /\ At(Cron, "idle") /\ sweep = {} /\ Batch # {}
  /\ sweep' = {[order |-> o, status |-> local[o].status] : o \in Batch}
  /\ UNCHANGED <<upstream, table, events, job, tokens, faults>>

\* It fetches one after the other, in an order the model leaves open.
Visit(v) ==
  /\ At(Cron, "idle") /\ v \in sweep
  /\ sweep' = sweep \ {v}
  /\ job' = [job EXCEPT ![Cron] =
               [at |-> "fetch", order |-> v.order, status |-> v.status, claim |-> FALSE, xdr |-> 0]]
  /\ UNCHANGED <<upstream, table, events, tokens, faults>>

\* The anchor's answer: nothing new, or the present state of the order.
Fetched(h) ==
  LET o == job[h].order IN
  /\ At(h, "fetch")
  /\ IF up[o].status = job[h].status THEN Done(h)
     ELSE Carry(h, "read", [order |-> o, status |-> up[o].status, claim |-> up[o].claim])
  /\ UNCHANGED <<upstream, table, events, sweep, tokens, faults>>

FetchFails(h) ==
  /\ At(h, "fetch")
  /\ Done(h)
  /\ UNCHANGED <<upstream, table, events, sweep, tokens, faults>>

\* A known order, no claim (the wallet is a contract), and an allowed transition.
Accepted(h) ==
  LET from == local[job[h].order].status IN
  /\ ~job[h].claim
  /\ from \in DOMAIN AllowedTransitions /\ job[h].status \in AllowedTransitions[from]

\* handleOrderUpdated up to its write.  A claim is noted in the row; an update that is
\* not accepted leaves it, and its updatedAt, as they are.
Read(h) ==
  LET o == job[h].order IN
  /\ At(h, "read")
  /\ IF Accepted(h) THEN Go(h, "write") ELSE Done(h)
  /\ older' = IF job[h].claim /\ local[o] # Absent THEN Touched(o) ELSE older
  /\ UNCHANGED <<upstream, local, events, sweep, tokens, faults>>

\* The write does not look at the status again.
Write(h) ==
  /\ At(h, "write")
  /\ local' = [local EXCEPT ![job[h].order].status = job[h].status]
  /\ older' = Touched(job[h].order)
  /\ Done(h)
  /\ UNCHANGED <<upstream, events, sweep, tokens, faults>>

-----------------------------------------------------------------------------
(* Cancelling *)

\* Either kind of order, up to the call of the anchor.
RequestCancel(h, o) ==
  /\ At(h, "idle") /\ local[o].status = "created" /\ o \notin Abandoned
  /\ Begin(h, "cancel", o, 0)
  /\ UNCHANGED <<upstream, table, events, sweep, tokens, faults>>

\* Mutant: a refusal of the anchor is not noticed.
CanceledAnyway(o) == up[o] # Absent

CanceledThere(o) == up[o].status = "created"

\* The anchor cancels or refuses.  An off-ramp order is then written without a look at
\* the row, an on-ramp order through a fetch, which may fail.
Cancel(h) ==
  LET o == job[h].order
      canceled == [order |-> o, status |-> "canceled", claim |-> FALSE] IN
  /\ At(h, "cancel")
  /\ IF up[o].status = "created" THEN Becomes(o, "canceled", FALSE) ELSE UNCHANGED <<up, posted>>
  /\ \/ CanceledThere(o) /\ Carry(h, IF o \in sells THEN "write" ELSE "read", canceled)
     \/ (CanceledThere(o) => o \notin sells) /\ Done(h)
  /\ UNCHANGED <<sells, table, events, sweep, tokens, faults>>

-----------------------------------------------------------------------------
(* RampOfframpService: the tokens *)

\* prepareSigningTx, and the investor signs: as often as they ask while 'created'.
Sign(o) ==
  /\ o \in sells /\ local[o].status = "created" /\ signed[o] < MaxXdrs
  /\ signed' = [signed EXCEPT ![o] = @ + 1]
  /\ UNCHANGED <<upstream, table, events, job, sweep, pending, moved, relayer, paid, faults>>

\* submitSignedTx: only the status is looked at, not whether tokens have moved already.
Submit(h, o, x) ==
  /\ At(h, "idle") /\ o \in sells /\ local[o].status = "created" /\ x <= signed[o]
  /\ Begin(h, "move", o, x)
  /\ UNCHANGED <<upstream, table, events, sweep, tokens, faults>>

\* Among the transactions of an order, the payment to the anchor is number 0.  One at a
\* time can be pending: the next would have the same sequence number.
Payment == 0

Timeout == faults < MaxFaults /\ faults' = faults + 1

\* Mutant: the relayer pays first and the hash of the transfer is recorded later.
MovedThenPay(h) == Go(h, "pay")

MovedThenHold(h) == Go(h, "hold")

\* TX 1: a signed transfer lands at most once.  Any answer that has a hash lets the job
\* go on, whether the transfer has landed or not; an error may hide one that lands.
Move(h) ==
  LET tx == <<job[h].order, job[h].xdr>> IN
  /\ At(h, "move")
  /\ \/ /\ tx \notin moved /\ MovedThenHold(h)
        /\ moved' = moved \cup {tx} /\ relayer' = relayer + 1 /\ pending' = pending \ {tx}
        /\ UNCHANGED faults
     \/ /\ Timeout /\ (MovedThenHold(h) \/ Done(h))
        /\ pending' = pending \cup ({tx} \ moved)
        /\ UNCHANGED <<moved, relayer>>
     \/ Done(h) /\ UNCHANGED <<pending, moved, relayer, faults>>
  /\ UNCHANGED <<upstream, table, events, sweep, signed, paid>>

\* A transaction that nobody waits for lands, if it ever does.
Land(tx) ==
  /\ tx \in pending
  /\ \/ tx[2] # Payment /\ moved' = moved \cup {tx} /\ relayer' = relayer + 1 /\ UNCHANGED paid
     \/ /\ tx[2] = Payment /\ relayer > 0 /\ relayer' = relayer - 1
        /\ paid' = [paid EXCEPT ![tx[1]] = @ + 1] /\ UNCHANGED moved
  /\ pending' = pending \ {tx}
  /\ UNCHANGED <<upstream, table, events, job, sweep, signed, faults>>

\* relayerHoldTxHash: there is one, and a later submission writes over it.
Hold(h) ==
  /\ At(h, "hold")
  /\ local' = [local EXCEPT ![job[h].order].hold = job[h].xdr]
  /\ older' = Touched(job[h].order)
  /\ Go(h, "pay")
  /\ UNCHANGED <<upstream, events, sweep, tokens, faults>>

\* TX 2, from whatever the relayer account holds.  A failure leaves the tokens there; its
\* answer is as little to be relied on as that of TX 1.
Pay(h) ==
  LET o == job[h].order IN
  /\ At(h, "pay")
  /\ \/ /\ relayer > 0 /\ relayer' = relayer - 1 /\ paid' = [paid EXCEPT ![o] = @ + 1]
        /\ Go(h, "burn") /\ UNCHANGED <<pending, faults>>
     \/ /\ Timeout /\ (Go(h, "burn") \/ Done(h))
        /\ pending' = pending \cup {<<o, Payment>>} /\ UNCHANGED <<relayer, paid>>
     \/ Done(h) /\ UNCHANGED <<pending, relayer, paid, faults>>
  /\ UNCHANGED <<upstream, table, events, sweep, signed, moved>>

\* burnTransaction
Burn(h) ==
  /\ At(h, "burn")
  /\ local' = [local EXCEPT ![job[h].order].burn = TRUE]
  /\ older' = Touched(job[h].order)
  /\ Done(h)
  /\ UNCHANGED <<upstream, events, sweep, tokens, faults>>

-----------------------------------------------------------------------------
\* The process restarts: recorded events stay recorded, their updates are lost.
Restart ==
  /\ Timeout
  /\ job' = [h \in Workers |-> Idle] /\ sweep' = {}
  /\ UNCHANGED <<upstream, table, events, tokens>>

Step(h) ==
  \/ Insert(h) \/ Fetched(h) \/ Read(h) \/ Write(h) \/ Cancel(h)
  \/ Move(h) \/ Hold(h) \/ Pay(h) \/ Burn(h)

Next ==
  \/ \E o \in Orders : Sign(o) \/ \E s \in Status : Advance(o, s)
  \/ \E h \in Handlers, o \in Orders :
       \/ Create(h, o) \/ Reconcile(h, o) \/ RequestCancel(h, o)
       \/ \E x \in 1..MaxXdrs : Submit(h, o, x)
  \/ \E h \in Handlers, u \in posted : Receive(h, u)
  \/ \E h \in Workers : Step(h) \/ FetchFails(h)
  \/ Sweep \/ \E v \in sweep : Visit(v)
  \/ \E tx \in pending : Land(tx)
  \/ Restart

Spec == Init /\ [][Next]_vars

(***************************************************************************)
(* The event loop runs the jobs on; a sweep begins every five minutes and  *)
(* visits all the rows it has read; a fetch may fail, but not every time   *)
(* an order is visited.  Nothing is assumed of which orders are visited:   *)
(* that is Batch.  Neither the anchor nor its webhooks nor the investor    *)
(* owe anything, and a request that reads an order is never certain.       *)
(***************************************************************************)
Fairness ==
  /\ \A h \in Workers : WF_vars(Step(h) \/ FetchFails(h))
  /\ WF_vars(Sweep) /\ WF_vars(\E v \in sweep : Visit(v))
  /\ \A o \in Orders : SF_vars(At(Cron, "fetch") /\ job[Cron].order = o /\ Fetched(Cron))

FairSpec == Spec /\ Fairness

-----------------------------------------------------------------------------
(***************************************************************************)
(* Properties                                                              *)
(***************************************************************************)

\* A row only has a status the anchor has announced for it, and without asking for a
\* claim, though updates are applied late and out of order and cancelling writes itself.
StatusWasAnnounced ==
  \A o \in Orders : local[o] # Absent =>
    [order |-> o, status |-> local[o].status, claim |-> FALSE] \in posted

\* A row that shows an order as ended shows how it has ended: a late write may take a row
\* back to an earlier status, which the reconcilers look at again, never to an ending
\* other than the anchor's, which nobody would look at again.
EndingsAgree ==
  \A o \in Orders :
    /\ local[o].status \in Ended => up[o].status = local[o].status
    /\ local[o].status = "completed" => up[o].status \in {"completed", "finalized"}

OnRecord(o) == local[o] # Absent /\ local[o].hold # 0

\* The relayer pays the anchor only for orders whose row names a transfer, and a row
\* names a payment only beside a transfer: whatever times out, is answered too early,
\* lands late or is cut off by a restart, and however many submissions overlap.
PaidIsOnRecord ==
  \A o \in Orders :
    paid[o] > 0 \/ (local[o] # Absent /\ local[o].burn) => OnRecord(o)

Agrees(o) ==
  \/ local[o].status = up[o].status
  \/ local[o].status = "completed" /\ up[o].status = "finalized"

\* Every row ends up with the anchor's status, whatever webhooks were lost, early, late or
\* applied over newer ones, unless it stays crowded out of the sweeps by BatchSize older
\* rows.  What else stays apart: an order without a row, one the anchor wants a claim
\* for, and 'finalized' over 'completed', which nobody fetches.
FollowsAnchor ==
  \A o \in Orders : <>[](local[o] = Absent \/ up[o].claim \/ Agrees(o) \/ Crowded(o))

=============================================================================
