--------------------------- MODULE InvestmentFlow ---------------------------
(***************************************************************************)
(* Buying into one offer: purchaseInvestment prepares a signed intent,     *)
(* submitInvestmentTx turns it into an investments row and a transaction,  *)
(* SorobanReconciler resolves the rows the handler left behind.  Requests, *)
(* the reconciler, the ledger and crashes interleave between the awaits of *)
(* the JavaScript code; what lies between two awaits is one action.        *)
(*                                                                         *)
(* One request inserts at most one row and builds one transaction, so the  *)
(* request names its row and its transaction too.                          *)
(***************************************************************************)
EXTENDS Integers, FiniteSetsExt

CONSTANTS
  Investors,
  Intents,       \* prepared purchases; each carries one wallet-signed auth entry
  Requests,      \* POST /submit-tx calls
  Amounts,       \* token amounts investors ask for
  Supply,        \* offer.totalSupply, all of it deposited in the sale contract
  MaxRestarts,   \* bound on process restarts
  None

ASSUME Constants ==
  /\ Amounts \subseteq Nat \ {0} /\ Supply \in Nat
  /\ MaxRestarts \in Nat
  /\ None \notin Intents /\ None \notin Requests

VARIABLES
  offerOpen,     \* offer.status = 'active' in the database
  intent,        \* what each intent buys and for whom, None before it is prepared
  pc, of,        \* each request: where its handler stands, the intent it carries
  status,        \* investments.status of the request's row
  distribution,  \* the requests with a tokenDistribution row
  tx,            \* the request's transaction, seen from the ledger
  consumed,      \* auth-entry nonces the ledger has used up
  left,          \* security tokens in the sale contract
  todo, current, answer,   \* SorobanReconciler.reconcile's loop and its last RPC answer
  restarts

handler    == <<pc, of>>
database   == <<offerOpen, status, distribution>>
ledger     == <<tx, consumed, left>>
reconciler == <<todo, current, answer>>
flowVars == <<intent, handler, database, ledger, reconciler, restarts>>

InFlight == {"pending_payment", "trade_submitted"}
Live == {"guard", "offer", "rebuild", "insert", "anchor", "broadcast", "await", "record"}
Replied == {"idempotent", "refused", "done"}

FlowTypeOK ==
  /\ offerOpen \in BOOLEAN
  /\ intent \in [Intents -> [by : Investors, amt : Amounts] \cup {None}]
  /\ pc \in [Requests -> {"idle", "dead"} \cup Live \cup Replied]
  /\ of \in [Requests -> Intents \cup {None}]
  /\ \A r \in Requests : pc[r] # "idle" => of[r] # None /\ intent[of[r]] # None
  /\ status \in [Requests -> InFlight \cup {"absent", "distributed", "failed", "cancelled"}]
  /\ distribution \subseteq Requests
  /\ tx \in [Requests -> {"none", "built", "pending", "success", "failed", "expired"}]
  /\ consumed \subseteq Intents
  /\ left \in 0..Supply
  /\ todo \subseteq Requests /\ current \in Requests \cup {None}
  /\ answer \in {"none", "SUCCESS", "FAILED", "NOT_FOUND", "GONE"}
  /\ restarts \in 0..MaxRestarts

FlowInit ==
  /\ offerOpen = TRUE
  /\ intent = [i \in Intents |-> None]
  /\ pc = [r \in Requests |-> "idle"] /\ of = [r \in Requests |-> None]
  /\ status = [r \in Requests |-> "absent"] /\ distribution = {}
  /\ tx = [r \in Requests |-> "none"] /\ consumed = {} /\ left = Supply
  /\ todo = {} /\ current = None /\ answer = "none"
  /\ restarts = 0

-----------------------------------------------------------------------------
\* The rows of an investor, and what the rows in some statuses add up to.
RowsOf(v) == {r \in Requests : status[r] # "absent" /\ intent[of[r]].by = v}
Tokens(rows) == MapThenSumSet(LAMBDA r : intent[of[r]].amt, rows)

\* Investment.getTokensSoldByOffer
TokensSold ==
  Tokens({r \in Requests : status[r] \in {"pending_payment", "distributed"}})

\* The daily cap of the investor: the aggregate sums a column the investments table
\* does not have and filters on a status its enum does not have, so the query
\* throws, and the catch lets the request through.
dailyCapCheck(v, n) == TRUE

(***************************************************************************)
(* POST /purchase: read-only checks, then a simulated trade() for the      *)
(* investor's wallet to sign.  No row is written.                          *)
(***************************************************************************)
purchaseInvestment(i) ==
  /\ intent[i] = None
  /\ offerOpen
  /\ \E v \in Investors, n \in Amounts :
       /\ dailyCapCheck(v, n)
       /\ n <= Supply - TokensSold
       /\ n <= left
       /\ intent' = [intent EXCEPT ![i] = [by |-> v, amt |-> n]]
  /\ UNCHANGED <<handler, database, ledger, reconciler, restarts>>

-----------------------------------------------------------------------------
Buyer(r) == intent[of[r]].by
Goto(r, label) == pc' = [pc EXCEPT ![r] = label]

\* The in-flight query of an idempotent return: one trade_submitted row is enough,
\* whichever intent it came from.
Submit(r, i) ==
  /\ pc[r] = "idle" /\ intent[i] # None
  /\ of' = [of EXCEPT ![r] = i]
  /\ \/ /\ \E s \in RowsOf(intent[i].by) : status[s] = "trade_submitted"
        /\ Goto(r, "idempotent")
     \/ /\ \A s \in RowsOf(intent[i].by) : status[s] # "trade_submitted"
        /\ Goto(r, "guard")
  /\ UNCHANGED <<intent, database, ledger, reconciler, restarts>>

\* The race guard: 409 when a row is in flight, found after a second await.
DuplicateGuard(r) ==
  /\ pc[r] = "guard"
  /\ \/ /\ \E s \in RowsOf(Buyer(r)) : status[s] \in InFlight
        /\ Goto(r, "refused")
     \/ /\ \A s \in RowsOf(Buyer(r)) : status[s] \notin InFlight
        /\ Goto(r, "offer")
  /\ UNCHANGED <<intent, of, database, ledger, reconciler, restarts>>

\* The offer must still be active; the in-memory limiter may refuse as well.
OfferCheck(r) ==
  /\ pc[r] = "offer"
  /\ \/ offerOpen /\ Goto(r, "rebuild")
     \/ Goto(r, "refused")
  /\ UNCHANGED <<intent, of, database, ledger, reconciler, restarts>>

\* A fresh transaction, valid for 30 seconds, simulated in enforcing mode: the
\* simulation sees a used nonce and a sold-out contract; the RPC call may fail.
Rebuild(r) ==
  /\ pc[r] = "rebuild"
  /\ \/ /\ of[r] \notin consumed /\ intent[of[r]].amt <= left
        /\ tx' = [tx EXCEPT ![r] = "built"]
        /\ Goto(r, "insert")
     \/ UNCHANGED tx /\ Goto(r, "refused")
  /\ UNCHANGED <<intent, of, database, consumed, left, reconciler, restarts>>

\* Mutant: the migration dropped the partial unique index.
InsertWithoutIndex(r) ==
  /\ pc[r] = "insert"
  /\ status' = [status EXCEPT ![r] = "pending_payment"]
  /\ Goto(r, "anchor")
  /\ UNCHANGED <<intent, of, offerOpen, distribution, ledger, reconciler, restarts>>

\* Mutant: the row is created after the broadcast's start, not anchored before it.
InsertWithoutAnchor(r) ==
  /\ pc[r] = "insert"
  /\ \A s \in RowsOf(Buyer(r)) : status[s] \notin InFlight
  /\ status' = [status EXCEPT ![r] = "pending_payment"]
  /\ Goto(r, "broadcast")
  /\ UNCHANGED <<intent, of, offerOpen, distribution, ledger, reconciler, restarts>>

\* Investment.create, under the partial unique index over in-flight rows.
Insert(r) ==
  /\ pc[r] = "insert"
  /\ \/ /\ \A s \in RowsOf(Buyer(r)) : status[s] \notin InFlight
        /\ status' = [status EXCEPT ![r] = "pending_payment"]
        /\ Goto(r, "anchor")
     \/ /\ \E s \in RowsOf(Buyer(r)) : status[s] \in InFlight
        /\ Goto(r, "refused")
        /\ UNCHANGED status
  /\ UNCHANGED <<intent, of, offerOpen, distribution, ledger, reconciler, restarts>>

\* The row is trade_submitted, with the inner hash, before anything is sent.
Anchor(r) ==
  /\ pc[r] = "anchor"
  /\ status' = [status EXCEPT ![r] = "trade_submitted"]
  /\ Goto(r, "broadcast")
  /\ UNCHANGED <<intent, of, offerOpen, distribution, ledger, reconciler, restarts>>

\* submitWithSponsorship sends the fee bump, unless it gives up first (fee cap,
\* no connection, the 30 seconds are over).
Broadcast(r) ==
  /\ pc[r] = "broadcast"
  /\ Goto(r, "await")
  /\ \/ tx[r] = "built" /\ tx' = [tx EXCEPT ![r] = "pending"]
     \/ UNCHANGED tx
  /\ UNCHANGED <<intent, of, database, consumed, left, reconciler, restarts>>

\* Mutant: accepted for inclusion is taken for confirmed.
ConfirmOnAccept(r) ==
  /\ pc[r] = "await"
  /\ tx[r] \in {"pending", "success"}
  /\ status' = [status EXCEPT ![r] = "distributed"]
  /\ Goto(r, "record")
  /\ UNCHANGED <<intent, of, offerOpen, distribution, ledger, reconciler, restarts>>

\* Horizon answered that the transaction succeeded.
Confirm(r) ==
  /\ pc[r] = "await"
  /\ tx[r] = "success"
  /\ status' = [status EXCEPT ![r] = "distributed"]
  /\ Goto(r, "record")
  /\ UNCHANGED <<intent, of, offerOpen, distribution, ledger, reconciler, restarts>>

\* submitWithSponsorship threw: a refusal, a failed transaction, but also a
\* timeout or a lost connection, whatever became of the transaction.
SponsorshipFails(r) ==
  /\ pc[r] = "await"
  /\ status' = [status EXCEPT ![r] = "failed"]
  /\ Goto(r, "refused")
  /\ UNCHANGED <<intent, of, offerOpen, distribution, ledger, reconciler, restarts>>

\* The portfolio record; a failure to write it is logged and dropped.
RecordDistribution(r) ==
  /\ pc[r] = "record"
  /\ Goto(r, "done")
  /\ distribution' \in {distribution, distribution \cup {r}}
  /\ UNCHANGED <<intent, of, offerOpen, status, ledger, reconciler, restarts>>

\* A database call of the handler throws: 500, with no compensation.
DatabaseError(r) ==
  /\ pc[r] \in Live
  /\ Goto(r, "dead")
  /\ UNCHANGED <<intent, of, database, ledger, reconciler, restarts>>

-----------------------------------------------------------------------------
(***************************************************************************)
(* The ledger: a pending transaction succeeds, fails or runs out of its 30 *)
(* seconds.  The host uses an auth nonce up only when the call succeeds.   *)
(***************************************************************************)
Land(r) ==
  /\ tx[r] = "pending"
  /\ of[r] \notin consumed /\ intent[of[r]].amt <= left
  /\ tx' = [tx EXCEPT ![r] = "success"]
  /\ consumed' = consumed \cup {of[r]}
  /\ left' = left - intent[of[r]].amt
  /\ UNCHANGED <<intent, handler, database, reconciler, restarts>>

FailOnChain(r) ==
  /\ tx[r] = "pending"
  /\ tx' = [tx EXCEPT ![r] = "failed"]
  /\ UNCHANGED <<intent, handler, database, consumed, left, reconciler, restarts>>

Expire(r) ==
  /\ tx[r] \in {"built", "pending"}
  /\ tx' = [tx EXCEPT ![r] = "expired"]
  /\ UNCHANGED <<intent, handler, database, consumed, left, reconciler, restarts>>

-----------------------------------------------------------------------------
(***************************************************************************)
(* SorobanReconciler.reconcile: a snapshot of the trade_submitted rows,    *)
(* then for each of them a question to the RPC server and an update by id. *)
(***************************************************************************)
Scan ==
  /\ todo = {} /\ current = None
  /\ todo' = {r \in Requests : status[r] = "trade_submitted"}
  /\ todo' # {}
  /\ UNCHANGED <<intent, handler, database, ledger, current, answer, restarts>>

\* Mutant: not found is taken for gone, however young the row.
ImpatientAnswer ==
  [none |-> "GONE", built |-> "GONE", pending |-> "GONE",
   expired |-> "GONE", success |-> "SUCCESS", failed |-> "FAILED"]

\* Mutant: an unknown transaction is never given up.
PatientAnswer ==
  [none |-> "NOT_FOUND", built |-> "NOT_FOUND", pending |-> "NOT_FOUND",
   expired |-> "NOT_FOUND", success |-> "SUCCESS", failed |-> "FAILED"]

\* What getTransaction says of a row's hash.  GONE is NOT_FOUND for a row older
\* than ten minutes; by then the 30 seconds of its transaction are over.
Answer ==
  [none |-> "NOT_FOUND", built |-> "NOT_FOUND", pending |-> "NOT_FOUND",
   expired |-> "GONE", success |-> "SUCCESS", failed |-> "FAILED"]

Query(r) ==
  /\ current = None /\ r \in todo
  /\ current' = r
  /\ answer' = Answer[tx[r]]
  /\ todo' = todo \ {r}
  /\ UNCHANGED <<intent, handler, database, ledger, restarts>>

\* The update names the row by id only, whatever its status is by now.
Resolve ==
  /\ current # None
  /\ \/ answer = "SUCCESS" /\ status' = [status EXCEPT ![current] = "distributed"]
     \/ answer \in {"FAILED", "GONE"} /\ status' = [status EXCEPT ![current] = "failed"]
     \/ answer = "NOT_FOUND" /\ UNCHANGED status
  /\ current' = None /\ answer' = "none"
  /\ UNCHANGED <<intent, handler, offerOpen, distribution, ledger, todo, restarts>>

\* SorobanReconciler.expirePending: pending rows older than 30 minutes.  A handler
\* still running is far younger, so the row's handler is gone.
ExpirePending(r) ==
  /\ status[r] = "pending_payment"
  /\ pc[r] \notin Live
  /\ status' = [status EXCEPT ![r] = "cancelled"]
  /\ UNCHANGED <<intent, handler, offerOpen, distribution, ledger, reconciler, restarts>>

-----------------------------------------------------------------------------
\* The process goes down: handlers and the reconciler's loop are lost.
Restart ==
  /\ restarts < MaxRestarts
  /\ restarts' = restarts + 1
  /\ pc' = [r \in Requests |-> IF pc[r] \in Live THEN "dead" ELSE pc[r]]
  /\ todo' = {} /\ current' = None /\ answer' = "none"
  /\ UNCHANGED <<intent, of, database, ledger>>

\* An admin pauses or resumes the offer.
ToggleOffer ==
  /\ offerOpen' = ~offerOpen
  /\ UNCHANGED <<intent, handler, status, distribution, ledger, reconciler, restarts>>

HandlerStep(r) ==
  \/ DuplicateGuard(r) \/ OfferCheck(r) \/ Rebuild(r) \/ Insert(r) \/ Anchor(r)
  \/ Broadcast(r) \/ Confirm(r) \/ SponsorshipFails(r) \/ RecordDistribution(r)

FlowNext ==
  \/ \E i \in Intents : purchaseInvestment(i)
  \/ \E r \in Requests :
       \/ \E i \in Intents : Submit(r, i)
       \/ HandlerStep(r)
       \/ DatabaseError(r)
       \/ Land(r) \/ FailOnChain(r) \/ Expire(r)
       \/ Query(r)
       \/ ExpirePending(r)
  \/ Scan
  \/ Resolve
  \/ Restart
  \/ ToggleOffer

FlowSpec == FlowInit /\ [][FlowNext]_flowVars

(***************************************************************************)
(* The event loop runs every started handler on, time passes, and the two  *)
(* timers of the reconciler keep firing.  Nothing obliges investors,       *)
(* admins, or the ledger to include a transaction.                         *)
(***************************************************************************)
Fairness ==
  /\ \A r \in Requests :
       /\ WF_flowVars(HandlerStep(r))
       /\ WF_flowVars(Expire(r))
       /\ WF_flowVars(Query(r))
       /\ WF_flowVars(ExpirePending(r))
  /\ WF_flowVars(Scan)
  /\ WF_flowVars(Resolve)

FairSpec == FlowSpec /\ Fairness

-----------------------------------------------------------------------------
(***************************************************************************)
(* Properties                                                              *)
(***************************************************************************)

\* Whatever the interleaving of submissions, an investor has one in-flight row:
\* the guards are two reads before several awaits, the partial index is the rest.
OneInFlight ==
  \A r, s \in Requests :
    /\ r # s
    /\ status[r] \in InFlight /\ status[s] \in InFlight
    => Buyer(r) # Buyer(s)

\* A booked investment is backed by a trade of its own on the ledger: also when
\* the reconciler booked it, from a snapshot the handler has since overtaken.
BookedTradesLanded ==
  \A r \in Requests : status[r] = "distributed" =>
    /\ tx[r] = "success"
    /\ \A s \in Requests \ {r} : status[s] = "distributed" => of[s] # of[r]

\* The crash anchor: whatever reaches the network has a row that is past
\* pending_payment, so neither a crash nor expirePending loses sight of it.
BroadcastIsAnchored ==
  \A r \in Requests : tx[r] \in {"pending", "success", "failed"} =>
    status[r] \in {"trade_submitted", "distributed", "failed"}

\* A request answered with success stays booked, whatever the reconciler decides
\* from an older snapshot or an RPC answer it obtained before the confirmation.
CompletedStaysBooked ==
  \A r \in Requests : pc[r] \in {"record", "done"} => status[r] = "distributed"

\* No row stays in flight: after any crash the investor can buy again.
InFlightIsResolved ==
  \A r \in Requests : status[r] \in InFlight ~> status[r] \notin InFlight

\* The handler's comment "TX failed - mark investment as failed so investor can
\* retry": a failed row has no trade on the ledger.
FailedDidNotLand ==
  \A r \in Requests : status[r] = "failed" => tx[r] # "success"

=============================================================================
