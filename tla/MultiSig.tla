------------------------------ MODULE MultiSig ------------------------------
(***************************************************************************)
(* MultiSigTransactionService and its routes: the queue of transactions    *)
(* that admins sign with their own keys.  A row holds an XDR, the          *)
(* signatures collected so far and a status.  Every request reads the row, *)
(* decides on its copy and writes back by id, without a lock, and fetching *)
(* the XDR for signing replaces it by a fresh one.                         *)
(* The network is external: a transaction lands once, and only with the    *)
(* sequence number its account expects next.                               *)
(***************************************************************************)
EXTENDS Integers, FiniteSets

CONSTANTS
  Rows,          \* ids of multi_sig_transactions
  Signers,       \* requiredSigners
  Threshold,     \* thresholdRequired of each row
  Handlers,      \* requests, and runs of the expiry job, in flight at the same time
  Rebuildable,   \* the rows whose XDR rebuildSorobanXdr can build again
  DevKeys,       \* whether a client posts signedXDR to /submit
  MaxBuilds,     \* bound on the XDRs built for a row
  MaxPosts,      \* bound on the transactions that clients post to a row
  MaxFaults      \* bound on restarts

ASSUME Parameters ==
  /\ Threshold \in [Rows -> Nat \ {0}]
  /\ Rebuildable \subseteq Rows /\ DevKeys \in BOOLEAN
  /\ MaxBuilds \in Nat \ {0} /\ MaxPosts \in Nat /\ MaxFaults \in Nat

VARIABLES
  row,           \* the table: status, XDR and collectedSignatures of each row
  late,          \* the rows whose expiresAt has passed
  req,           \* each request: place, row, signer, the XDR and signatures it read
  seq,           \* the next sequence number of the issuer account
  sent,          \* the transactions handed to the network
  landed,        \* the ones it has executed
  built,         \* the number of the last XDR the queue has built for each row
  faults

network == <<seq, sent, landed>>
vars == <<row, late, req, network, built, faults>>

-----------------------------------------------------------------------------
Waiting == {"pending", "partially_signed"}
Final   == {"executed", "failed", "rejected", "expired"}
Status  == {"none", "ready", "submitted"} \cup Waiting \cup Final

\* A transaction is told apart by the row, the build and the sequence number.  Number 0
\* is one that the queue has not built, which a client signs and posts to the row.
Xdr       == [build : 0..MaxBuilds, seq : Nat]
Signature == [by : Signers, over : Xdr]
Row       == [status : Status, xdr : Xdr, sigs : SUBSET Signature]
Sent      == [row : Rows, xdr : Xdr, sigs : SUBSET Signature, queued : BOOLEAN]

NoXdr  == [build |-> 0, seq |-> 0]
Absent == [status |-> "none", xdr |-> NoXdr, sigs |-> {}]

Fresh  == [status |-> "pending", xdr |-> [build |-> 1, seq |-> seq], sigs |-> {}]

Places  == {"sign", "submit", "send", "await", "awaitSigned", "record", "recordSigned",
           "reject", "expire", "undo"}
Idle    == [at |-> "idle"]
Request == [at : Places, row : Rows, by : SUBSET Signers, xdr : Xdr, sigs : SUBSET Signature]

TypeOK ==
  /\ row \in [Rows -> Row] /\ late \subseteq Rows
  /\ req \in [Handlers -> Request \cup {Idle}]
  /\ seq \in Nat /\ sent \subseteq Sent /\ landed \subseteq (Rows \X Xdr)
  /\ built \in [Rows -> 1..MaxBuilds]
  /\ faults \in 0..MaxFaults

Init ==
  /\ row = [r \in Rows |-> Absent] /\ late = {}
  /\ req = [h \in Handlers |-> Idle]
  /\ seq = 0 /\ sent = {} /\ landed = {}
  /\ built = [r \in Rows |-> 1]
  /\ faults = 0

At(h, place) == req[h].at = place

\* A request begins, or goes on, with nothing but the id of the row.
Go(h, place, r) ==
  req' = [req EXCEPT ![h] = [at |-> place, row |-> r, by |-> {}, xdr |-> NoXdr, sigs |-> {}]]

\* A request keeps what it has read of the row.
Keep(h, place, r, by) ==
  req' = [req EXCEPT ![h] = [at |-> place, row |-> r, by |-> by, xdr |-> row[r].xdr, sigs |-> row[r].sigs]]

Done(h) == req' = [req EXCEPT ![h] = Idle]

SetStatus(r, status) == row' = [row EXCEPT ![r].status = status]

-----------------------------------------------------------------------------
(* The queue *)

Unused == {r \in Rows : row[r].status = "none"}

\* TransactionManager.submit, for an operation that needs approval.
Queue(r) ==
  /\ r \in Unused
  /\ row' = [row EXCEPT ![r] = Fresh]
  /\ UNCHANGED <<late, req, network, built, faults>>

\* GET /:id/xdr: a fresh XDR on the account's present sequence number replaces the
\* old one, whatever the status; the signatures collected so far stay.
Rebuild(r) ==
  /\ row[r].status # "none" /\ r \notin late /\ r \in Rebuildable
  /\ built[r] < MaxBuilds
  /\ built' = [built EXCEPT ![r] = @ + 1]
  /\ row' = [row EXCEPT ![r].xdr = [build |-> built[r] + 1, seq |-> seq]]
  /\ UNCHANGED <<late, req, network, faults>>

\* addSignature up to its write.  The signature has to be over the XDR just read.
Sign(h, r, s) ==
  /\ At(h, "idle")
  /\ row[r].status \in Waiting \cup {"ready"} /\ r \notin late
  /\ \A sig \in row[r].sigs : sig.by # s
  /\ Keep(h, "sign", r, {s})
  /\ UNCHANGED <<row, late, network, built, faults>>

Signed(h) == req[h].sigs \cup [by : req[h].by, over : {req[h].xdr}]

\* Mutant: the threshold counts the signature that is being added twice.
MetEarly(h) == Cardinality(Signed(h)) + 1 >= Threshold[req[h].row]

ThresholdMet(h) == Cardinality(Signed(h)) >= Threshold[req[h].row]

\* The write of addSignature: the whole map and the status, from what was read.
StoreSignature(h) ==
  LET r == req[h].row IN
  /\ At(h, "sign")
  /\ row' = [row EXCEPT ![r].sigs = Signed(h),
                        ![r].status = IF ThresholdMet(h) THEN "ready" ELSE "partially_signed"]
  /\ IF ThresholdMet(h) THEN Go(h, "submit", r) ELSE Done(h)
  /\ UNCHANGED <<late, network, built, faults>>

\* POST /:id/submit without signedXDR.
RequestSubmit(h, r) ==
  /\ At(h, "idle") /\ row[r].status # "none"
  /\ Go(h, "submit", r)
  /\ UNCHANGED <<row, late, network, built, faults>>

\* Mutant: the signatures are not compared with the XDR.
MatchingAlways(r) == r \in Rows

\* Transaction.addSignature of the SDK throws on a signature over another XDR.
Matching(r) == \A sig \in row[r].sigs : sig.over = row[r].xdr

\* submit up to its first write.  A throw leaves the row as it is.
Load(h) ==
  LET r == req[h].row IN
  /\ At(h, "submit")
  /\ \/ row[r].status # "ready" /\ Done(h)
     \/ row[r].status = "ready" /\ r \in late /\ Go(h, "expire", r)
     \/ row[r].status = "ready" /\ r \notin late
        /\ IF Matching(r) THEN Keep(h, "send", r, {}) ELSE Done(h)
  /\ UNCHANGED <<row, late, network, built, faults>>

\* 'submitted' is written over whatever the row is by now, and what was read is sent.
Send(h) ==
  LET r == req[h].row IN
  /\ At(h, "send")
  /\ SetStatus(r, "submitted")
  /\ sent' = sent \cup {[row |-> r, xdr |-> req[h].xdr, sigs |-> req[h].sigs, queued |-> TRUE]}
  /\ req' = [req EXCEPT ![h].at = "await", ![h].sigs = {}]
  /\ UNCHANGED <<late, seq, landed, built, faults>>

\* The transactions that clients have signed and posted to a row themselves.
Posts(r) == {m \in sent : ~m.queued /\ m.row = r}

\* POST /:id/submit with signedXDR: no look at the status nor at the signatures, and
\* whatever is posted is sent: the row's XDR, one it had before, or any other.
SendSigned(h, r, x) ==
  LET m == [row |-> r, xdr |-> x, queued |-> FALSE, sigs |-> [by : Signers, over : {x}]] IN
  /\ DevKeys /\ At(h, "idle") /\ row[r].status # "none"
  /\ m \in sent \/ Cardinality(Posts(r)) < MaxPosts
  /\ req' = [req EXCEPT ![h] = [at |-> "awaitSigned", row |-> r, by |-> {}, xdr |-> x, sigs |-> {}]]
  /\ sent' = sent \cup {m}
  /\ UNCHANGED <<row, late, seq, landed, built, faults>>

Success(h) == <<req[h].row, req[h].xdr>> \in landed

\* The hooks of an offer's transactions queue the next one.
MayQueue == row' \in {row} \cup {[row EXCEPT ![r] = Fresh] : r \in Unused}

\* The network reports success: processEffects runs for the row, whichever transaction
\* it was that was posted to it; what it changes is left open.
Approve(h) ==
  /\ At(h, "await") \/ At(h, "awaitSigned")
  /\ Success(h)
  /\ IF At(h, "await") THEN Go(h, "record", req[h].row)
                       ELSE req' = [req EXCEPT ![h].at = "recordSigned"]
  /\ UNCHANGED <<late, network, built, faults>>

\* What was posted becomes the row's XDR.
StorePosted(r, x) == row' = [row EXCEPT ![r].status = "executed", ![r].xdr = x]

RecordExecuted(h) ==
  /\ \/ At(h, "record") /\ SetStatus(req[h].row, "executed")
     \/ At(h, "recordSigned") /\ StorePosted(req[h].row, req[h].xdr)
  /\ Done(h)
  /\ UNCHANGED <<late, network, built, faults>>

\* A bad sequence number, a failed transaction, or just a timeout.  Only the
\* service's own path goes on to the rejection effects.
RecordFailed(h) ==
  /\ \/ At(h, "await") /\ Go(h, "undo", req[h].row)
     \/ At(h, "awaitSigned") /\ Done(h)
  /\ SetStatus(req[h].row, "failed")
  /\ UNCHANGED <<late, network, built, faults>>

\* POST /:id/reject.
ReadToReject(h, r) ==
  /\ At(h, "idle") /\ row[r].status \notin {"none", "executed", "submitted"}
  /\ Go(h, "reject", r)
  /\ UNCHANGED <<row, late, network, built, faults>>

Reject(h) ==
  /\ At(h, "reject")
  /\ SetStatus(req[h].row, "rejected")
  /\ Go(h, "undo", req[h].row)
  /\ UNCHANGED <<late, network, built, faults>>

\* Mutant: the expiry job overlooks rows with a signature.
FindPending(h, r) ==
  /\ At(h, "idle") /\ row[r].status = "pending" /\ r \in late
  /\ Go(h, "expire", r)
  /\ UNCHANGED <<row, late, network, built, faults>>

\* expireOldTransactions: the candidates are read first.
FindExpired(h, r) ==
  /\ At(h, "idle") /\ row[r].status \in Waiting /\ r \in late
  /\ Go(h, "expire", r)
  /\ UNCHANGED <<row, late, network, built, faults>>

\* The update names the ids and not the status; markExpired does the same.
Expire(h) ==
  /\ At(h, "expire")
  /\ SetStatus(req[h].row, "expired")
  /\ Go(h, "undo", req[h].row)
  /\ UNCHANGED <<late, network, built, faults>>

\* processRejectionEffects; what it changes is left open.
Undo(h) ==
  /\ At(h, "undo")
  /\ Done(h)
  /\ UNCHANGED <<late, network, built, faults>>

-----------------------------------------------------------------------------
(* Around the queue *)

\* 72 hours pass.
Lapse(r) ==
  /\ row[r].status # "none" /\ r \notin late
  /\ late' = late \cup {r}
  /\ UNCHANGED <<row, req, network, built, faults>>

\* The network executes a transaction whose turn it is.
Land(m) ==
  /\ m \in sent /\ m.xdr.seq = seq
  /\ landed' = landed \cup {<<m.row, m.xdr>>} /\ seq' = seq + 1
  /\ UNCHANGED <<row, late, req, sent, built, faults>>

\* The network includes it and it fails: the sequence number is used up.
Bounce(m) ==
  /\ m \in sent /\ m.xdr.seq = seq
  /\ seq' = seq + 1
  /\ UNCHANGED <<row, late, req, sent, landed, built, faults>>

\* The process restarts: its requests are gone.
Restart ==
  /\ faults < MaxFaults /\ faults' = faults + 1
  /\ \E h \in Handlers : ~At(h, "idle")
  /\ req' = [h \in Handlers |-> Idle]
  /\ UNCHANGED <<row, late, network, built>>

Step(h) ==
  \/ StoreSignature(h) \/ Load(h) \/ Send(h)
  \/ Approve(h) /\ MayQueue
  \/ RecordExecuted(h) \/ RecordFailed(h) \/ Reject(h) \/ Expire(h)
  \/ Undo(h) /\ UNCHANGED row

Next ==
  \/ \E r \in Rows : Queue(r) \/ Rebuild(r) \/ Lapse(r)
  \/ \E h \in Handlers, r \in Rows :
       \/ \E s \in Signers : Sign(h, r, s)
       \/ RequestSubmit(h, r)
       \/ \E x \in [build : 0..built[r], seq : 0..seq] : SendSigned(h, r, x)
       \/ ReadToReject(h, r) \/ FindExpired(h, r)
  \/ \E h \in Handlers : Step(h)
  \/ \E m \in sent : Land(m) \/ Bounce(m)
  \/ Restart

Spec == Init /\ [][Next]_vars

(***************************************************************************)
(* The event loop runs every request on, time passes and the daily job     *)
(* finds its rows, however many requests there are (SF, since the job does *)
(* not wait for one of our few handlers).  Nothing is assumed of admins or *)
(* of the network.                                                         *)
(***************************************************************************)
Fairness ==
  /\ \A h \in Handlers : WF_vars(Step(h))
  /\ \A r \in Rows : WF_vars(Lapse(r)) /\ SF_vars(\E h \in Handlers : FindExpired(h, r))

FairSpec == Spec /\ Fairness

-----------------------------------------------------------------------------
(***************************************************************************)
(* Properties                                                              *)
(***************************************************************************)

\* What the queue sends carries a threshold of signatures over that very transaction,
\* though signatures are collected from stale copies and the XDR is replaced meanwhile.
SentWasApproved ==
  \A m \in sent : m.queued =>
    Cardinality({s \in Signers : [by |-> s, over |-> m.xdr] \in m.sigs}) >= Threshold[m.row]

\* A row approved in the queue executes at most once, though it can be submitted twice
\* and rebuilt on a new sequence number after it has executed.  A client that posts an XDR
\* to the row takes it back to that XDR, whose signatures may be complete: then all is open.
ExecutedOnce ==
  \A m, n \in sent :
    /\ m.queued /\ n.queued /\ m.row = n.row /\ Posts(m.row) = {}
    /\ {<<m.row, m.xdr>>, <<n.row, n.xdr>>} \subseteq landed
    => m.xdr = n.xdr

\* The process died before the outcome was written: no request is past its first read.
Abandoned(r) ==
  /\ row[r].status \in {"ready", "submitted"}
  /\ \A h \in Handlers : At(h, "idle") \/ At(h, "submit") \/ req[h].row # r

\* Every queued row comes to an end, unless its signatures are over different XDRs
\* (the SDK then refuses it for ever) or the process died while it was submitted.
RowsEnd ==
  \A r \in Rows :
    row[r].status # "none"
      ~> \/ row[r].status \in Final
         \/ row[r].status = "ready" /\ ~Matching(r)
         \/ faults > 0 /\ Abandoned(r)

=============================================================================
