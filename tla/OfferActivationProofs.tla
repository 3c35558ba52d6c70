------------------------ MODULE OfferActivationProofs ------------------------
(***************************************************************************)
(* Proofs about OfferActivation, for any number of requests, launches,     *)
(* rows, rebuilds and disturbances.  A hook only runs for a transaction    *)
(* the network has executed (Executed), and the last transaction of the    *)
(* pipeline only exists once everything before it is on chain (Prepared):  *)
(* so the offer's status and its progress never run ahead of the chain.    *)
(* Below the pipeline runs the queue of MultiSig, which it implements, so  *)
(* that what MultiSigProofs shows of every queue holds of this one.        *)
(***************************************************************************)
EXTENDS OfferActivation, TLAPS

Queued(r) == row[r].status # "none"

\* Only rows that have been queued are worked on and sent.
Present ==
  /\ \A h \in Handlers : req[h].at # "idle" => Queued(req[h].row)
  /\ \A m \in sent : Queued(m.row)

\* What an executed transaction has left on chain.
Happened(op) ==
  /\ op = "sac_deploy" => chain.sac
  /\ op = "sale_deploy" => chain.deployed
  /\ op = "sale_create" => chain.created
  /\ op = "contract_deposit_transfer" => chain.deposits > 0
  /\ op = "contract_resume" => chain.live

Executed ==
  /\ \A x \in landed : Happened(x[1][1])
  /\ chain.created => chain.deployed

Ready == chain.created /\ chain.deposits > 0

\* The sale is only to be resumed when it was created and given its tokens.
Prepared == \A r \in Rows : r[1] = "contract_resume" /\ Queued(r) => Ready

IInv == TypeOK /\ Present /\ Executed /\ Prepared /\ ActiveInOrder /\ InitNotAhead

-----------------------------------------------------------------------------
\* What every step does to the rows, the requests and what is sent.
RowsOk ==
  /\ row' \in [Rows -> Q!Row]
  /\ \A r \in Rows : Queued(r) => row'[r].status # "none"
  /\ \A r \in Rows : r[1] = "contract_resume" /\ row'[r].status # "none" => Queued(r) \/ Ready

ReqOk ==
  /\ req' \in [Handlers -> Q!Request \cup {Q!Idle}]
  /\ \A h \in Handlers : req'[h].at # "idle" => Queued(req'[h].row)

SentOk == sent' \subseteq Q!Sent /\ \A m \in sent' : Queued(m.row)

LEMMA BusyFacts ==
  ASSUME TypeOK, NEW h \in Handlers, req[h].at # "idle"
  PROVE  /\ req[h] \in Q!Request
         /\ req[h].row \in Rows /\ req[h].xdr \in Q!Xdr
         /\ req[h].sigs \subseteq Q!Signature /\ req[h].by \subseteq {Issuer}
<1>1. req[h] \in Q!Request
  BY DEF TypeOK, Q!TypeOK, Q!Idle
<1>2. QED
  BY <1>1 DEF Q!Request

LEMMA RowFacts ==
  ASSUME TypeOK, NEW r \in Rows
  PROVE  /\ row[r] \in Q!Row
         /\ row[r].xdr \in Q!Xdr /\ row[r].sigs \subseteq Q!Signature
<1>1. row[r] \in Q!Row
  BY DEF TypeOK, Q!TypeOK
<1>2. QED
  BY <1>1 DEF Q!Row

\* A request moves on with a row that has been queued, or it ends.
LEMMA MoveFacts ==
  ASSUME TypeOK, Present, NEW h \in Handlers, NEW j,
         j = Q!Idle \/ (j \in Q!Request /\ Queued(j.row)),
         req' = [req EXCEPT ![h] = j]
  PROVE  ReqOk
<1>1. req' \in [Handlers -> Q!Request \cup {Q!Idle}]
  BY DEF TypeOK, Q!TypeOK
<1>2. req'[h] = j /\ \A g \in Handlers : g # h => req'[g] = req[g]
  BY DEF TypeOK, Q!TypeOK
<1>3. Q!Idle.at = "idle"
  BY DEF Q!Idle
<1>4. QED
  BY <1>1, <1>2, <1>3 DEF ReqOk, Present

LEMMA DoneFacts ==
  ASSUME TypeOK, Present, NEW h \in Handlers, Q!Done(h)
  PROVE  ReqOk
  BY MoveFacts DEF Q!Done

LEMMA GoFacts ==
  ASSUME TypeOK, Present, NEW h \in Handlers, NEW place \in Q!Places, NEW r \in Rows, Queued(r),
         Q!Go(h, place, r)
  PROVE  ReqOk
<1> DEFINE j == [at |-> place, row |-> r, by |-> {}, xdr |-> Q!NoXdr, sigs |-> {}]
<1>1. j \in Q!Request /\ j.row = r
  BY Bounds DEF Q!Request, Q!NoXdr, Q!Xdr
<1>2. req' = [req EXCEPT ![h] = j]
  BY DEF Q!Go
<1> HIDE DEF j
<1>3. QED
  BY <1>1, <1>2, MoveFacts

LEMMA KeepFacts ==
  ASSUME TypeOK, Present, NEW h \in Handlers, NEW place \in Q!Places, NEW r \in Rows, Queued(r),
         NEW by \in SUBSET {Issuer}, Q!Keep(h, place, r, by)
  PROVE  ReqOk
<1> DEFINE j == [at |-> place, row |-> r, by |-> by, xdr |-> row[r].xdr, sigs |-> row[r].sigs]
<1>1. j \in Q!Request /\ j.row = r
  BY RowFacts DEF Q!Request
<1>2. req' = [req EXCEPT ![h] = j]
  BY DEF Q!Keep
<1> HIDE DEF j
<1>3. QED
  BY <1>1, <1>2, MoveFacts

LEMMA StatusFacts ==
  ASSUME TypeOK, NEW r \in Rows, Queued(r),
         NEW s \in {"submitted", "executed", "failed", "rejected", "expired"}, Q!SetStatus(r, s)
  PROVE  RowsOk
<1>1. row'[r] = [row[r] EXCEPT !.status = s] /\ \A n \in Rows : n # r => row'[n] = row[n]
  BY DEF TypeOK, Q!TypeOK, Q!SetStatus
<1>2. row'[r] \in Q!Row /\ row'[r].status = s
  BY <1>1, RowFacts DEF Q!Row, Q!Status, Q!Final
<1>3. row' \in [Rows -> Q!Row]
  BY <1>1, <1>2 DEF TypeOK, Q!TypeOK, Q!SetStatus
<1>4. QED
  BY <1>1, <1>2, <1>3 DEF RowsOk, Queued

\* A new transaction in the queue; the last one of the pipeline needs the ones before it.
LEMMA EnqueueFacts ==
  ASSUME TypeOK, NEW op \in Operations, op = "contract_resume" => Ready, Enqueue(op)
  PROVE  RowsOk
<1> DEFINE k == CHOOSE i \in Free(op) : TRUE
<1>1. k \in 1..Slots
  BY DEF Enqueue, Free
<1>2. row' = [row EXCEPT ![<<op, k>>] = Q!Fresh]
  BY DEF Enqueue
<1> HIDE DEF k
<1> DEFINE r == <<op, k>>
<1>3. r \in Rows /\ r[1] = op
  BY <1>1 DEF Rows
<1>4. Q!Fresh \in Q!Row /\ Q!Fresh.status = "pending"
  BY Bounds DEF TypeOK, Q!TypeOK, Q!Fresh, Q!Row, Q!Xdr, Q!Status, Q!Waiting
<1> HIDE DEF r
<1>5. row' \in [Rows -> Q!Row] /\ row'[r] = Q!Fresh /\ \A n \in Rows : n # r => row'[n] = row[n]
  BY <1>2, <1>3, <1>4 DEF TypeOK, Q!TypeOK, r
<1>6. QED
  BY <1>3, <1>4, <1>5 DEF RowsOk, Queued

LEMMA Same ==
  ASSUME TypeOK, Present
  PROVE  /\ UNCHANGED row => RowsOk
         /\ UNCHANGED req => ReqOk
         /\ UNCHANGED sent => SentOk
  BY DEF TypeOK, Q!TypeOK, Present, RowsOk, ReqOk, SentOk, Queued

-----------------------------------------------------------------------------
\* The rest of the queue's variables, and the offer's.
QueueOk ==
  /\ late' \subseteq Rows /\ built' \in [Rows -> 1..MaxBuilds] /\ faults' \in 0..MaxFaults
  /\ seq' \in Nat /\ landed' \subseteq (Rows \X Q!Xdr)

OfferOk ==
  /\ status' \in {"pending", "approved", "rejected", "active"}
  /\ init' \in {"none", "deploying", "deployed", "created", "failed"}
  /\ token' \in {"none", "issued", "sac"}
  /\ act' \in [Runs -> {"none", "issue", "sac", "begin", "deploy", "queue", "create"}]
  /\ trouble' \in 0..MaxTrouble

LEMMA Assemble ==
  ASSUME IInv, RowsOk, ReqOk, SentOk, QueueOk, OfferOk, ActiveInOrder', InitNotAhead',
         UNCHANGED <<landed, chain>>
  PROVE  IInv'
<1>1. TypeOK'
  BY DEF IInv, TypeOK, Q!TypeOK, RowsOk, ReqOk, SentOk, QueueOk, OfferOk
<1>2. /\ \A h \in Handlers : req'[h].at # "idle" => req'[h].row \in Rows
      /\ \A m \in sent' : m.row \in Rows
  BY DEF ReqOk, SentOk, Q!Request, Q!Idle, Q!Sent
<1>3. Present'
  BY <1>2 DEF Present, RowsOk, ReqOk, SentOk, Queued
<1>4. Executed' /\ Prepared'
  BY DEF IInv, Executed, Happened, Prepared, Ready, RowsOk, Queued
<1>5. QED
  BY <1>1, <1>3, <1>4 DEF IInv

\* A disturbance is one of a bounded number.
LEMMA TroubleFacts ==
  ASSUME TypeOK, Trouble \/ Smooth
  PROVE  trouble' \in 0..MaxTrouble
<1>1. trouble \in 0..MaxTrouble /\ MaxTrouble \in Nat
  BY Bounds DEF TypeOK
<1>2. CASE Trouble
  BY <1>1, <1>2 DEF Trouble
<1>3. CASE Smooth
  BY <1>1, <1>3 DEF Smooth
<1>4. QED
  BY <1>2, <1>3

Acts == {"none", "issue", "sac", "begin", "deploy", "queue", "create"}

LEMMA ActFacts ==
  ASSUME TypeOK, NEW p \in Runs, NEW place \in Acts, Goto(p, place)
  PROVE  act' \in [Runs -> Acts]
  BY DEF TypeOK, Goto, Acts

\* Review, issue, activation and retry leave the queue alone or add one transaction to it,
\* never the last one; progress is only taken from the chain.
LEMMA LaunchStep ==
  ASSUME IInv, NEW p \in Runs,
         \/ \E decision \in {"approved", "rejected"} : Review(p, decision)
         \/ RequestIssue(p) \/ RequestActivation(p) \/ Retry(p)
         \/ Issue(p) \/ QueueSac(p) \/ Begin(p) \/ Deploy(p) \/ QueueDeploy(p) \/ QueueCreate(p)
         \/ Throw(p)
  PROVE  IInv'
<1>1. TypeOK /\ Present /\ UNCHANGED <<late, req, seq, sent, landed, built, faults, chain>>
  BY DEF IInv, Review, RequestIssue, RequestActivation, Retry, Issue, QueueSac, Begin, Deploy,
         QueueDeploy, QueueCreate, Throw, KeepQueue, queue, offer
<1>2. ReqOk /\ SentOk
  BY <1>1, Same
<1>3. QueueOk
  BY <1>1 DEF QueueOk, TypeOK, Q!TypeOK
<1>4. UNCHANGED row => RowsOk
  BY <1>1, Same
<1>5. ASSUME NEW decision \in {"approved", "rejected"}, Review(p, decision)
      PROVE  IInv'
  <2>1. RowsOk
    BY <1>4, <1>5 DEF Review, queue
  <2>2. Trouble \/ Smooth
    BY <1>5 DEF Review
  <2>3. \E place \in Acts : Goto(p, place)
    BY <1>5 DEF Review, Acts
  <2>4. OfferOk
    BY <1>1, <1>5, <2>2, <2>3, TroubleFacts, ActFacts DEF OfferOk, Review, TypeOK, Acts
  <2>5. ActiveInOrder' /\ InitNotAhead'
    BY <1>1, <1>5 DEF IInv, Review, ActiveInOrder, InitNotAhead
  <2>6. QED
    BY <1>1, <1>2, <1>3, <2>1, <2>4, <2>5, Assemble
<1>6. CASE RequestIssue(p) \/ RequestActivation(p) \/ Retry(p) \/ Begin(p) \/ Throw(p)
  <2>1. RowsOk /\ UNCHANGED offer
    BY <1>4, <1>6 DEF RequestIssue, RequestActivation, Retry, Begin, Throw, queue
  <2>2. Trouble \/ Smooth
    BY <1>6 DEF RequestIssue, RequestActivation, Retry, Begin, Throw, Smooth
  <2>3. \E place \in Acts : Goto(p, place)
    BY <1>6 DEF RequestIssue, RequestActivation, Retry, Begin, Throw, Acts
  <2>4. OfferOk
    BY <1>1, <2>1, <2>2, <2>3, TroubleFacts, ActFacts DEF OfferOk, offer, TypeOK, Acts
  <2>5. ActiveInOrder' /\ InitNotAhead'
    BY <1>1, <2>1 DEF IInv, offer, ActiveInOrder, InitNotAhead
  <2>6. QED
    BY <1>1, <1>2, <1>3, <2>1, <2>4, <2>5, Assemble
<1>7. CASE QueueSac(p) \/ QueueDeploy(p) \/ QueueCreate(p)
  <2>1. UNCHANGED offer /\ UNCHANGED trouble
    BY <1>7 DEF QueueSac, QueueDeploy, QueueCreate
  <2>2. \/ UNCHANGED row
        \/ \E op \in {"sac_deploy", "sale_deploy", "sale_create"} : Enqueue(op)
    BY <1>7 DEF QueueSac, QueueDeploy, QueueCreate
  <2>3. RowsOk
    <3>1. ASSUME NEW op \in {"sac_deploy", "sale_deploy", "sale_create"}, Enqueue(op)
          PROVE  RowsOk
      <4>1. op \in Operations /\ op # "contract_resume"
        BY DEF Operations
      <4>2. QED
        BY <1>1, <3>1, <4>1, EnqueueFacts
    <3>2. QED
      BY <1>4, <2>2, <3>1
  <2>4. Goto(p, "none") /\ "none" \in Acts
    BY <1>7 DEF QueueSac, QueueDeploy, QueueCreate, Acts
  <2>5. OfferOk
    BY <1>1, <2>1, <2>4, ActFacts DEF OfferOk, offer, TypeOK, Acts
  <2>6. ActiveInOrder' /\ InitNotAhead'
    BY <1>1, <2>1 DEF IInv, offer, ActiveInOrder, InitNotAhead
  <2>7. QED
    BY <1>1, <1>2, <1>3, <2>3, <2>5, <2>6, Assemble
<1>8. CASE Issue(p) \/ Deploy(p)
  <2>1. RowsOk /\ UNCHANGED <<trouble, status>>
    BY <1>4, <1>8 DEF Issue, Deploy, queue
  <2>2. \E place \in Acts : Goto(p, place)
    BY <1>8 DEF Issue, Deploy, Acts
  <2>3. \/ token' \in {token, "issued"} /\ init' = init
        \/ token' = token /\ init' = IF chain.deployed THEN "deployed" ELSE "deploying"
    BY <1>8 DEF Issue, Deploy
  <2>4. OfferOk
    BY <1>1, <2>1, <2>2, <2>3, ActFacts DEF OfferOk, TypeOK, Acts
  <2>5. ActiveInOrder' /\ InitNotAhead'
    BY <1>1, <2>1, <2>3 DEF IInv, ActiveInOrder, InitNotAhead
  <2>6. QED
    BY <1>1, <1>2, <1>3, <2>1, <2>4, <2>5, Assemble
<1>9. QED
  BY <1>5, <1>6, <1>7, <1>8

-----------------------------------------------------------------------------
\* The queue's own writes.
LEMMA StoreFacts ==
  ASSUME TypeOK, Present, NEW h \in Handlers, Q!StoreSignature(h)
  PROVE  RowsOk /\ ReqOk
<1> DEFINE r == req[h].row
           sigs == Q!Signed(h)
           new == IF Q!ThresholdMet(h) THEN "ready" ELSE "partially_signed"
<1>1. req[h].at # "idle" /\ r \in Rows /\ Queued(r)
  BY BusyFacts DEF Q!StoreSignature, Q!At, Present
<1>2. sigs \subseteq Q!Signature
  BY <1>1, BusyFacts DEF Q!Signed, Q!Signature
<1>3. new \in Q!Status /\ new # "none"
  BY DEF Q!Status, Q!Waiting
<1>4. row' = [row EXCEPT ![r].sigs = sigs, ![r].status = new]
  BY DEF Q!StoreSignature
<1>5. "submit" \in Q!Places /\ (Q!Done(h) \/ Q!Go(h, "submit", r))
  BY DEF Q!StoreSignature, Q!Places
<1>6. ReqOk
  BY <1>1, <1>5, DoneFacts, GoFacts
<1> HIDE DEF sigs, new, r
<1>7. row'[r] = [row[r] EXCEPT !.sigs = sigs, !.status = new] /\ \A n \in Rows : n # r => row'[n] = row[n]
  BY <1>1, <1>4 DEF TypeOK, Q!TypeOK
<1>8. row'[r] \in Q!Row /\ row'[r].status = new
  BY <1>1, <1>2, <1>3, <1>7, RowFacts DEF Q!Row
<1>9. row' \in [Rows -> Q!Row]
  BY <1>1, <1>4, <1>8 DEF TypeOK, Q!TypeOK
<1>10. RowsOk
  BY <1>1, <1>3, <1>7, <1>8, <1>9 DEF RowsOk, Queued
<1>11. QED
  BY <1>6, <1>10

LEMMA RebuildFacts ==
  ASSUME TypeOK, NEW r \in Rows, Q!Rebuild(r)
  PROVE  RowsOk
<1> DEFINE x == [build |-> built[r] + 1, seq |-> seq]
<1>1. built[r] \in 1..MaxBuilds /\ built[r] < MaxBuilds /\ seq \in Nat
  BY DEF TypeOK, Q!TypeOK, Q!Rebuild
<1>2. x \in Q!Xdr
  BY <1>1, Bounds DEF Q!Xdr
<1>3. row' = [row EXCEPT ![r].xdr = x]
  BY DEF Q!Rebuild
<1> HIDE DEF x
<1>4. row'[r] = [row[r] EXCEPT !.xdr = x] /\ \A n \in Rows : n # r => row'[n] = row[n]
  BY <1>3 DEF TypeOK, Q!TypeOK
<1>5. row'[r] \in Q!Row /\ row'[r].status = row[r].status
  BY <1>2, <1>4, RowFacts DEF Q!Row
<1>6. row' \in [Rows -> Q!Row]
  BY <1>3, <1>5 DEF TypeOK, Q!TypeOK
<1>7. QED
  BY <1>4, <1>5, <1>6 DEF RowsOk, Queued

LEMMA LoadFacts ==
  ASSUME TypeOK, Present, NEW h \in Handlers, Q!Load(h)
  PROVE  ReqOk
<1> DEFINE r == req[h].row
<1>1. r \in Rows /\ Queued(r)
  BY BusyFacts DEF Q!Load, Q!At, Present
<1>2. Q!Done(h) \/ Q!Go(h, "expire", r) \/ Q!Keep(h, "send", r, {})
  BY DEF Q!Load
<1>3. {"expire", "send"} \subseteq Q!Places /\ {} \in SUBSET {Issuer}
  BY DEF Q!Places
<1> HIDE DEF r
<1>4. CASE Q!Done(h)
  BY <1>4, DoneFacts
<1>5. CASE Q!Go(h, "expire", r)
  BY <1>1, <1>3, <1>5, GoFacts
<1>6. CASE Q!Keep(h, "send", r, {})
  BY <1>1, <1>3, <1>6, KeepFacts
<1>7. QED
  BY <1>2, <1>4, <1>5, <1>6

LEMMA SendFacts ==
  ASSUME TypeOK, Present, NEW h \in Handlers, Q!Send(h)
  PROVE  RowsOk /\ ReqOk /\ SentOk
<1>1. req[h] \in Q!Request /\ req[h].row \in Rows /\ Queued(req[h].row)
  BY BusyFacts DEF Q!Send, Q!At, Present
<1>2. RowsOk
  BY <1>1, StatusFacts DEF Q!Send
<1> DEFINE j == [req[h] EXCEPT !.at = "await", !.sigs = {}]
           m == [row |-> req[h].row, xdr |-> req[h].xdr, sigs |-> req[h].sigs, queued |-> TRUE]
<1>3. j \in Q!Request /\ j.row = req[h].row
  BY <1>1 DEF Q!Request, Q!Places
<1>4. req' = [req EXCEPT ![h] = j]
  BY DEF Q!Send, TypeOK, Q!TypeOK
<1>5. m \in Q!Sent /\ m.row = req[h].row
  BY <1>1 DEF Q!Request, Q!Sent
<1>6. sent' = sent \cup {m}
  BY DEF Q!Send
<1> HIDE DEF j, m
<1>7. ReqOk
  BY <1>1, <1>3, <1>4, MoveFacts
<1>8. SentOk
  BY <1>1, <1>5, <1>6 DEF SentOk, TypeOK, Q!TypeOK, Present
<1>9. QED
  BY <1>2, <1>7, <1>8

LEMMA EndFacts ==
  ASSUME TypeOK, Present, NEW h \in Handlers,
         Q!RecordExecuted(h) \/ Q!RecordFailed(h) \/ Q!Reject(h) \/ Q!Expire(h)
  PROVE  RowsOk /\ ReqOk
<1> DEFINE r == req[h].row
<1>1. r \in Rows /\ Queued(r)
  BY BusyFacts DEF Q!RecordExecuted, Q!RecordFailed, Q!Reject, Q!Expire, Q!At, Present
<1>2. \/ \E s \in {"executed", "failed", "rejected", "expired"} : Q!SetStatus(r, s)
      \/ row' = [row EXCEPT ![r].status = "executed", ![r].xdr = req[h].xdr]
  BY DEF Q!RecordExecuted, Q!StorePosted, Q!RecordFailed, Q!Reject, Q!Expire
<1>3. Q!Done(h) \/ Q!Go(h, "undo", r)
  BY DEF Q!RecordExecuted, Q!RecordFailed, Q!Reject, Q!Expire
<1>4. "undo" \in Q!Places
  BY DEF Q!Places
<1>0. req[h].xdr \in Q!Xdr
  BY BusyFacts DEF Q!RecordExecuted, Q!RecordFailed, Q!Reject, Q!Expire, Q!At, Q!Request
<1> HIDE DEF r
<1>5. RowsOk
  <2>1. CASE row' = [row EXCEPT ![r].status = "executed", ![r].xdr = req[h].xdr]
    <3>1. row'[r] = [row[r] EXCEPT !.status = "executed", !.xdr = req[h].xdr]
          /\ \A n \in Rows : n # r => row'[n] = row[n]
      BY <1>1, <2>1 DEF TypeOK, Q!TypeOK
    <3>2. row'[r] \in Q!Row /\ row'[r].status = "executed"
      BY <1>0, <1>1, <3>1, RowFacts DEF Q!Row, Q!Status, Q!Final
    <3>3. row' \in [Rows -> Q!Row]
      BY <1>1, <2>1, <3>2 DEF TypeOK, Q!TypeOK
    <3>4. QED
      BY <1>1, <3>1, <3>2, <3>3 DEF RowsOk, Queued
  <2>2. QED
    BY <1>1, <1>2, <2>1, StatusFacts
<1>6. ReqOk
  BY <1>1, <1>3, <1>4, DoneFacts, GoFacts
<1>7. QED
  BY <1>5, <1>6

LEMMA AskFacts ==
  ASSUME TypeOK, Present, NEW h \in Handlers, NEW r \in Rows,
         Q!Sign(h, r, Issuer) \/ Q!RequestSubmit(h, r) \/ Q!FindExpired(h, r) \/ Q!ReadToReject(h, r)
  PROVE  ReqOk
<1>1. Queued(r)
  BY DEF Q!Sign, Q!RequestSubmit, Q!FindExpired, Q!ReadToReject, Q!Waiting, Queued
<1>2. {"sign", "submit", "expire", "reject"} \subseteq Q!Places /\ {Issuer} \in SUBSET {Issuer}
  BY DEF Q!Places
<1>3. CASE Q!Sign(h, r, Issuer)
  BY <1>1, <1>2, <1>3, KeepFacts DEF Q!Sign
<1>4. CASE Q!RequestSubmit(h, r) \/ Q!FindExpired(h, r) \/ Q!ReadToReject(h, r)
  BY <1>1, <1>2, <1>4, GoFacts DEF Q!RequestSubmit, Q!FindExpired, Q!ReadToReject
<1>5. QED
  BY <1>3, <1>4

-----------------------------------------------------------------------------
\* Steps of the queue that know nothing of the offer, and the two that do without a hook.
LEMMA QueueStep ==
  ASSUME IInv, NEW h \in Handlers,
         RecordExecuted(h) \/ Fail(h) \/ Serve(h) \/ \E r \in Rows : Ask(h, r)
  PROVE  IInv'
<1>1. TypeOK /\ Present
  BY DEF IInv
<1>2. UNCHANGED <<offer, act, chain, late, seq, landed, built, faults>>
  BY DEF RecordExecuted, Fail, Serve, Ask, Q!RecordExecuted, Q!RecordFailed, Q!StoreSignature, Q!Load,
         Q!Send, Q!Reject, Q!Expire, Q!Sign, Q!RequestSubmit, Q!FindExpired, Q!ReadToReject, Q!network
<1>3. Trouble \/ Smooth
  BY DEF RecordExecuted, Fail, Serve, Ask, Smooth
<1>4. RowsOk /\ ReqOk /\ SentOk
  <2>1. CASE Q!RecordExecuted(h) \/ Q!RecordFailed(h) \/ Q!Reject(h) \/ Q!Expire(h)
    <3>1. UNCHANGED sent
      BY <2>1 DEF Q!RecordExecuted, Q!RecordFailed, Q!Reject, Q!Expire, Q!network
    <3>2. QED
      BY <1>1, <2>1, <3>1, EndFacts, Same
  <2>2. CASE Q!StoreSignature(h)
    <3>1. UNCHANGED sent
      BY <2>2 DEF Q!StoreSignature, Q!network
    <3>2. QED
      BY <1>1, <2>2, <3>1, StoreFacts, Same
  <2>3. CASE Q!Load(h)
    <3>1. UNCHANGED <<row, sent>>
      BY <2>3 DEF Q!Load, Q!network
    <3>2. QED
      BY <1>1, <2>3, <3>1, LoadFacts, Same
  <2>4. CASE Q!Send(h)
    BY <1>1, <2>4, SendFacts
  <2>5. ASSUME NEW r \in Rows, Ask(h, r)
        PROVE  RowsOk /\ ReqOk /\ SentOk
    <3>1. UNCHANGED <<row, sent>>
      BY <2>5 DEF Ask, Q!Sign, Q!RequestSubmit, Q!FindExpired, Q!ReadToReject, Q!network
    <3>2. ReqOk
      BY <1>1, <2>5, AskFacts DEF Ask
    <3>3. QED
      BY <1>1, <3>1, <3>2, Same
  <2>6. QED
    BY <2>1, <2>2, <2>3, <2>4, <2>5 DEF RecordExecuted, Fail, Serve
<1>5. QueueOk
  BY <1>1, <1>2 DEF QueueOk, TypeOK, Q!TypeOK
<1>6. OfferOk
  BY <1>1, <1>2, <1>3, TroubleFacts DEF OfferOk, TypeOK, offer
<1>7. ActiveInOrder' /\ InitNotAhead'
  BY <1>2 DEF IInv, offer, ActiveInOrder, InitNotAhead
<1>8. QED
  BY <1>2, <1>4, <1>5, <1>6, <1>7, Assemble

\* Fetching, time and restarts.
LEMMA AroundStep ==
  ASSUME IInv, (\E r \in Rows : Fetch(r) \/ Lapse(r)) \/ Restart
  PROVE  IInv'
<1>1. TypeOK /\ Present
  BY DEF IInv
<1>2. UNCHANGED <<offer, chain, seq, sent, landed>>
  BY DEF Fetch, Lapse, Restart, Q!Rebuild, Q!Lapse, Q!Restart, Q!network
<1>20. built' \in [Rows -> 1..MaxBuilds]
  <2>1. built \in [Rows -> 1..MaxBuilds] /\ MaxBuilds \in Nat
    BY <1>1, Bounds DEF TypeOK, Q!TypeOK
  <2>2. ASSUME NEW r \in Rows, Fetch(r)
        PROVE  built' \in [Rows -> 1..MaxBuilds]
    BY <2>1, <2>2 DEF Fetch, Q!Rebuild
  <2>3. QED
    BY <2>1, <2>2 DEF Lapse, Restart, Q!Lapse, Q!Restart
<1>3. Trouble \/ Smooth
  BY DEF Fetch, Lapse, Restart, Smooth
<1>4. RowsOk
  <2>1. ASSUME NEW r \in Rows, Fetch(r)
        PROVE  RowsOk
    BY <1>1, <2>1, RebuildFacts DEF Fetch
  <2>2. CASE UNCHANGED row
    BY <1>1, <2>2, Same
  <2>3. QED
    BY <2>1, <2>2 DEF Lapse, Restart, Q!Lapse, Q!Restart
<1>5. ReqOk /\ act' \in [Runs -> Acts]
  <2>1. CASE UNCHANGED <<req, act>>
    BY <1>1, <2>1, Same DEF TypeOK, Acts
  <2>2. CASE Restart
    <3>1. req' = [g \in Handlers |-> Q!Idle] /\ act' = [p \in Runs |-> "none"]
      BY <2>2 DEF Restart, Q!Restart
    <3>2. QED
      BY <3>1 DEF ReqOk, Q!Idle, Acts
  <2>3. QED
    BY <2>1, <2>2 DEF Fetch, Lapse, Q!Rebuild, Q!Lapse
<1>6. QueueOk
  <2>1. late' \subseteq Rows
    BY <1>1 DEF Fetch, Lapse, Restart, Q!Rebuild, Q!Lapse, Q!Restart, TypeOK, Q!TypeOK
  <2>2. faults' \in 0..MaxFaults
    <3>1. faults \in 0..MaxFaults /\ MaxFaults \in Nat
      BY <1>1, Bounds DEF TypeOK, Q!TypeOK
    <3>2. UNCHANGED faults \/ (faults < MaxFaults /\ faults' = faults + 1)
      BY DEF Fetch, Lapse, Restart, Q!Rebuild, Q!Lapse, Q!Restart
    <3>3. QED
      BY <3>1, <3>2
  <2>3. QED
    BY <1>1, <1>2, <1>20, <2>1, <2>2 DEF QueueOk, TypeOK, Q!TypeOK
<1>7. OfferOk
  BY <1>1, <1>2, <1>3, <1>5, TroubleFacts DEF OfferOk, TypeOK, offer, Acts
<1>8. ActiveInOrder' /\ InitNotAhead'
  BY <1>2 DEF IInv, offer, ActiveInOrder, InitNotAhead
<1>9. SentOk
  BY <1>1, <1>2, Same
<1>10. QED
  BY <1>2, <1>4, <1>5, <1>6, <1>7, <1>8, <1>9, Assemble

-----------------------------------------------------------------------------
\* An approved transaction has happened; its hook writes what that allows.
LEMMA ApproveStep ==
  ASSUME IInv, NEW h \in Handlers, Approve(h)
  PROVE  IInv'
<1> DEFINE r == req[h].row
           op == Operation(h)
<1>1. TypeOK /\ Present /\ UNCHANGED <<late, seq, sent, landed, built, faults, chain>>
  BY DEF IInv, Approve, Q!Approve, Q!network
<1>2. r \in Rows /\ Queued(r)
  BY <1>1, BusyFacts DEF Approve, Q!Approve, Q!At, Present
<1>3. op \in Operations /\ r[1] = op
  BY <1>2 DEF Operation, Rows
<1>4. Happened(op) /\ (chain.created => chain.deployed)
  BY DEF Approve, Q!Approve, Q!Success, Operation, IInv, Executed
<1>5. op = "contract_resume" => Ready
  BY <1>2, <1>3 DEF IInv, Prepared
<1>6. ReqOk
  <2>1. CASE Q!At(h, "await")
    <3>1. "record" \in Q!Places /\ Q!Go(h, "record", r)
      BY <2>1 DEF Approve, Q!Approve, Q!Places
    <3>2. QED
      BY <1>1, <1>2, <3>1, GoFacts
  <2>2. CASE ~Q!At(h, "await")
    <3>1. req' = [req EXCEPT ![h] = [req[h] EXCEPT !.at = "recordSigned"]] /\ Q!At(h, "awaitSigned")
      BY <2>2 DEF Approve, Q!Approve
    <3>2. req[h] \in Q!Request
      BY <1>1, <3>1, BusyFacts DEF Q!At
    <3>3. [req[h] EXCEPT !.at = "recordSigned"] \in Q!Request
          /\ [req[h] EXCEPT !.at = "recordSigned"].row = r
      BY <3>2 DEF Q!Request, Q!Places
    <3>4. QED
      BY <1>1, <1>2, <3>1, <3>3, MoveFacts
  <2>3. QED
    BY <2>1, <2>2
<1>7. SentOk
  BY <1>1, Same
<1>8. QueueOk
  BY <1>1 DEF QueueOk, TypeOK, Q!TypeOK
<1>9. trouble' \in 0..MaxTrouble
  BY <1>1, TroubleFacts DEF Approve
<1> DEFINE Writes == /\ RowsOk
                     /\ status' = status \/ (status' = "active" /\ op = "contract_resume")
                     /\ init' \in {init, "failed"} \/ (init' = "deployed" /\ op = "sale_deploy")
                                                   \/ (init' = "created" /\ op = "sale_create")
                     /\ token' = token \/ (token' = "sac" /\ op = "sac_deploy")
                     /\ UNCHANGED act \/ Goto(h, "begin")
<1>10. Writes
  <2>1. UNCHANGED row => RowsOk
    BY <1>1, Same
  <2>2. ASSUME NEW next \in Operations, next = "contract_resume" => Ready, Enqueue(next)
        PROVE  RowsOk
    BY <1>1, <2>2, EnqueueFacts
  <2>3. CASE HookFails(h)
    BY <2>1, <2>3 DEF HookFails
  <2>4. CASE Hook(h) /\ op = "sac_deploy"
    BY <2>1, <2>4 DEF Hook, AfterSacDeploy
  <2>5. CASE Hook(h) /\ op = "sale_deploy"
    <3>1. "sale_create" \in Operations
      BY DEF Operations
    <3>2. QED
      BY <2>1, <2>2, <2>5, <3>1 DEF Hook, Chain
  <2>6. CASE Hook(h) /\ op = "sale_create"
    <3>1. "contract_deposit_auth" \in Operations
      BY DEF Operations
    <3>2. QED
      BY <2>1, <2>2, <2>6, <3>1 DEF Hook, Chain
  <2>7. CASE Hook(h) /\ op = "contract_deposit_auth"
    <3>1. "contract_deposit_transfer" \in Operations
      BY DEF Operations
    <3>2. QED
      BY <2>1, <2>2, <2>7, <3>1 DEF Hook, AfterDepositAuth, Chain
  <2>8. CASE Hook(h) /\ op = "contract_deposit_transfer"
    <3>1. "contract_resume" \in Operations
      BY DEF Operations
    <3>2. Succeeds("contract_resume") => Ready
      BY <1>4, <2>8 DEF Succeeds, Happened, Ready
    <3>3. QED
      BY <2>1, <2>2, <2>8, <3>1, <3>2 DEF Hook, AfterDepositTransfer, Chain
  <2>9. CASE Hook(h) /\ op = "contract_resume"
    BY <2>1, <2>9 DEF Hook, AfterResume
  <2>10. QED
    BY <1>3, <2>3, <2>4, <2>5, <2>6, <2>7, <2>8, <2>9 DEF Approve, Operations
<1> HIDE DEF op, r
<1>11. OfferOk
  <2>1. h \in Runs /\ "begin" \in Acts
    BY DEF Runs, Acts
  <2>2. act' \in [Runs -> Acts]
    BY <1>1, <1>10, <2>1, ActFacts DEF TypeOK, Acts
  <2>3. QED
    BY <1>1, <1>9, <1>10, <2>2 DEF OfferOk, TypeOK, Acts
<1>12. ActiveInOrder'
  BY <1>1, <1>4, <1>5, <1>10 DEF IInv, ActiveInOrder, Happened, Ready
<1>13. InitNotAhead'
  BY <1>1, <1>4, <1>10 DEF IInv, InitNotAhead, Happened
<1>14. QED
  BY <1>1, <1>6, <1>7, <1>8, <1>10, <1>11, <1>12, <1>13, Assemble

\* A rejected, expired or failed transaction only ever takes progress back.
LEMMA UndoStep ==
  ASSUME IInv, NEW h \in Handlers, Undo(h)
  PROVE  IInv'
<1>1. /\ TypeOK /\ Present
      /\ UNCHANGED <<late, seq, sent, landed, built, faults, chain, row, status, act, trouble>>
  BY DEF IInv, Undo, Q!Undo, Q!network
<1>2. init' \in {init, "failed"} /\ token' \in {token, "none"}
  BY DEF Undo
<1>3. RowsOk /\ SentOk /\ ReqOk
  BY <1>1, Same, DoneFacts DEF Undo, Q!Undo
<1>4. QueueOk /\ OfferOk
  BY <1>1, <1>2 DEF QueueOk, OfferOk, TypeOK, Q!TypeOK
<1>5. ActiveInOrder' /\ InitNotAhead'
  BY <1>1, <1>2 DEF IInv, ActiveInOrder, InitNotAhead
<1>6. QED
  BY <1>1, <1>3, <1>4, <1>5, Assemble

-----------------------------------------------------------------------------
\* The chain only goes forward.
LEMMA ExecuteFacts ==
  ASSUME TypeOK, chain.created => chain.deployed, NEW op \in Operations, Succeeds(op), Execute(op)
  PROVE  /\ chain' \in [sac : BOOLEAN, deployed : BOOLEAN, created : BOOLEAN, authorised : BOOLEAN,
                         live : BOOLEAN, deposits : Nat]
         /\ \A o \in Operations : Happened(o) => Happened(o)'
         /\ Happened(op)'
         /\ chain'.created => chain'.deployed
         /\ chain.sac => chain'.sac
         /\ chain.deployed => chain'.deployed
         /\ chain.created => chain'.created
         /\ chain.live => chain'.live
         /\ chain.deposits > 0 => chain'.deposits > 0
<1>1. chain \in [sac : BOOLEAN, deployed : BOOLEAN, created : BOOLEAN, authorised : BOOLEAN,
                 live : BOOLEAN, deposits : Nat]
  BY DEF TypeOK
<1>2. CASE op = "sac_deploy"
  BY <1>1, <1>2 DEF Execute, Happened
<1>3. CASE op = "sale_deploy"
  BY <1>1, <1>3 DEF Execute, Happened
<1>4. CASE op = "sale_create"
  BY <1>1, <1>4 DEF Execute, Happened, Succeeds
<1>5. CASE op = "contract_deposit_auth"
  BY <1>1, <1>5 DEF Execute, Happened
<1>6. CASE op = "contract_deposit_transfer"
  <2>1. chain' = [chain EXCEPT !.deposits = chain.deposits + 1] /\ chain.deposits \in Nat
    BY <1>1, <1>6 DEF Execute
  <2>2. chain'.deposits = chain.deposits + 1 /\ chain'.deposits > 0 /\ chain'.deposits \in Nat
    BY <1>1, <2>1
  <2>3. QED
    BY <1>1, <1>6, <2>1, <2>2 DEF Happened
<1>7. CASE op = "contract_resume"
  BY <1>1, <1>7 DEF Execute, Happened
<1>8. QED
  BY <1>2, <1>3, <1>4, <1>5, <1>6, <1>7 DEF Operations

LEMMA ChainStep ==
  ASSUME IInv, NEW m \in sent, Land(m) \/ Bounce(m)
  PROVE  IInv'
<1>1. /\ TypeOK /\ Present
      /\ UNCHANGED <<row, late, req, sent, built, faults, offer, act, trouble>>
  BY DEF IInv, Land, Bounce, Q!Land, Q!Bounce
<1>2. m.row \in Rows /\ m.xdr \in Q!Xdr /\ m.row[1] \in Operations
  BY <1>1 DEF TypeOK, Q!TypeOK, Q!Sent, Rows
<1>3. seq' \in Nat
  BY <1>1 DEF Land, Bounce, Q!Land, Q!Bounce, TypeOK, Q!TypeOK
<1>4. CASE Bounce(m)
  <2>1. UNCHANGED <<landed, chain>>
    BY <1>4 DEF Bounce, Q!Bounce
  <2>2. RowsOk /\ ReqOk /\ SentOk
    BY <1>1, Same
  <2>3. QueueOk /\ OfferOk
    BY <1>1, <1>3, <2>1 DEF QueueOk, OfferOk, TypeOK, Q!TypeOK, offer
  <2>4. ActiveInOrder' /\ InitNotAhead'
    BY <1>1, <2>1 DEF IInv, ActiveInOrder, InitNotAhead, offer
  <2>5. QED
    BY <2>1, <2>2, <2>3, <2>4, Assemble
<1>5. CASE Land(m)
  <2> DEFINE op == m.row[1]
  <2>1. Succeeds(op) /\ Execute(op) /\ landed' = landed \cup {<<m.row, m.xdr>>}
    BY <1>5 DEF Land, Q!Land
  <2>2. chain.created => chain.deployed
    BY DEF IInv, Executed
  <2>3. op \in Operations
    BY <1>2
  <2> HIDE DEF op
  <2>4. /\ chain' \in [sac : BOOLEAN, deployed : BOOLEAN, created : BOOLEAN, authorised : BOOLEAN,
                        live : BOOLEAN, deposits : Nat]
        /\ \A o \in Operations : Happened(o) => Happened(o)'
        /\ Happened(op)'
        /\ chain'.created => chain'.deployed
        /\ chain.sac => chain'.sac
        /\ chain.deployed => chain'.deployed
        /\ chain.created => chain'.created
        /\ chain.live => chain'.live
        /\ chain.deposits > 0 => chain'.deposits > 0
    BY <1>1, <2>1, <2>2, <2>3, ExecuteFacts
  <2>5. landed' \subseteq (Rows \X Q!Xdr)
    BY <1>1, <1>2, <2>1 DEF TypeOK, Q!TypeOK
  <2>6. TypeOK'
    BY <1>1, <1>3, <2>4, <2>5 DEF TypeOK, Q!TypeOK, offer
  <2>7. Present'
    BY <1>1 DEF Present, Queued
  <2>8. ASSUME NEW x \in landed'
        PROVE  Happened(x[1][1])'
    <3>1. CASE x = <<m.row, m.xdr>>
      BY <2>4, <3>1 DEF op
    <3>2. CASE x \in landed
      <4>1. x[1][1] \in Operations /\ Happened(x[1][1])
        BY <1>1, <3>2 DEF IInv, Executed, TypeOK, Q!TypeOK, Rows
      <4>2. QED
        BY <2>4, <4>1
    <3>3. QED
      BY <2>1, <3>1, <3>2
  <2>9. Executed'
    BY <2>4, <2>8 DEF Executed
  <2>10. Prepared'
    BY <1>1, <2>4 DEF IInv, Prepared, Queued, Ready
  <2>11. ActiveInOrder' /\ InitNotAhead'
    BY <1>1, <2>4 DEF IInv, ActiveInOrder, InitNotAhead, offer
  <2>12. QED
    BY <2>6, <2>7, <2>9, <2>10, <2>11 DEF IInv
<1>6. QED
  BY <1>4, <1>5

-----------------------------------------------------------------------------
LEMMA InitFacts == Init => IInv
<1> SUFFICES ASSUME Init PROVE IInv
  OBVIOUS
<1>1. Q!NoXdr \in Q!Xdr /\ Q!Absent \in Q!Row /\ Q!Absent.status = "none"
  BY Bounds DEF Q!NoXdr, Q!Absent, Q!Xdr, Q!Row, Q!Status
<1>2. Q!TypeOK
  BY <1>1, Bounds DEF Init, Q!Init, Q!TypeOK
<1>3. TypeOK
  BY <1>2, Bounds DEF Init, TypeOK
<1>4. \A r \in Rows : ~Queued(r)
  BY <1>1 DEF Init, Q!Init, Queued
<1>5. \A h \in Handlers : req[h].at = "idle"
  BY DEF Init, Q!Init, Q!Idle
<1>6. sent = {} /\ landed = {} /\ ~chain.created
  BY DEF Init, Q!Init
<1>7. Present /\ Executed /\ Prepared
  BY <1>4, <1>5, <1>6 DEF Present, Executed, Prepared
<1>8. ActiveInOrder /\ InitNotAhead
  BY DEF Init, ActiveInOrder, InitNotAhead
<1>9. QED
  BY <1>3, <1>7, <1>8 DEF IInv

LEMMA NextFacts == IInv /\ [Next]_vars => IInv'
<1> SUFFICES ASSUME IInv, [Next]_vars PROVE IInv'
  OBVIOUS
<1>1. ASSUME NEW p \in Launches
      PROVE  p \in Runs
  BY DEF Runs
<1>2. CASE UNCHANGED vars
  BY <1>2 DEF vars, queue, offer, IInv, TypeOK, Q!TypeOK, Present, Queued, Executed, Happened,
              Prepared, Ready, ActiveInOrder, InitNotAhead
<1>3. QED
  BY <1>1, <1>2, LaunchStep, QueueStep, AroundStep, ApproveStep, UndoStep, ChainStep DEF Next

\* The invariant of the pipeline and its queue.
LEMMA Holds == Spec => []IInv
  BY InitFacts, NextFacts, PTL DEF Spec

\* An offer, its token, the six transactions and the contracts keep their types.
THEOREM TypeCorrect == Spec => []TypeOK
<1>1. IInv => TypeOK
  BY DEF IInv
<1>2. QED
  BY <1>1, Holds, PTL

\* No offer is shown as active before its sale was created, given the tokens and resumed on
\* chain, for any number of rejections, retries, timeouts and restarts.
THEOREM GoesLiveInOrder == Spec => []ActiveInOrder
<1>1. IInv => ActiveInOrder
  BY DEF IInv
<1>2. QED
  BY <1>1, Holds, PTL

\* The recorded progress of an offer is never ahead of what the network has executed.
THEOREM ProgressIsOnChain == Spec => []InitNotAhead
<1>1. IInv => InitNotAhead
  BY DEF IInv
<1>2. QED
  BY <1>1, Holds, PTL

-----------------------------------------------------------------------------
(***************************************************************************)
(* The queue underneath.  Every step of the pipeline is a step of module   *)
(* MultiSig with the issuer as its only signer, or leaves the queue alone: *)
(* what is proved of the queue holds of the pipeline's transactions.       *)
(***************************************************************************)
P == INSTANCE MultiSigProofs WITH
       Signers <- {Issuer}, Threshold <- [r \in Rows |-> 1], DevKeys <- FALSE, MaxPosts <- 0,
       Rebuildable <- {r \in Rows : r[1] \notin {"sac_deploy", "contract_deposit_transfer"}}

\* A transaction is queued in a row that was free.
LEMMA EnqueueQueues ==
  ASSUME NEW op \in Operations, Enqueue(op)
  PROVE  \E r \in Rows : r \in Q!Unused /\ row' = [row EXCEPT ![r] = Q!Fresh]
<1> DEFINE k == CHOOSE i \in Free(op) : TRUE
<1>1. k \in Free(op) /\ row' = [row EXCEPT ![<<op, k>>] = Q!Fresh]
  BY DEF Enqueue
<1> HIDE DEF k
<1>2. <<op, k>> \in Rows /\ row[<<op, k>>].status = "none"
  BY <1>1 DEF Free, Rows
<1>3. QED
  BY <1>1, <1>2 DEF Q!Unused

LEMMA LaunchQueues ==
  ASSUME NEW p \in Runs,
         \/ \E decision \in {"approved", "rejected"} : Review(p, decision)
         \/ RequestIssue(p) \/ RequestActivation(p) \/ Retry(p)
         \/ Issue(p) \/ QueueSac(p) \/ Begin(p) \/ Deploy(p) \/ QueueDeploy(p) \/ QueueCreate(p)
         \/ Throw(p)
  PROVE  [Q!Next]_(Q!vars)
<1>1. UNCHANGED <<late, req, seq, sent, landed, built, faults>>
  BY DEF Review, RequestIssue, RequestActivation, Retry, Issue, QueueSac, Begin, Deploy,
         QueueDeploy, QueueCreate, Throw, KeepQueue, queue
<1>2. UNCHANGED row \/ \E op \in {"sac_deploy", "sale_deploy", "sale_create"} : Enqueue(op)
  BY DEF Review, RequestIssue, RequestActivation, Retry, Issue, QueueSac, Begin, Deploy,
         QueueDeploy, QueueCreate, Throw, queue
<1>3. ASSUME NEW op \in {"sac_deploy", "sale_deploy", "sale_create"}, Enqueue(op)
      PROVE  \E r \in Rows : Q!Queue(r)
  <2>1. op \in Operations
    BY DEF Operations
  <2>2. QED
    BY <1>1, <1>3, <2>1, EnqueueQueues DEF Q!Queue, Q!network
<1>4. QED
  BY <1>1, <1>2, <1>3 DEF Q!Next, Q!vars, Q!network

\* The hook of an approved transaction queues at most one more.
LEMMA ApproveQueues ==
  ASSUME IInv, NEW h \in Handlers, Approve(h)
  PROVE  Q!Approve(h) /\ Q!MayQueue
<1> DEFINE op == Operation(h)
<1>1. req[h].row \in Rows
  BY BusyFacts DEF IInv, Approve, Q!Approve, Q!At
<1>2. op \in Operations
  BY <1>1 DEF Operation, Rows
<1>3. UNCHANGED row \/ \E next \in Operations : Enqueue(next)
  <2>1. CASE HookFails(h)
    BY <2>1 DEF HookFails
  <2>2. CASE Hook(h) /\ op = "sac_deploy"
    BY <2>2 DEF Hook, AfterSacDeploy
  <2>3. CASE Hook(h) /\ op = "contract_resume"
    BY <2>3 DEF Hook, AfterResume
  <2>4. CASE Hook(h) /\ op \notin {"sac_deploy", "contract_resume"}
    BY <1>2, <2>4 DEF Hook, AfterDepositAuth, AfterDepositTransfer, Chain, Operations
  <2>5. QED
    BY <2>1, <2>2, <2>3, <2>4 DEF Approve
<1>4. Q!MayQueue
  BY <1>3, EnqueueQueues DEF Q!MayQueue
<1>5. QED
  BY <1>4 DEF Approve

LEMMA QueueRuns ==
  ASSUME IInv, [Next]_vars
  PROVE  [Q!Next]_(Q!vars)
<1>1. ASSUME NEW p \in Launches
      PROVE  p \in Runs
  BY DEF Runs
<1>2. ASSUME NEW h \in Handlers, RecordExecuted(h) \/ Undo(h) \/ Fail(h) \/ Serve(h)
      PROVE  Q!Step(h)
  BY <1>2 DEF RecordExecuted, Undo, Fail, Serve, Q!Step
<1>3. ASSUME NEW h \in Handlers, Approve(h)
      PROVE  Q!Step(h)
  BY <1>3, ApproveQueues DEF Q!Step
<1>4. ASSUME NEW h \in Handlers, NEW r \in Rows, Ask(h, r)
      PROVE  Q!Next
  <2>1. \E s \in {Issuer} : s = Issuer
    OBVIOUS
  <2>2. QED
    BY <1>4, <2>1 DEF Ask, Q!Next
<1>5. ASSUME NEW r \in Rows, Fetch(r) \/ Lapse(r)
      PROVE  Q!Next
  BY <1>5 DEF Fetch, Lapse, Q!Next
<1>6. ASSUME NEW m \in sent, Land(m) \/ Bounce(m)
      PROVE  Q!Next
  BY <1>6 DEF Land, Bounce, Q!Next
<1>7. CASE Restart
  BY <1>7 DEF Restart, Q!Next
<1>8. CASE UNCHANGED vars
  BY <1>8 DEF vars, queue, Q!vars, Q!network
<1>9. ASSUME NEW h \in Handlers, Q!Step(h)
      PROVE  Q!Next
  BY <1>9 DEF Q!Next
<1>10. QED
  BY <1>1, <1>2, <1>3, <1>4, <1>5, <1>6, <1>7, <1>8, <1>9, LaunchQueues DEF Next

\* The pipeline runs on the queue: OfferActivation implements MultiSig, an approval and the
\* transaction its hook queues being one step of it.
THEOREM RunsOnTheQueue == Spec => Q!Spec
<1>1. Init => Q!Init
  BY DEF Init
<1>2. QED
  BY <1>1, Holds, QueueRuns, PTL DEF Spec, Q!Spec

\* P and Q are the same module with the same parameters: they say the same.
LEMMA SameCount ==
  ASSUME NEW S
  PROVE  P!Cardinality(S) = Q!Cardinality(S)
  BY DEF P!Cardinality, Q!Cardinality

LEMMA SameAnswers ==
  ASSUME NEW h
  PROVE  /\ P!Signed(h) = Q!Signed(h) /\ (P!ThresholdMet(h) <=> Q!ThresholdMet(h))
         /\ P!Success(h) <=> Q!Success(h)
<1>1. P!Signed(h) = Q!Signed(h)
  BY DEF P!Signed, Q!Signed
<1>2. QED
  BY <1>1, SameCount DEF P!ThresholdMet, Q!ThresholdMet, P!Success, Q!Success

LEMMA SameMoves ==
  ASSUME NEW h, NEW place, NEW r, NEW by
  PROVE  /\ P!At(h, place) <=> Q!At(h, place)
         /\ P!Go(h, place, r) <=> Q!Go(h, place, r)
         /\ P!Keep(h, place, r, by) <=> Q!Keep(h, place, r, by)
         /\ P!SetStatus(r, place) <=> Q!SetStatus(r, place)
         /\ P!Done(h) <=> Q!Done(h)
  BY DEF P!At, Q!At, P!Go, Q!Go, P!NoXdr, Q!NoXdr, P!Keep, Q!Keep, P!SetStatus, Q!SetStatus, P!Done,
         Q!Done, P!Idle, Q!Idle

LEMMA SameSteps ==
  ASSUME NEW h
  PROVE  P!Step(h) <=> Q!Step(h)
<1>1. P!StoreSignature(h) <=> Q!StoreSignature(h)
  BY SameAnswers, SameMoves DEF P!StoreSignature, Q!StoreSignature, P!network, Q!network
<1>2. P!Load(h) <=> Q!Load(h)
  BY SameMoves DEF P!Load, Q!Load, P!Matching, Q!Matching, P!network, Q!network
<1>3. P!Send(h) <=> Q!Send(h)
  BY SameMoves DEF P!Send, Q!Send
<1>4. (P!Approve(h) /\ P!MayQueue) <=> (Q!Approve(h) /\ Q!MayQueue)
  BY SameAnswers, SameMoves
  DEF P!Approve, Q!Approve, P!MayQueue, Q!MayQueue, P!Unused, Q!Unused, P!Fresh, Q!Fresh,
         P!network, Q!network
<1>5. /\ P!RecordExecuted(h) <=> Q!RecordExecuted(h)
      /\ P!RecordFailed(h) <=> Q!RecordFailed(h)
      /\ P!Reject(h) <=> Q!Reject(h)
      /\ P!Expire(h) <=> Q!Expire(h)
      /\ P!Undo(h) <=> Q!Undo(h)
  BY SameMoves
  DEF P!RecordExecuted, Q!RecordExecuted, P!StorePosted, Q!StorePosted, P!RecordFailed, Q!RecordFailed, P!Reject, Q!Reject,
         P!Expire, Q!Expire, P!Undo, Q!Undo, P!network, Q!network
<1>6. QED
  BY <1>1, <1>2, <1>3, <1>4, <1>5 DEF P!Step, Q!Step

LEMMA SameQueue ==
  (P!Init <=> Q!Init) /\ (P!Next <=> Q!Next) /\ (UNCHANGED P!vars <=> UNCHANGED Q!vars)
<1>1. ASSUME NEW r
      PROVE  /\ P!Queue(r) <=> Q!Queue(r)
             /\ P!Rebuild(r) <=> Q!Rebuild(r)
             /\ P!Lapse(r) <=> Q!Lapse(r)
  BY DEF P!Queue, Q!Queue, P!Unused, Q!Unused, P!Fresh, Q!Fresh, P!Rebuild, Q!Rebuild, P!Lapse,
         Q!Lapse, P!network, Q!network
<1>2. ASSUME NEW h, NEW r, NEW s
      PROVE  /\ P!Sign(h, r, s) <=> Q!Sign(h, r, s)
             /\ P!RequestSubmit(h, r) <=> Q!RequestSubmit(h, r)
             /\ P!SendSigned(h, r, s) <=> Q!SendSigned(h, r, s)
             /\ P!ReadToReject(h, r) <=> Q!ReadToReject(h, r)
             /\ P!FindExpired(h, r) <=> Q!FindExpired(h, r)
  BY SameMoves DEF P!Sign, Q!Sign, P!RequestSubmit, Q!RequestSubmit, P!SendSigned, Q!SendSigned, P!Posts, Q!Posts,
         P!ReadToReject, Q!ReadToReject, P!FindExpired, Q!FindExpired, P!Waiting, Q!Waiting,
         P!network, Q!network
<1>3. ASSUME NEW m
      PROVE  (P!Land(m) \/ P!Bounce(m)) <=> (Q!Land(m) \/ Q!Bounce(m))
  BY DEF P!Land, Q!Land, P!Bounce, Q!Bounce
<1>4. P!Restart <=> Q!Restart
  BY SameMoves DEF P!Restart, Q!Restart, P!Idle, Q!Idle, P!network, Q!network
<1>5. P!Next <=> Q!Next
  BY <1>1, <1>2, <1>3, <1>4, SameSteps DEF P!Next, Q!Next
<1>6. P!Init <=> Q!Init
  BY DEF P!Init, Q!Init, P!Absent, Q!Absent, P!NoXdr, Q!NoXdr, P!Idle, Q!Idle
<1>7. UNCHANGED P!vars <=> UNCHANGED Q!vars
  BY DEF P!vars, Q!vars, P!network, Q!network
<1>8. QED
  BY <1>5, <1>6, <1>7

\* What is proved of the queue, of the pipeline's transactions: each is sent with the
\* issuer's signature over it, and executes at most once.
LEMMA QueueFacts == Spec => [](Q!SentWasApproved /\ Q!ExecutedOnce)
<1>1. P!Parameters
  BY Bounds DEF P!Parameters
<1>2. P!Spec => []P!ExecutedOnce
  BY <1>1, P!ExecutesOnce
<1>3. P!Spec => []P!SentWasApproved
  BY <1>1, P!SentIsApproved
<1>4. P!ExecutedOnce => Q!ExecutedOnce
  BY DEF P!ExecutedOnce, Q!ExecutedOnce, P!Posts, Q!Posts
<1>5. P!SentWasApproved => Q!SentWasApproved
  BY SameCount DEF P!SentWasApproved, Q!SentWasApproved
<1>6. Q!Init => P!Init
  BY SameQueue
<1>7. [Q!Next]_(Q!vars) => [P!Next]_(P!vars)
  BY SameQueue
<1>8. QED
  BY <1>2, <1>3, <1>4, <1>5, <1>6, <1>7, RunsOnTheQueue, PTL DEF P!Spec, Q!Spec

\* No client signs for the pipeline: the network only executes what the queue has sent.
Landings ==
  /\ \A m \in sent : m.queued
  /\ \A x \in landed : \E m \in sent : x = <<m.row, m.xdr>>

LEMMA LandingsStep ==
  ASSUME Landings, [Q!Next]_(Q!vars)
  PROVE  Landings'
<1>1. CASE UNCHANGED <<sent, landed>>
  BY <1>1 DEF Landings
<1>2. ASSUME NEW h \in Handlers, Q!Send(h)
      PROVE  Landings'
  BY <1>2 DEF Landings, Q!Send
<1>3. ASSUME NEW m \in sent, Q!Land(m)
      PROVE  Landings'
  BY <1>3 DEF Landings, Q!Land
<1>4. QED
  BY <1>1, <1>2, <1>3
  DEF Q!Next, Q!Step, Q!vars, Q!network, Q!Queue, Q!Rebuild, Q!Lapse, Q!Sign, Q!RequestSubmit,
      Q!SendSigned, Q!ReadToReject, Q!FindExpired, Q!StoreSignature, Q!Load, Q!Approve,
      Q!RecordExecuted, Q!RecordFailed, Q!Reject, Q!Expire, Q!Undo, Q!Bounce, Q!Restart

\* A row of the queue executes with one XDR, and so once.
LandsOnce == \A x, y \in landed : x[1] = y[1] => x = y

\* No transaction of the pipeline executes twice, for any number of rebuilds, submissions,
\* rejections and retries: the tokens of one deposit are deposited once.
THEOREM EachLandsOnce == Spec => []LandsOnce
<1>1. Q!Init => Landings
  BY DEF Q!Init, Landings
<1>2. Landings /\ [Q!Next]_(Q!vars) => Landings'
  BY LandingsStep
<1>3. Landings /\ Q!ExecutedOnce => LandsOnce
  <2> SUFFICES ASSUME Landings, Q!ExecutedOnce, NEW x \in landed, NEW y \in landed, x[1] = y[1]
               PROVE  x = y
    BY DEF LandsOnce
  <2>1. PICK m \in sent : x = <<m.row, m.xdr>>
    BY DEF Landings
  <2>2. PICK n \in sent : y = <<n.row, n.xdr>>
    BY DEF Landings
  <2>3. m.queued /\ n.queued /\ m.row = n.row
    BY <2>1, <2>2 DEF Landings
  <2>4. Q!Posts(m.row) = {}
    BY DEF Landings, Q!Posts
  <2>5. QED
    BY <2>1, <2>2, <2>3, <2>4 DEF Q!ExecutedOnce
<1>4. QED
  BY <1>1, <1>2, <1>3, QueueFacts, RunsOnTheQueue, PTL DEF Q!Spec
=============================================================================
