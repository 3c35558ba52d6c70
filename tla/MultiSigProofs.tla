--------------------------- MODULE MultiSigProofs ---------------------------
(***************************************************************************)
(* Proofs about MultiSig, for any number of rows, signers, handlers and    *)
(* rebuilds and any thresholds.  The heart is that signatures keep a row   *)
(* on the XDR it was first sent with: every later set of signatures, also  *)
(* one still in a handler's hands, keeps a signature over that XDR or an   *)
(* older one (Settled), so no newer XDR ever has only matching signatures. *)
(* That argument ends where a client posts a transaction of its own: what  *)
(* was posted becomes the row's XDR, whether it is older or newer.         *)
(***************************************************************************)
EXTENDS MultiSig, TLAPS, FiniteSetTheorems

Busy(h) == req[h] # Idle

\* Only rows that have been queued are worked on and sent.
Present ==
  /\ \A h \in Handlers : Busy(h) => row[req[h].row].status # "none"
  /\ \A m \in sent : row[m.row].status # "none"

\* Without a post the row's XDR is the last one built; what was posted is being answered.
Tracked ==
  /\ \A h \in Handlers : At(h, "awaitSigned") \/ At(h, "recordSigned") => Posts(req[h].row) # {}
  /\ \A r \in Rows : IF row[r].status = "none" THEN built[r] = 1
                     ELSE Posts(r) = {} => row[r].xdr.build = built[r]

OneEach(S) == IsFiniteSet(S) /\ \A a, b \in S : a.by = b.by => a = b
Enough(r, S) == Cardinality(S) >= Threshold[r]
Over(S, x) == \A sig \in S : sig.over = x

\* Signatures are counted per signer wherever they are; what is sent has enough over itself.
Collected ==
  /\ \A r \in Rows : /\ OneEach(row[r].sigs)
                     /\ row[r].status = "ready" => Enough(r, row[r].sigs)
  /\ \A h \in Handlers : At(h, "sign") => OneEach(Signed(h))
  /\ \A h \in Handlers : At(h, "send") =>
       OneEach(req[h].sigs) /\ Enough(req[h].row, req[h].sigs) /\ Over(req[h].sigs, req[h].xdr)
  /\ \A m \in sent : m.queued => OneEach(m.sigs) /\ Enough(m.row, m.sigs) /\ Over(m.sigs, m.xdr)

\* An XDR that the queue has sent, or that a handler is about to send.
Chosen(r, x) ==
  \/ \E m \in sent : m.queued /\ m.row = r /\ m.xdr = x
  \/ \E h \in Handlers : At(h, "send") /\ req[h].row = r /\ req[h].xdr = x

\* The row's XDR, or one it had before.
Current(r, x) ==
  x.build <= row[r].xdr.build /\ (x.build = row[r].xdr.build => x = row[r].xdr)

\* A signature over x, or over an older XDR.
Old(S, x) == \E sig \in S : sig.over.build <= x.build

\* Once an XDR is chosen, every set of signatures holds on to it or to an older one.
Settled ==
  /\ \A h \in Handlers : At(h, "sign") /\ Posts(req[h].row) = {} =>
       Current(req[h].row, req[h].xdr) /\ Old(Signed(h), req[h].xdr)
  /\ \A r \in Rows, x \in Xdr : Chosen(r, x) /\ Posts(r) = {} =>
       /\ Current(r, x)
       /\ Old(row[r].sigs, x)
       /\ \A h \in Handlers : At(h, "sign") /\ req[h].row = r => Old(Signed(h), x)
       /\ \A y \in Xdr : Chosen(r, y) => x = y

-----------------------------------------------------------------------------
LEMMA ReqFacts ==
  ASSUME TypeOK, NEW h \in Handlers
  PROVE  /\ req[h] \in Request \cup {Idle}
         /\ Busy(h) <=> req[h] \in Request
         /\ Busy(h) <=> req[h].at # "idle"
         /\ Busy(h) => /\ req[h].row \in Rows /\ req[h].xdr \in Xdr
                       /\ req[h].sigs \subseteq Signature /\ req[h].by \subseteq Signers
  BY DEF TypeOK, Request, Idle, Busy, Places

LEMMA RowFacts ==
  ASSUME TypeOK, NEW r \in Rows
  PROVE  /\ row[r] \in Row /\ row[r].xdr \in Xdr /\ row[r].sigs \subseteq Signature
         /\ row[r].xdr.build \in 0..MaxBuilds /\ row[r].status \in Status
  BY DEF TypeOK, Row, Xdr

\* The request that moves, and the others that do not.
ReqBecomes(h, j) ==
  /\ req' \in [Handlers -> Request \cup {Idle}]
  /\ \A g \in Handlers : g # h => req'[g] = req[g]
  /\ req'[h] = j

LEMMA DoneFacts ==
  ASSUME TypeOK, NEW h \in Handlers, Done(h)
  PROVE  ReqBecomes(h, Idle)
  BY DEF TypeOK, Done, ReqBecomes

LEMMA GoFacts ==
  ASSUME TypeOK, NEW h \in Handlers, NEW place \in Places, NEW r \in Rows, Go(h, place, r)
  PROVE  /\ ReqBecomes(h, [at |-> place, row |-> r, by |-> {}, xdr |-> NoXdr, sigs |-> {}])
         /\ req'[h] \in Request
<1>1. [at |-> place, row |-> r, by |-> {}, xdr |-> NoXdr, sigs |-> {}] \in Request
  BY Parameters DEF Request, NoXdr, Xdr
<1>2. QED
  BY <1>1 DEF TypeOK, Go, ReqBecomes

LEMMA KeepFacts ==
  ASSUME TypeOK, NEW h \in Handlers, NEW place \in Places, NEW r \in Rows,
         NEW by \in SUBSET Signers, Keep(h, place, r, by)
  PROVE  /\ ReqBecomes(h, [at |-> place, row |-> r, by |-> by, xdr |-> row[r].xdr, sigs |-> row[r].sigs])
         /\ req'[h] \in Request
<1>1. [at |-> place, row |-> r, by |-> by, xdr |-> row[r].xdr, sigs |-> row[r].sigs] \in Request
  BY RowFacts DEF Request
<1>2. QED
  BY <1>1 DEF TypeOK, Keep, ReqBecomes

\* A change of the status alone, or of the XDR of a row that something was posted to.
RowsKept ==
  \A r \in Rows :
    /\ row'[r].xdr = row[r].xdr \/ Posts(r) # {}
    /\ row'[r].sigs = row[r].sigs
    /\ row'[r].status = "none" <=> row[r].status = "none"
    /\ row'[r].status = "ready" => row[r].status = "ready"

LEMMA StatusFacts ==
  ASSUME TypeOK, NEW r \in Rows, row[r].status # "none",
         NEW status \in {"submitted", "executed", "failed", "rejected", "expired"},
         SetStatus(r, status)
  PROVE  row' \in [Rows -> Row] /\ RowsKept
<1>1. row'[r] = [row[r] EXCEPT !.status = status] /\ \A n \in Rows : n # r => row'[n] = row[n]
  BY DEF TypeOK, SetStatus
<1>2. row'[r] \in Row /\ row'[r].xdr = row[r].xdr /\ row'[r].sigs = row[r].sigs /\ row'[r].status = status
  BY <1>1, RowFacts DEF Row, Status, Final
<1>3. QED
  BY <1>1, <1>2 DEF TypeOK, SetStatus, RowsKept

LEMMA RecordFacts ==
  ASSUME TypeOK, Present, Tracked, NEW h \in Handlers, RecordExecuted(h)
  PROVE  row' \in [Rows -> Row] /\ RowsKept
<1> DEFINE r == req[h].row
<1>1. Busy(h) /\ r \in Rows /\ req[h].xdr \in Xdr /\ row[r].status # "none"
  BY ReqFacts DEF RecordExecuted, At, Present
<1>2. CASE At(h, "record")
  BY <1>1, <1>2, StatusFacts DEF RecordExecuted, At
<1>3. CASE At(h, "recordSigned")
  <2>1. row' = [row EXCEPT ![r].status = "executed", ![r].xdr = req[h].xdr]
    BY <1>3 DEF RecordExecuted, StorePosted, At
  <2>2. row'[r] = [row[r] EXCEPT !.status = "executed", !.xdr = req[h].xdr]
        /\ \A n \in Rows : n # r => row'[n] = row[n]
    BY <1>1, <2>1 DEF TypeOK
  <2>3. row'[r] \in Row /\ row'[r].sigs = row[r].sigs /\ row'[r].status = "executed"
    BY <1>1, <2>2, RowFacts DEF Row, Status, Final
  <2>4. Posts(r) # {}
    BY <1>3 DEF Tracked
  <2>5. row' \in [Rows -> Row]
    BY <1>1, <2>1, <2>3 DEF TypeOK
  <2>6. QED
    BY <1>1, <2>2, <2>3, <2>4, <2>5 DEF RowsKept
<1>4. QED
  BY <1>2, <1>3 DEF RecordExecuted

\* A request that has its answer goes on to record it.
LEMMA ApproveFacts ==
  ASSUME TypeOK, NEW h \in Handlers, Approve(h)
  PROVE  /\ Busy(h) /\ req[h].row \in Rows
         /\ ReqBecomes(h, req'[h]) /\ req'[h].at \in {"record", "recordSigned"}
         /\ req'[h].row = req[h].row
         /\ req'[h].at = "recordSigned" => At(h, "awaitSigned")
<1>1. Busy(h) /\ req[h] \in Request /\ req[h].row \in Rows
  BY ReqFacts DEF Approve, At
<1>2. CASE At(h, "await")
  <2>1. Go(h, "record", req[h].row) /\ "record" \in Places
    BY <1>2 DEF Approve, Places
  <2>2. ReqBecomes(h, [at |-> "record", row |-> req[h].row, by |-> {}, xdr |-> NoXdr, sigs |-> {}])
    BY <1>1, <2>1, GoFacts
  <2>3. QED
    BY <1>1, <2>2 DEF ReqBecomes
<1>3. CASE ~At(h, "await")
  <2>1. At(h, "awaitSigned") /\ req' = [req EXCEPT ![h].at = "recordSigned"]
    BY <1>3 DEF Approve
  <2>2. [req[h] EXCEPT !.at = "recordSigned"] \in Request
    BY <1>1 DEF Request, Places
  <2>3. QED
    BY <1>1, <2>1, <2>2 DEF TypeOK, ReqBecomes, Request
<1>4. QED
  BY <1>2, <1>3

\* A row that joins the queue, on its own or by the hook of another.
Joins(r) == r \in Unused /\ row' = [row EXCEPT ![r] = Fresh]

LEMMA JoinFacts ==
  ASSUME TypeOK, NEW r \in Rows, Joins(r)
  PROVE  /\ row' \in [Rows -> Row]
         /\ row[r].status = "none" /\ row'[r].status = "pending" /\ row'[r].sigs = {}
         /\ row'[r].xdr.build = 1
         /\ \A n \in Rows : n # r => row'[n] = row[n]
  BY Parameters DEF TypeOK, Joins, Unused, Fresh, Row, Xdr, Status, Waiting

LEMMA MayQueueFacts ==
  ASSUME MayQueue
  PROVE  UNCHANGED row \/ \E r \in Rows : Joins(r)
  BY DEF MayQueue, Joins, Unused

\* The signatures a handler is about to store.
LEMMA SignedFacts ==
  ASSUME TypeOK, NEW h \in Handlers, Busy(h)
  PROVE  Signed(h) \subseteq Signature
  BY ReqFacts DEF Signed, Signature

LEMMA StoreFacts ==
  ASSUME TypeOK, NEW h \in Handlers, StoreSignature(h)
  PROVE  LET r == req[h].row IN
         /\ r \in Rows /\ row' \in [Rows -> Row]
         /\ \A n \in Rows : n # r => row'[n] = row[n]
         /\ row'[r].xdr = row[r].xdr /\ row'[r].sigs = Signed(h)
         /\ row'[r].status \in {"ready", "partially_signed"}
         /\ row'[r].status = "ready" => ThresholdMet(h)
<1> DEFINE r == req[h].row
           status == IF ThresholdMet(h) THEN "ready" ELSE "partially_signed"
<1>1. Busy(h) /\ r \in Rows
  BY ReqFacts DEF StoreSignature, At
<1>2. row' = [row EXCEPT ![r].sigs = Signed(h), ![r].status = status]
  BY DEF StoreSignature
<1>3. row'[r] = [row[r] EXCEPT !.sigs = Signed(h), !.status = status]
      /\ \A n \in Rows : n # r => row'[n] = row[n]
  BY <1>1, <1>2 DEF TypeOK
<1>4. /\ status \in {"ready", "partially_signed"} /\ status \in Status
      /\ status = "ready" => ThresholdMet(h)
  BY DEF Status, Waiting
<1>5. row[r] \in Row /\ Signed(h) \in SUBSET Signature
  BY <1>1, RowFacts, SignedFacts
<1> HIDE DEF status
<1>6. row'[r].sigs = Signed(h) /\ row'[r].xdr = row[r].xdr /\ row'[r].status = status /\ row'[r] \in Row
  BY <1>3, <1>4, <1>5 DEF Row
<1>7. row' \in [Rows -> Row]
  BY <1>1, <1>2, <1>6 DEF TypeOK
<1>8. QED
  BY <1>1, <1>3, <1>4, <1>6, <1>7

LEMMA RebuildFacts ==
  ASSUME TypeOK, NEW r \in Rows, Rebuild(r)
  PROVE  /\ row' \in [Rows -> Row]
         /\ \A n \in Rows : n # r => row'[n] = row[n]
         /\ row'[r].status = row[r].status /\ row'[r].sigs = row[r].sigs
         /\ row'[r].xdr.build = built[r] + 1
         /\ built' \in [Rows -> 1..MaxBuilds] /\ built'[r] = built[r] + 1
         /\ \A n \in Rows : n # r => built'[n] = built[n]
<1> DEFINE x == [build |-> built[r] + 1, seq |-> seq]
<1>0. built[r] \in 1..MaxBuilds /\ built[r] < MaxBuilds
  BY DEF TypeOK, Rebuild
<1>1. x \in Xdr /\ x.build = built[r] + 1
  BY <1>0, Parameters DEF TypeOK, Xdr
<1>2. row'[r] = [row[r] EXCEPT !.xdr = x] /\ \A n \in Rows : n # r => row'[n] = row[n]
  BY DEF TypeOK, Rebuild
<1>3. row'[r] \in Row /\ row'[r].xdr = x /\ row'[r].status = row[r].status /\ row'[r].sigs = row[r].sigs
  BY <1>1, <1>2, RowFacts DEF Row
<1>4. /\ built' \in [Rows -> 1..MaxBuilds] /\ built'[r] = built[r] + 1
      /\ \A n \in Rows : n # r => built'[n] = built[n]
  BY <1>0, Parameters DEF TypeOK, Rebuild
<1>5. QED
  BY <1>1, <1>2, <1>3, <1>4 DEF TypeOK, Rebuild

-----------------------------------------------------------------------------
LEMMA PostFacts ==
  ASSUME TypeOK, NEW r \in Rows, NEW x \in [build : 0..built[r], seq : 0..seq]
  PROVE  x \in Xdr
<1>1. built[r] \in 1..MaxBuilds /\ seq \in Nat /\ MaxBuilds \in Nat
  BY Parameters DEF TypeOK
<1>2. 0..built[r] \subseteq 0..MaxBuilds /\ 0..seq \subseteq Nat
  BY <1>1
<1>3. QED
  BY <1>2 DEF Xdr

\* Every step keeps the types.
LEMMA TypeStep ==
  ASSUME TypeOK, Present, Tracked, [Next]_vars
  PROVE  TypeOK'
<1>1. ASSUME NEW r \in Rows, Queue(r) \/ Rebuild(r) \/ Lapse(r)
      PROVE  TypeOK'
  <2>1. CASE Queue(r)
    BY <2>1, JoinFacts DEF TypeOK, Queue, Joins, network
  <2>2. CASE Rebuild(r)
    BY <2>2, RebuildFacts DEF TypeOK, Rebuild, network
  <2>3. CASE Lapse(r)
    BY <2>3 DEF TypeOK, Lapse, network
  <2>4. QED
    BY <1>1, <2>1, <2>2, <2>3
<1>2. ASSUME NEW h \in Handlers, NEW r \in Rows, NEW s \in Signers, Sign(h, r, s)
      PROVE  TypeOK'
  <2>1. "sign" \in Places /\ {s} \in SUBSET Signers
    BY DEF Places
  <2>2. req' \in [Handlers -> Request \cup {Idle}]
    BY <1>2, <2>1, KeepFacts DEF Sign, ReqBecomes
  <2>3. QED
    BY <1>2, <2>2 DEF TypeOK, Sign, network
<1>3. ASSUME NEW h \in Handlers, NEW r \in Rows, RequestSubmit(h, r) \/ ReadToReject(h, r) \/ FindExpired(h, r)
      PROVE  TypeOK'
  BY <1>3, GoFacts DEF TypeOK, RequestSubmit, ReadToReject, FindExpired, ReqBecomes, Places, network
<1>4. ASSUME NEW h \in Handlers, NEW r \in Rows, NEW x \in [build : 0..built[r], seq : 0..seq],
             SendSigned(h, r, x)
      PROVE  TypeOK'
  <2>0. x \in Xdr
    BY PostFacts
  <2>1. [at |-> "awaitSigned", row |-> r, by |-> {}, xdr |-> x, sigs |-> {}] \in Request
    BY <2>0 DEF Request, Places
  <2>2. [row |-> r, xdr |-> x, queued |-> FALSE, sigs |-> [by : Signers, over : {x}]] \in Sent
    BY <2>0 DEF Sent, Signature
  <2>3. req' \in [Handlers -> Request \cup {Idle}]
    BY <1>4, <2>1 DEF TypeOK, SendSigned
  <2>4. sent' \subseteq Sent
    BY <1>4, <2>2 DEF TypeOK, SendSigned
  <2>5. QED
    BY <1>4, <2>3, <2>4 DEF TypeOK, SendSigned
<1>5. ASSUME NEW h \in Handlers, StoreSignature(h)
      PROVE  TypeOK'
  <2>1. row' \in [Rows -> Row] /\ req[h].row \in Rows
    BY <1>5, StoreFacts
  <2>2. req' \in [Handlers -> Request \cup {Idle}]
    BY <1>5, <2>1, GoFacts, DoneFacts DEF StoreSignature, ReqBecomes, Places
  <2>3. QED
    BY <1>5, <2>1, <2>2 DEF TypeOK, StoreSignature, network
<1>6. ASSUME NEW h \in Handlers, Load(h)
      PROVE  TypeOK'
  <2>1. req[h].row \in Rows
    BY <1>6, ReqFacts DEF Load, At
  <2>2. Done(h) \/ Go(h, "expire", req[h].row) \/ Keep(h, "send", req[h].row, {})
    BY <1>6 DEF Load
  <2>3. req' \in [Handlers -> Request \cup {Idle}]
    <3>1. CASE Done(h)
      BY <3>1, DoneFacts DEF ReqBecomes
    <3>2. CASE Go(h, "expire", req[h].row)
      BY <3>2, <2>1, GoFacts DEF ReqBecomes, Places
    <3>3. CASE Keep(h, "send", req[h].row, {})
      <4>1. "send" \in Places /\ {} \in SUBSET Signers
        BY DEF Places
      <4>2. QED
        BY <3>3, <4>1, <2>1, KeepFacts DEF ReqBecomes
    <3>4. QED
      BY <2>2, <3>1, <3>2, <3>3
  <2>4. QED
    BY <1>6, <2>3 DEF TypeOK, Load, network
<1>7. ASSUME NEW h \in Handlers, Send(h)
      PROVE  TypeOK'
  <2>1. Busy(h) /\ req[h] \in Request /\ req[h].row \in Rows
    BY <1>7, ReqFacts DEF Send, At
  <2>2. row' \in [Rows -> Row]
    BY <1>7, <2>1, StatusFacts DEF Send, Present
  <2>3. [req[h] EXCEPT !.at = "await", !.sigs = {}] \in Request
    BY <2>1 DEF Request, Places
  <2>4. [row |-> req[h].row, xdr |-> req[h].xdr, sigs |-> req[h].sigs, queued |-> TRUE] \in Sent
    BY <2>1 DEF Request, Sent
  <2>5. QED
    BY <1>7, <2>2, <2>3, <2>4 DEF TypeOK, Send
<1>8. ASSUME NEW h \in Handlers, RecordExecuted(h) \/ RecordFailed(h) \/ Reject(h) \/ Expire(h)
      PROVE  TypeOK'
  <2>1. Busy(h) /\ req[h].row \in Rows
    BY <1>8, ReqFacts DEF RecordExecuted, RecordFailed, Reject, Expire, At
  <2>2. row' \in [Rows -> Row]
    BY <1>8, <2>1, StatusFacts, RecordFacts DEF RecordFailed, Reject, Expire, Present
  <2>3. req' \in [Handlers -> Request \cup {Idle}]
    BY <1>8, <2>1, GoFacts, DoneFacts
    DEF RecordExecuted, RecordFailed, Reject, Expire, ReqBecomes, Places
  <2>4. QED
    BY <1>8, <2>2, <2>3 DEF TypeOK, RecordExecuted, RecordFailed, Reject, Expire, network
<1>9. ASSUME NEW h \in Handlers, (Approve(h) /\ MayQueue) \/ (Undo(h) /\ UNCHANGED row)
      PROVE  TypeOK'
  <2>1. req[h].row \in Rows
    BY <1>9, ReqFacts DEF Approve, Undo, At
  <2>2. req' \in [Handlers -> Request \cup {Idle}]
    BY <1>9, <2>1, ApproveFacts, DoneFacts DEF Undo, ReqBecomes
  <2>3. row' \in [Rows -> Row]
    BY <1>9, MayQueueFacts, JoinFacts DEF TypeOK
  <2>4. QED
    BY <1>9, <2>1, <2>2, <2>3 DEF TypeOK, Approve, Undo, network
<1>10. ASSUME NEW m \in sent, Land(m) \/ Bounce(m)
       PROVE  TypeOK'
  BY <1>10 DEF TypeOK, Land, Bounce, Sent
<1>11. CASE Restart
  BY <1>11, Parameters DEF TypeOK, Restart, network
<1>12. CASE UNCHANGED vars
  BY <1>12 DEF TypeOK, vars, network
<1>13. QED
  BY <1>1, <1>2, <1>3, <1>4, <1>5, <1>6, <1>7, <1>8, <1>9, <1>10, <1>11, <1>12 DEF Next, Step

-----------------------------------------------------------------------------
Answers == {"awaitSigned", "recordSigned"}

\* Most steps start no signing and no sending, and change at most a status.
QuietReq ==
  \A h \in Handlers :
    \/ req'[h] = req[h] \/ req'[h] = Idle
    \/ /\ req'[h].at \notin {"sign", "send"} /\ row[req'[h].row].status # "none"
       /\ req'[h].at \in Answers => Posts(req[h].row)' # {}
QuietSent ==
  sent \subseteq sent' /\ \A m \in sent' : m \in sent \/ (~m.queued /\ row[m.row].status # "none")
Quiet == RowsKept /\ QuietReq /\ QuietSent /\ UNCHANGED built

LEMMA GoesQuietly ==
  ASSUME TypeOK, NEW h \in Handlers, NEW place \in Places, place \notin {"sign", "send"} \cup Answers,
         NEW r \in Rows, row[r].status # "none", Done(h) \/ Go(h, place, r)
  PROVE  QuietReq
<1>1. CASE Done(h)
  BY <1>1 DEF TypeOK, Done, Idle, QuietReq
<1>2. CASE Go(h, place, r)
  BY <1>2 DEF TypeOK, Go, QuietReq
<1>3. QED
  BY <1>1, <1>2

\* The others.
LoadSends(h) ==
  /\ Load(h) /\ row[req[h].row].status = "ready" /\ Matching(req[h].row)
  /\ Keep(h, "send", req[h].row, {})

LEMMA Kinds ==
  ASSUME TypeOK, Present, Tracked, [Next]_vars
  PROVE  \/ Quiet
         \/ \E r \in Rows : (Joins(r) /\ QuietReq /\ QuietSent /\ UNCHANGED built) \/ Rebuild(r)
         \/ \E h \in Handlers, r \in Rows, s \in Signers : Sign(h, r, s)
         \/ \E h \in Handlers : StoreSignature(h) \/ LoadSends(h) \/ Send(h)
<1>1. ASSUME NEW r \in Rows, Lapse(r)
      PROVE  Quiet
  BY <1>1 DEF Lapse, network, Quiet, RowsKept, QuietReq, QuietSent
<1>2. ASSUME NEW h \in Handlers, NEW r \in Rows,
             RequestSubmit(h, r) \/ ReadToReject(h, r) \/ FindExpired(h, r)
      PROVE  Quiet
  <2>1. QuietReq
    BY <1>2, GoesQuietly DEF Answers, RequestSubmit, ReadToReject, FindExpired, Places, Waiting
  <2>2. QED
    BY <1>2, <2>1 DEF RequestSubmit, ReadToReject, FindExpired, network, Quiet, RowsKept, QuietSent
<1>3. ASSUME NEW h \in Handlers, NEW r \in Rows, NEW x, SendSigned(h, r, x)
      PROVE  Quiet
  <2> DEFINE m == [row |-> r, xdr |-> x, queued |-> FALSE, sigs |-> [by : Signers, over : {x}]]
  <2>1. sent' = sent \cup {m} /\ UNCHANGED <<row, built>> /\ row[r].status # "none"
    BY <1>3 DEF SendSigned
  <2>2. m \in Posts(r)'
    BY <2>1 DEF Posts
  <2>3. req' = [req EXCEPT ![h] = [at |-> "awaitSigned", row |-> r, by |-> {}, xdr |-> x, sigs |-> {}]]
    BY <1>3 DEF SendSigned
  <2>4. QuietReq
    BY <2>1, <2>2, <2>3 DEF TypeOK, QuietReq
  <2>5. QED
    BY <2>1, <2>4 DEF Quiet, RowsKept, QuietSent
<1>4. ASSUME NEW h \in Handlers, Load(h), ~LoadSends(h)
      PROVE  Quiet
  <2>1. req[h].row \in Rows /\ row[req[h].row].status # "none"
    BY <1>4, ReqFacts DEF Load, At, Present
  <2>2. QuietReq
    BY <1>4, <2>1, GoesQuietly DEF Answers, Load, LoadSends, Places
  <2>3. QED
    BY <1>4, <2>2 DEF Load, network, Quiet, RowsKept, QuietSent
<1>5. ASSUME NEW h \in Handlers, RecordExecuted(h) \/ RecordFailed(h) \/ Reject(h) \/ Expire(h)
      PROVE  Quiet
  <2>1. Busy(h) /\ req[h].row \in Rows
    BY <1>5, ReqFacts DEF RecordExecuted, RecordFailed, Reject, Expire, At
  <2>2. RowsKept
    BY <1>5, <2>1, StatusFacts, RecordFacts DEF RecordFailed, Reject, Expire, Present
  <2>3. QuietReq
    BY <1>5, <2>1, GoesQuietly DEF Answers, RecordExecuted, RecordFailed, Reject, Expire, Places, Present
  <2>4. QED
    BY <1>5, <2>2, <2>3 DEF RecordExecuted, RecordFailed, Reject, Expire, network, Quiet, QuietSent
<1>6. ASSUME NEW h \in Handlers, (Approve(h) /\ MayQueue) \/ (Undo(h) /\ UNCHANGED row)
      PROVE  QuietReq /\ QuietSent /\ UNCHANGED built /\ (Quiet \/ \E r \in Rows : Joins(r))
  <2>1. req[h].row \in Rows /\ row[req[h].row].status # "none"
    BY <1>6, ReqFacts DEF Approve, Undo, At, Present
  <2>2. QuietReq
    <3>1. CASE Undo(h)
      BY <2>1, <3>1, GoesQuietly DEF Answers, Undo, Places
    <3>2. CASE Approve(h)
      <4>1. /\ \A g \in Handlers : g # h => req'[g] = req[g]
            /\ req'[h].at \in {"record", "recordSigned"} /\ req'[h].row = req[h].row
            /\ req'[h].at = "recordSigned" => At(h, "awaitSigned")
        BY <3>2, ApproveFacts DEF ReqBecomes
      <4>2. req'[h].at = "recordSigned" => Posts(req[h].row)' # {}
        BY <3>2, <4>1 DEF Tracked, Posts, Approve, network
      <4>3. QED
        BY <2>1, <4>1, <4>2 DEF Answers, QuietReq
    <3>3. QED
      BY <1>6, <3>1, <3>2
  <2>3. QuietSent /\ UNCHANGED built
    BY <1>6 DEF Approve, Undo, network, QuietSent
  <2>4. QED
    BY <1>6, <2>2, <2>3, MayQueueFacts DEF Quiet, RowsKept
<1>7. ASSUME NEW m \in sent, Land(m) \/ Bounce(m)
      PROVE  Quiet
  BY <1>7 DEF Land, Bounce, Quiet, RowsKept, QuietReq, QuietSent
<1>8. CASE Restart
  BY <1>8 DEF Restart, network, Idle, Quiet, RowsKept, QuietReq, QuietSent
<1>9. CASE UNCHANGED vars
  BY <1>9 DEF vars, network, Quiet, RowsKept, QuietReq, QuietSent
<1>10. ASSUME NEW r \in Rows, Queue(r)
       PROVE  Joins(r) /\ QuietReq /\ QuietSent /\ UNCHANGED built
  BY <1>10 DEF Queue, Joins, network, QuietReq, QuietSent
<1>11. QED
  BY <1>1, <1>2, <1>3, <1>4, <1>5, <1>6, <1>7, <1>8, <1>9, <1>10 DEF Next, Step

LEMMA OneSignature ==
  ASSUME NEW s, NEW x
  PROVE  [by : {s}, over : {x}] = {[by |-> s, over |-> x]}
<1>1. ASSUME NEW z \in [by : {s}, over : {x}]
      PROVE  z = [by |-> s, over |-> x]
  OBVIOUS
<1>2. [by |-> s, over |-> x] \in [by : {s}, over : {x}]
  OBVIOUS
<1>3. QED
  BY <1>1, <1>2

\* The XDR and the signatures of the row that a step sends, signs or stores.
LEMMA SignFacts ==
  ASSUME TypeOK, NEW h \in Handlers, NEW r \in Rows, NEW s \in Signers, Sign(h, r, s)
  PROVE  /\ ReqBecomes(h, req'[h]) /\ Busy(h)' /\ At(h, "sign")' /\ req'[h].row = r
         /\ req'[h].xdr = row[r].xdr
         /\ Signed(h)' = row[r].sigs \cup {[by |-> s, over |-> row[r].xdr]}
<1>1. "sign" \in Places /\ {s} \in SUBSET Signers
  BY DEF Places
<1>2. ReqBecomes(h, [at |-> "sign", row |-> r, by |-> {s}, xdr |-> row[r].xdr, sigs |-> row[r].sigs])
  BY <1>1, KeepFacts DEF Sign
<1>3. [by : {s}, over : {row[r].xdr}] = {[by |-> s, over |-> row[r].xdr]}
  BY OneSignature
<1>4. QED
  BY <1>2, <1>3 DEF ReqBecomes, Busy, Idle, At, Signed

LEMMA LoadFacts ==
  ASSUME TypeOK, NEW h \in Handlers, LoadSends(h)
  PROVE  LET r == req[h].row IN
         /\ r \in Rows /\ Busy(h) /\ At(h, "submit")
         /\ ReqBecomes(h, req'[h]) /\ Busy(h)' /\ At(h, "send")' /\ req'[h].row = r
         /\ req'[h].xdr = row[r].xdr /\ req'[h].sigs = row[r].sigs
         /\ UNCHANGED <<row, sent>>
<1>1. req[h].row \in Rows /\ Busy(h) /\ At(h, "submit")
  BY ReqFacts DEF LoadSends, Load, At
<1>2. "send" \in Places /\ {} \in SUBSET Signers
  BY DEF Places
<1>3. LET r == req[h].row IN
      ReqBecomes(h, [at |-> "send", row |-> r, by |-> {}, xdr |-> row[r].xdr, sigs |-> row[r].sigs])
  BY <1>1, <1>2, KeepFacts DEF LoadSends
<1>4. QED
  BY <1>1, <1>3 DEF ReqBecomes, Busy, Idle, At, LoadSends, Load, network

LEMMA SendFacts ==
  ASSUME TypeOK, Present, NEW h \in Handlers, Send(h)
  PROVE  /\ Busy(h) /\ At(h, "send") /\ req[h].row \in Rows /\ RowsKept
         /\ \A g \in Handlers : g # h => req'[g] = req[g]
         /\ req'[h].at = "await" /\ req'[h].row = req[h].row
         /\ sent' = sent \cup {[row |-> req[h].row, xdr |-> req[h].xdr, sigs |-> req[h].sigs, queued |-> TRUE]}
<1>1. Busy(h) /\ req[h] \in Request /\ req[h].row \in Rows /\ At(h, "send")
  BY ReqFacts DEF Send, At
<1>2. RowsKept
  BY <1>1, StatusFacts DEF Send, Present
<1>3. req'[h] = [req[h] EXCEPT !.at = "await", !.sigs = {}] /\ \A g \in Handlers : g # h => req'[g] = req[g]
  BY DEF TypeOK, Send
<1>4. req'[h].at = "await" /\ req'[h].row = req[h].row
  BY <1>1, <1>3 DEF Request
<1>5. QED
  BY <1>1, <1>2, <1>3, <1>4 DEF Send

LEMMA PresentStep ==
  ASSUME TypeOK, Present, Tracked, [Next]_vars
  PROVE  Present'
<1>1. \A m \in sent : m.row \in Rows
  BY DEF TypeOK, Sent
<1>2. ASSUME \A r \in Rows : row[r].status # "none" => row'[r].status # "none",
             \A h \in Handlers : \/ req'[h] = req[h] \/ req'[h] = Idle
                                 \/ req'[h].row \in Rows /\ row[req'[h].row].status # "none",
             \A m \in sent' : m \in sent \/ (m.row \in Rows /\ row[m.row].status # "none")
      PROVE  Present'
  BY <1>1, <1>2, ReqFacts DEF Present, Busy
<1>3. TypeOK'
  BY TypeStep
<1>4. CASE Quiet
  <2>1. \A h \in Handlers : req'[h] # Idle => req'[h].row \in Rows
    BY <1>3 DEF TypeOK, Request
  <2>2. \A m \in sent' : m.row \in Rows
    BY <1>3 DEF TypeOK, Sent
  <2>3. QED
    BY <1>2, <1>4, <2>1, <2>2 DEF Quiet, RowsKept, QuietReq, QuietSent
<1>5. ASSUME NEW r \in Rows, Joins(r), QuietReq, QuietSent
      PROVE  Present'
  <2>1. \A h \in Handlers : req'[h] # Idle => req'[h].row \in Rows
    BY <1>3 DEF TypeOK, Request
  <2>2. \A m \in sent' : m.row \in Rows
    BY <1>3 DEF TypeOK, Sent
  <2>3. QED
    BY <1>2, <1>5, <2>1, <2>2, JoinFacts DEF QuietReq, QuietSent
<1>6. ASSUME NEW r \in Rows, Rebuild(r)
      PROVE  Present'
  <2>1. \A n \in Rows : row'[n].status = row[n].status
    BY <1>6, RebuildFacts
  <2>2. QED
    BY <1>2, <1>6, <2>1 DEF Rebuild, network
<1>7. ASSUME NEW h \in Handlers, NEW r \in Rows, NEW s \in Signers, Sign(h, r, s)
      PROVE  Present'
  <2>1. req'[h].row = r /\ \A g \in Handlers : g # h => req'[g] = req[g]
    BY <1>7, SignFacts DEF ReqBecomes
  <2>2. row[r].status # "none"
    BY <1>7 DEF Sign, Waiting
  <2>3. QED
    BY <1>2, <1>7, <2>1, <2>2 DEF Sign, network
<1>8. ASSUME NEW h \in Handlers, StoreSignature(h)
      PROVE  Present'
  <2> DEFINE r == req[h].row
  <2>1. r \in Rows /\ row[r].status # "none"
    BY <1>8, ReqFacts DEF StoreSignature, At, Present
  <2>2. \A n \in Rows : row[n].status # "none" => row'[n].status # "none"
    BY <1>8, <2>1, StoreFacts
  <2>3. QuietReq
    BY <1>8, <2>1, GoesQuietly DEF Answers, StoreSignature, Places
  <2>4. req'[h] # Idle => req'[h].row = r
    BY <1>8, <2>1 DEF TypeOK, StoreSignature, Done, Go
  <2>5. \A g \in Handlers : g # h => req'[g] = req[g]
    BY <1>8, <2>1, DoneFacts, GoFacts DEF StoreSignature, ReqBecomes, Places
  <2>6. QED
    BY <1>2, <1>8, <2>1, <2>2, <2>4, <2>5 DEF StoreSignature, network
<1>9. ASSUME NEW h \in Handlers, LoadSends(h)
      PROVE  Present'
  BY <1>2, <1>9, LoadFacts DEF Present, ReqBecomes
<1>10. ASSUME NEW h \in Handlers, Send(h)
       PROVE  Present'
  BY <1>2, <1>10, SendFacts DEF Present, RowsKept
<1>11. QED
  BY <1>4, <1>5, <1>6, <1>7, <1>8, <1>9, <1>10, Kinds

LEMMA SentGrows ==
  ASSUME TypeOK, Present, Tracked, [Next]_vars
  PROVE  sent \subseteq sent' /\ \A r \in Rows : Posts(r) # {} => Posts(r)' # {}
<1>1. sent \subseteq sent'
  BY Kinds, SignFacts, LoadFacts, SendFacts
  DEF Quiet, QuietSent, Rebuild, Sign, StoreSignature, network
<1>2. QED
  BY <1>1 DEF Posts

LEMMA TrackedStep ==
  ASSUME TypeOK, Present, Tracked, [Next]_vars
  PROVE  Tracked'
<1>1. \A r \in Rows : Posts(r) # {} => Posts(r)' # {}
  BY SentGrows
<1>2. ASSUME NEW h \in Handlers, req'[h].at \in Answers
      PROVE  req'[h] = req[h] \/ Posts(req[h].row)' # {}
  <2>1. ASSUME QuietReq
        PROVE  req'[h] = req[h] \/ Posts(req[h].row)' # {}
    BY <1>2, <2>1 DEF QuietReq, Answers, Idle, Posts
  <2>2. ASSUME NEW g \in Handlers, StoreSignature(g)
        PROVE  QuietReq
    <3>1. req[g].row \in Rows /\ row[req[g].row].status # "none"
      BY <2>2, ReqFacts DEF StoreSignature, At, Present
    <3>2. QED
      BY <2>2, <3>1, GoesQuietly DEF Answers, StoreSignature, Places
  <2>3. ASSUME NEW g \in Handlers, \/ \E r \in Rows, s \in Signers : Sign(g, r, s)
                                   \/ LoadSends(g) \/ Send(g)
        PROVE  req'[h] = req[h]
    BY <1>2, <2>3, SignFacts, LoadFacts, SendFacts DEF ReqBecomes, Answers, At
  <2>4. QED
    BY <2>1, <2>2, <2>3, Kinds DEF Quiet, Rebuild
<1>3. ASSUME NEW h \in Handlers, At(h, "awaitSigned")' \/ At(h, "recordSigned")'
      PROVE  Posts(req[h].row)' # {}
  <2>1. req'[h].at \in Answers
    BY <1>3 DEF At, Answers
  <2>2. CASE req'[h] = req[h]
    <3>1. req[h].row \in Rows /\ Posts(req[h].row) # {}
      BY <2>1, <2>2, ReqFacts DEF Answers, Tracked, At
    <3>2. ASSUME NEW r \in Rows, r = req[h].row
          PROVE  Posts(r)' # {}
      BY <1>1, <3>1, <3>2
    <3>3. QED
      BY <2>2, <3>1, <3>2 DEF Posts
  <2>3. QED
    BY <1>2, <2>1, <2>2
<1>4. ASSUME NEW r \in Rows
      PROVE  IF row'[r].status = "none" THEN built'[r] = 1
             ELSE Posts(r)' = {} => row'[r].xdr.build = built'[r]
  <2>1. ASSUME RowsKept, UNCHANGED built
        PROVE  IF row'[r].status = "none" THEN built'[r] = 1
               ELSE Posts(r)' = {} => row'[r].xdr.build = built'[r]
    BY <1>1, <2>1 DEF RowsKept, Tracked
  <2>2. ASSUME NEW n \in Rows, Joins(n), UNCHANGED built
        PROVE  IF row'[r].status = "none" THEN built'[r] = 1
               ELSE Posts(r)' = {} => row'[r].xdr.build = built'[r]
    BY <1>1, <2>2, JoinFacts DEF Tracked
  <2>3. ASSUME NEW n \in Rows, Rebuild(n)
        PROVE  IF row'[r].status = "none" THEN built'[r] = 1
               ELSE Posts(r)' = {} => row'[r].xdr.build = built'[r]
    <3>1. row[n].status # "none"
      BY <2>3 DEF Rebuild
    <3>2. QED
      BY <1>1, <2>3, <3>1, RebuildFacts DEF Tracked
  <2>4. ASSUME NEW h \in Handlers, StoreSignature(h)
        PROVE  IF row'[r].status = "none" THEN built'[r] = 1
               ELSE Posts(r)' = {} => row'[r].xdr.build = built'[r]
    <3>1. row[req[h].row].status # "none" /\ UNCHANGED built
      BY <2>4, ReqFacts DEF StoreSignature, At, Present
    <3>2. QED
      BY <1>1, <2>4, <3>1, StoreFacts DEF Tracked
  <2>5. ASSUME NEW h \in Handlers, \/ \E n \in Rows, s \in Signers : Sign(h, n, s)
                                   \/ LoadSends(h)
        PROVE  UNCHANGED <<row, built>>
    BY <2>5 DEF Sign, LoadSends, Load
  <2>6. ASSUME NEW h \in Handlers, Send(h)
        PROVE  RowsKept /\ UNCHANGED built
    BY <2>6, SendFacts DEF Send
  <2>7. ASSUME UNCHANGED row
        PROVE  RowsKept
    BY <2>7 DEF RowsKept
  <2>8. QED
    BY <2>1, <2>2, <2>3, <2>4, <2>5, <2>6, <2>7, Kinds DEF Quiet
<1>5. QED
  BY <1>3, <1>4 DEF Tracked

LEMMA OneMore ==
  ASSUME NEW S, OneEach(S), NEW s, \A sig \in S : sig.by # s, NEW x
  PROVE  OneEach(S \cup {[by |-> s, over |-> x]})
<1>1. IsFiniteSet(S \cup {[by |-> s, over |-> x]})
  BY FS_AddElement DEF OneEach
<1>2. QED
  BY <1>1 DEF OneEach

LEMMA CollectedStep ==
  ASSUME TypeOK, Present, Tracked, Collected, [Next]_vars
  PROVE  Collected'
<1>1. CASE Quiet
  <2>1. \A r \in Rows : row'[r].sigs = row[r].sigs /\ (row'[r].status = "ready" => row[r].status = "ready")
    BY <1>1 DEF Quiet, RowsKept
  <2>2. \A h \in Handlers : At(h, "sign")' \/ At(h, "send")' => req'[h] = req[h]
    BY <1>1 DEF Quiet, QuietReq, At, Idle
  <2>3. \A m \in sent' : m.queued => m \in sent
    BY <1>1 DEF Quiet, QuietSent
  <2>4. \A h \in Handlers : At(h, "sign")' => At(h, "sign") /\ Signed(h)' = Signed(h)
    BY <2>2 DEF At, Signed
  <2>5. QED
    BY <2>1, <2>2, <2>3, <2>4 DEF Collected, At
<1>2. ASSUME NEW r \in Rows, Joins(r), QuietReq, QuietSent
      PROVE  Collected'
  <2>1. row'[r].sigs = {} /\ row'[r].status = "pending" /\ \A n \in Rows : n # r => row'[n] = row[n]
    BY <1>2, JoinFacts
  <2>2. OneEach({})
    BY FS_EmptySet DEF OneEach
  <2>3. \A h \in Handlers : At(h, "sign")' \/ At(h, "send")' => req'[h] = req[h]
    BY <1>2 DEF QuietReq, At, Idle
  <2>4. \A m \in sent' : m.queued => m \in sent
    BY <1>2 DEF QuietSent
  <2>5. \A h \in Handlers : At(h, "sign")' => At(h, "sign") /\ Signed(h)' = Signed(h)
    BY <2>3 DEF At, Signed
  <2>6. QED
    BY <2>1, <2>2, <2>3, <2>4, <2>5 DEF Collected, At
<1>3. ASSUME NEW r \in Rows, Rebuild(r)
      PROVE  Collected'
  <2>1. \A n \in Rows : row'[n].status = row[n].status /\ row'[n].sigs = row[n].sigs
    BY <1>3, RebuildFacts
  <2>2. UNCHANGED <<req, sent>>
    BY <1>3 DEF Rebuild, network
  <2>3. QED
    BY <2>1, <2>2 DEF Collected, At, Signed
<1>4. ASSUME NEW h \in Handlers, NEW r \in Rows, NEW s \in Signers, Sign(h, r, s)
      PROVE  Collected'
  <2>1. OneEach(Signed(h)')
    <3>1. OneEach(row[r].sigs) /\ \A sig \in row[r].sigs : sig.by # s
      BY <1>4 DEF Sign, Collected
    <3>2. OneEach(row[r].sigs \cup {[by |-> s, over |-> row[r].xdr]})
      BY <3>1, OneMore
    <3>3. QED
      BY <1>4, <3>2, SignFacts
  <2>2. /\ At(h, "sign")' /\ \A g \in Handlers : g # h => req'[g] = req[g]
        /\ UNCHANGED <<row, sent>>
    BY <1>4, SignFacts DEF ReqBecomes, Sign, network
  <2>3. QED
    BY <2>1, <2>2 DEF Collected, At, Signed
<1>5. ASSUME NEW h \in Handlers, StoreSignature(h)
      PROVE  Collected'
  <2> DEFINE r == req[h].row
  <2>1. r \in Rows /\ row[r].status # "none"
    BY <1>5, ReqFacts DEF StoreSignature, At, Present
  <2>2. QuietReq /\ UNCHANGED sent
    BY <1>5, <2>1, GoesQuietly DEF Answers, StoreSignature, Places, network
  <2>3. /\ \A n \in Rows : n # r => row'[n] = row[n]
        /\ row'[r].sigs = Signed(h)
        /\ row'[r].status = "ready" => Enough(r, Signed(h))
    BY <1>5, StoreFacts DEF ThresholdMet, Enough
  <2>4. OneEach(Signed(h))
    BY <1>5 DEF StoreSignature, Collected
  <2>5. \A g \in Handlers : At(g, "sign")' \/ At(g, "send")' => req'[g] = req[g]
    BY <2>2 DEF QuietReq, At, Idle
  <2>6. \A g \in Handlers : At(g, "sign")' => At(g, "sign") /\ Signed(g)' = Signed(g)
    BY <2>5 DEF At, Signed
  <2>7. QED
    BY <2>1, <2>2, <2>3, <2>4, <2>5, <2>6 DEF Collected, At
<1>6. ASSUME NEW h \in Handlers, LoadSends(h)
      PROVE  Collected'
  <2> DEFINE r == req[h].row
  <2>1. /\ r \in Rows /\ \A g \in Handlers : g # h => req'[g] = req[g]
        /\ At(h, "send")' /\ req'[h].row = r /\ req'[h].xdr = row[r].xdr /\ req'[h].sigs = row[r].sigs
        /\ UNCHANGED <<row, sent>>
    BY <1>6, LoadFacts DEF ReqBecomes
  <2>2. OneEach(row[r].sigs) /\ Enough(r, row[r].sigs) /\ Over(row[r].sigs, row[r].xdr)
    BY <1>6, <2>1 DEF LoadSends, Matching, Over, Collected
  <2>3. ~At(h, "sign")'
    BY <2>1 DEF At
  <2>4. QED
    BY <2>1, <2>2, <2>3 DEF Collected, At, Signed
<1>7. ASSUME NEW h \in Handlers, Send(h)
      PROVE  Collected'
  <2>1. /\ At(h, "send") /\ \A g \in Handlers : g # h => req'[g] = req[g]
        /\ req'[h].at = "await" /\ RowsKept
        /\ sent' = sent \cup {[row |-> req[h].row, xdr |-> req[h].xdr, sigs |-> req[h].sigs, queued |-> TRUE]}
    BY <1>7, SendFacts
  <2>2. \A g \in Handlers : At(g, "sign")' \/ At(g, "send")' => req'[g] = req[g]
    BY <2>1 DEF At
  <2>3. \A g \in Handlers : At(g, "sign")' => At(g, "sign") /\ Signed(g)' = Signed(g)
    BY <2>2 DEF At, Signed
  <2>4. QED
    BY <2>1, <2>2, <2>3 DEF Collected, At, RowsKept
<1>8. QED
  BY <1>1, <1>2, <1>3, <1>4, <1>5, <1>6, <1>7, Kinds

\* A row on which nothing is chosen or being signed anew, and a newer or a same set of signatures.
LEMMA SettledIf ==
  ASSUME TypeOK, Present, Settled, TypeOK',
         \A r \in Rows : Posts(r) # {} => Posts(r)' # {},
         \A r \in Rows, x \in Xdr : Chosen(r, x)' => Chosen(r, x),
         \A h \in Handlers : At(h, "sign")' => req'[h] = req[h],
         \A r \in Rows : \/ row'[r].xdr = row[r].xdr \/ row'[r].xdr.build = row[r].xdr.build + 1
                         \/ row[r].status = "none" \/ Posts(r) # {},
         \A r \in Rows, x \in Xdr : Chosen(r, x) /\ Posts(r) = {} => Old(row'[r].sigs, x)
  PROVE  Settled'
<1>1. \A r \in Rows, x \in Xdr : Chosen(r, x) => row[r].status # "none"
  BY ReqFacts DEF Present, Chosen, At
<1>2. \A r \in Rows, x \in Xdr :
        row[r].status # "none" /\ Posts(r) = {} /\ Current(r, x) => Current(r, x)'
  <2>1. ASSUME NEW r \in Rows, NEW x \in Xdr, row[r].status # "none", Posts(r) = {}, Current(r, x)
        PROVE  Current(r, x)'
    <3>1. x.build \in 0..MaxBuilds /\ row[r].xdr.build \in 0..MaxBuilds
      BY RowFacts DEF Xdr
    <3>2. QED
      BY <2>1, <3>1, Parameters DEF Current
  <2>2. QED
    BY <2>1
<1>3. ASSUME NEW h \in Handlers, At(h, "sign")'
      PROVE  At(h, "sign") /\ Signed(h)' = Signed(h) /\ req'[h] = req[h] /\ req[h].row \in Rows
  <2>1. At(h, "sign") /\ Signed(h)' = Signed(h) /\ req'[h] = req[h]
    BY <1>3 DEF At, Signed
  <2>2. QED
    BY <2>1, ReqFacts DEF At
<1>4. ASSUME NEW h \in Handlers, At(h, "sign")', Posts(req[h].row)' = {}
      PROVE  Current(req[h].row, req[h].xdr)' /\ Old(Signed(h)', req'[h].xdr)
  <2>1. At(h, "sign") /\ Signed(h)' = Signed(h) /\ req'[h] = req[h] /\ req[h].row \in Rows
    BY <1>3, <1>4
  <2>0. Posts(req[h].row) = {}
    <3>1. ASSUME NEW r \in Rows, r = req[h].row
          PROVE  Posts(r)' = {}
      BY <1>4, <2>1, <3>1 DEF Posts
    <3>2. QED
      BY <2>1, <3>1
  <2>2. Busy(h) /\ req[h].xdr \in Xdr /\ Posts(req[h].row) = {}
    BY <2>0, <2>1, ReqFacts DEF At
  <2>3. /\ row[req[h].row].status # "none"
        /\ Current(req[h].row, req[h].xdr) /\ Old(Signed(h), req[h].xdr)
    BY <2>1, <2>2 DEF Settled, Present
  <2>4. ASSUME NEW r \in Rows, NEW x \in Xdr, r = req[h].row, x = req[h].xdr
        PROVE  Current(r, x)'
    BY <1>2, <2>2, <2>3, <2>4
  <2>5. Current(req[h].row, req[h].xdr)'
    BY <2>1, <2>2, <2>4 DEF Current
  <2>6. QED
    BY <2>1, <2>3, <2>5
<1>5. ASSUME NEW r \in Rows, NEW x \in Xdr, Chosen(r, x)', Posts(r)' = {}
      PROVE  /\ Current(r, x)'
             /\ Old(row'[r].sigs, x)
             /\ \A h \in Handlers : At(h, "sign")' /\ req'[h].row = r => Old(Signed(h)', x)
             /\ \A y \in Xdr : Chosen(r, y)' => x = y
  <2>1. Chosen(r, x) /\ Posts(r) = {}
    BY <1>5
  <2>2. QED
    BY <1>1, <1>2, <1>3, <2>1 DEF Settled
<1>6. QED
  BY <1>4, <1>5 DEF Settled

LEMMA SettledStep ==
  ASSUME TypeOK, Present, Tracked, Collected, Settled, [Next]_vars
  PROVE  Settled'
<1>0. TypeOK' /\ \A r \in Rows, x \in Xdr : Chosen(r, x) => row[r].status # "none"
  BY TypeStep, ReqFacts DEF Present, Chosen, At
<1>00. \A r \in Rows : Posts(r) # {} => Posts(r)' # {}
  BY SentGrows
<1>1. CASE Quiet
  <2>1. \A h \in Handlers : At(h, "sign")' \/ At(h, "send")' => req'[h] = req[h]
    BY <1>1 DEF Quiet, QuietReq, At, Idle
  <2>2. \A r \in Rows, x \in Xdr : Chosen(r, x)' => Chosen(r, x)
    BY <1>1, <2>1 DEF Quiet, QuietSent, Chosen, At
  <2>3. \A r \in Rows : (row'[r].xdr = row[r].xdr \/ Posts(r) # {}) /\ row'[r].sigs = row[r].sigs
    BY <1>1 DEF Quiet, RowsKept
  <2>4. \A r \in Rows, x \in Xdr : Chosen(r, x) /\ Posts(r) = {} => Old(row'[r].sigs, x)
    BY <2>3 DEF Settled
  <2>5. QED
    BY <1>0, <1>00, <2>1, <2>2, <2>3, <2>4, SettledIf
<1>2. ASSUME NEW r \in Rows, (Joins(r) /\ QuietReq /\ QuietSent /\ UNCHANGED built) \/ Rebuild(r)
      PROVE  Settled'
  <2>1. QuietReq /\ QuietSent /\ \A n \in Rows : n # r => row'[n] = row[n]
    BY <1>2, JoinFacts, RebuildFacts DEF Rebuild, network, QuietReq, QuietSent
  <2>2. \A h \in Handlers : At(h, "sign")' \/ At(h, "send")' => req'[h] = req[h]
    BY <2>1 DEF QuietReq, At, Idle
  <2>3. \A n \in Rows, x \in Xdr : Chosen(n, x)' => Chosen(n, x)
    BY <2>1, <2>2 DEF QuietSent, Chosen, At
  <2>4. \/ row[r].status = "none" \/ Posts(r) # {}
        \/ row'[r].sigs = row[r].sigs /\ row'[r].xdr.build = row[r].xdr.build + 1
    BY <1>2, JoinFacts, RebuildFacts DEF Rebuild, Tracked
  <2>5. \A n \in Rows, x \in Xdr : Chosen(n, x) /\ Posts(n) = {} => Old(row'[n].sigs, x)
    BY <1>0, <1>00, <2>1, <2>4 DEF Settled
  <2>6. \A n \in Rows : row'[n].xdr = row[n].xdr \/ row'[n].xdr.build = row[n].xdr.build + 1
                          \/ row[n].status = "none" \/ Posts(n) # {}
    BY <2>1, <2>4
  <2>7. QED
    BY <1>0, <1>00, <2>2, <2>3, <2>5, <2>6, SettledIf
<1>3. ASSUME NEW h \in Handlers, Send(h)
      PROVE  Settled'
  <2>1. /\ At(h, "send") /\ \A g \in Handlers : g # h => req'[g] = req[g]
        /\ req'[h].at = "await" /\ RowsKept
        /\ sent' = sent \cup {[row |-> req[h].row, xdr |-> req[h].xdr, sigs |-> req[h].sigs, queued |-> TRUE]}
    BY <1>3, SendFacts
  <2>2. \A g \in Handlers : At(g, "sign")' \/ At(g, "send")' => req'[g] = req[g]
    BY <2>1 DEF At
  <2>3. \A r \in Rows, x \in Xdr : Chosen(r, x)' => Chosen(r, x)
    BY <2>1, <2>2 DEF Chosen, At
  <2>4. \A r \in Rows : (row'[r].xdr = row[r].xdr \/ Posts(r) # {}) /\ row'[r].sigs = row[r].sigs
    BY <2>1 DEF RowsKept
  <2>5. \A r \in Rows, x \in Xdr : Chosen(r, x) /\ Posts(r) = {} => Old(row'[r].sigs, x)
    BY <2>4 DEF Settled
  <2>6. QED
    BY <1>0, <1>00, <2>2, <2>3, <2>4, <2>5, SettledIf
<1>4. ASSUME NEW h \in Handlers, StoreSignature(h)
      PROVE  Settled'
  <2> DEFINE r == req[h].row
  <2>1. r \in Rows /\ row[r].status # "none" /\ At(h, "sign")
    BY <1>4, ReqFacts DEF StoreSignature, At, Present
  <2>2. QuietReq /\ UNCHANGED sent
    BY <1>4, <2>1, GoesQuietly DEF Answers, StoreSignature, Places, network
  <2>3. \A g \in Handlers : At(g, "sign")' \/ At(g, "send")' => req'[g] = req[g]
    BY <2>2 DEF QuietReq, At, Idle
  <2>4. \A n \in Rows, x \in Xdr : Chosen(n, x)' => Chosen(n, x)
    BY <2>2, <2>3 DEF Chosen, At
  <2>5. /\ \A n \in Rows : n # r => row'[n] = row[n]
        /\ row'[r].sigs = Signed(h) /\ row'[r].xdr = row[r].xdr
    BY <1>4, StoreFacts
  <2>6. \A n \in Rows, x \in Xdr : Chosen(n, x) /\ Posts(n) = {} => Old(row'[n].sigs, x)
    BY <2>1, <2>5 DEF Settled
  <2>7. QED
    BY <1>0, <1>00, <2>3, <2>4, <2>5, <2>6, SettledIf
<1>5. ASSUME NEW h \in Handlers, NEW r \in Rows, NEW s \in Signers, Sign(h, r, s)
      PROVE  Settled'
  <2>1. /\ At(h, "sign")' /\ req'[h].row = r /\ req'[h].xdr = row[r].xdr
        /\ Signed(h)' = row[r].sigs \cup {[by |-> s, over |-> row[r].xdr]}
        /\ \A g \in Handlers : g # h => req'[g] = req[g]
        /\ UNCHANGED <<row, sent>> /\ At(h, "idle")
    BY <1>5, SignFacts DEF ReqBecomes, Sign, network
  <2>2. \A n \in Rows, x \in Xdr : Chosen(n, x)' => Chosen(n, x)
    BY <2>1 DEF Chosen, At
  <2>3. ASSUME NEW x \in Xdr, Old(row[r].sigs, x)
        PROVE  Old(Signed(h)', x)
    BY <2>1, <2>3 DEF Old
  <2>4. \A n \in Rows, x \in Xdr : Current(n, x)' <=> Current(n, x)
    BY <2>1 DEF Current
  <2>5. row[r].xdr \in Xdr /\ row[r].xdr.build \in 0..MaxBuilds
    BY RowFacts
  <2>6. Current(req[h].row, req[h].xdr)' /\ Old(Signed(h)', req'[h].xdr)
    <3> DEFINE sig == [by |-> s, over |-> row[r].xdr]
    <3>1. row[r].xdr.build <= row[r].xdr.build
      BY <2>5, Parameters
    <3>2. Current(r, row[r].xdr) /\ Old({sig}, row[r].xdr)
      BY <3>1 DEF Current, Old
    <3>3. Current(req[h].row, req[h].xdr)'
      BY <2>1, <3>2 DEF Current
    <3>4. Old(Signed(h)', row[r].xdr)
      BY <2>1, <3>2 DEF Old
    <3>5. QED
      BY <2>1, <3>3, <3>4
  <2>7. \A g \in Handlers : g # h => (At(g, "sign")' <=> At(g, "sign")) /\ Signed(g)' = Signed(g)
    BY <2>1 DEF At, Signed
  <2>0. \A n \in Rows : Posts(n)' = Posts(n)
    BY <2>1 DEF Posts
  <2>8. ASSUME NEW g \in Handlers, At(g, "sign")', Posts(req[g].row)' = {}
        PROVE  Current(req[g].row, req[g].xdr)' /\ Old(Signed(g)', req'[g].xdr)
    <3>1. CASE g = h
      BY <2>6, <3>1
    <3>2. CASE g # h
      <4>1. Posts(req[g].row) = {}
        BY <2>1, <2>8, <3>2 DEF Posts
      <4>2. QED
        BY <2>1, <2>7, <2>8, <3>2, <4>1 DEF Settled, Current
    <3>3. QED
      BY <3>1, <3>2
  <2>9. ASSUME NEW n \in Rows, NEW x \in Xdr, Chosen(n, x)', Posts(n)' = {}
        PROVE  /\ Current(n, x)'
               /\ Old(row'[n].sigs, x)
               /\ \A g \in Handlers : At(g, "sign")' /\ req'[g].row = n => Old(Signed(g)', x)
               /\ \A y \in Xdr : Chosen(n, y)' => x = y
    <3>1. Chosen(n, x) /\ Posts(n) = {}
      BY <2>0, <2>2, <2>9
    <3>2. ASSUME NEW g \in Handlers, At(g, "sign")', req'[g].row = n
          PROVE  Old(Signed(g)', x)
      <4>1. CASE g = h
        BY <2>1, <2>3, <3>1, <3>2, <4>1 DEF Settled
      <4>2. CASE g # h
        BY <2>1, <2>7, <3>1, <3>2, <4>2 DEF Settled
      <4>3. QED
        BY <4>1, <4>2
    <3>3. QED
      BY <2>1, <2>2, <2>4, <3>1, <3>2 DEF Settled
  <2>10. QED
    BY <2>8, <2>9 DEF Settled
<1>6. ASSUME NEW h \in Handlers, LoadSends(h)
      PROVE  Settled'
  <2> DEFINE r == req[h].row
             x == row[r].xdr
  <2>1. /\ r \in Rows /\ \A g \in Handlers : g # h => req'[g] = req[g]
        /\ At(h, "send")' /\ req'[h].row = r /\ req'[h].xdr = x
        /\ UNCHANGED <<row, sent>>
    BY <1>6, LoadFacts DEF ReqBecomes
  <2>2. Over(row[r].sigs, x) /\ Enough(r, row[r].sigs) /\ IsFiniteSet(row[r].sigs)
    BY <1>6, <2>1 DEF LoadSends, Matching, Over, Collected, OneEach
  <2>3. row[r].sigs # {}
    BY <2>1, <2>2, Parameters, FS_EmptySet DEF Enough
  <2>4. x \in Xdr /\ x.build \in 0..MaxBuilds
    BY <2>1, RowFacts
  <2>5. Old(row[r].sigs, x)
    BY <2>2, <2>3, <2>4, Parameters DEF Over, Old
  <2>0. \A n \in Rows : Posts(n)' = Posts(n)
    BY <2>1 DEF Posts
  <2>6. ASSUME NEW y \in Xdr, Chosen(r, y), Posts(r) = {}
        PROVE  x = y
    <3>1. Current(r, y) /\ Old(row[r].sigs, y)
      BY <2>1, <2>6 DEF Settled
    <3>2. x.build <= y.build
      BY <2>2, <3>1 DEF Over, Old
    <3>3. y.build \in 0..MaxBuilds
      BY DEF Xdr
    <3>4. QED
      BY <2>4, <3>1, <3>2, <3>3, Parameters DEF Current
  <2>7. ASSUME NEW g \in Handlers, At(g, "sign"), req[g].row = r, Posts(r) = {}
        PROVE  Old(Signed(g), x)
    <3>1. Current(r, req[g].xdr)
      BY <2>7 DEF Settled
    <3>2. Busy(g) /\ req[g] \in Request
      BY <2>7, ReqFacts DEF At
    <3>3. PICK sig \in Signed(g) : sig.over.build <= req[g].xdr.build
      BY <2>7 DEF Settled, Old
    <3>4. sig.over.build \in 0..MaxBuilds /\ req[g].xdr.build \in 0..MaxBuilds
      BY <3>2, <3>3, SignedFacts DEF Signature, Request, Xdr
    <3>5. sig.over.build <= x.build
      BY <2>4, <3>1, <3>3, <3>4, Parameters DEF Current
    <3>6. QED
      BY <3>5 DEF Old
  <2>8. \A n \in Rows, y \in Xdr : Chosen(n, y)' => Chosen(n, y) \/ (n = r /\ y = x)
    BY <2>1 DEF Chosen, At
  <2>9. \A g \in Handlers : At(g, "sign")' => At(g, "sign") /\ req'[g] = req[g] /\ Signed(g)' = Signed(g)
    BY <2>1 DEF At, Signed
  <2>10. \A n \in Rows, y \in Xdr : Current(n, y)' <=> Current(n, y)
    BY <2>1 DEF Current
  <2>11. Current(r, x)
    BY <2>4, Parameters DEF Current
  <2>12. ASSUME NEW g \in Handlers, At(g, "sign")', Posts(req[g].row)' = {}
         PROVE  Current(req[g].row, req[g].xdr)' /\ Old(Signed(g)', req'[g].xdr)
    <3>1. Posts(req[g].row) = {}
      BY <2>1, <2>9, <2>12 DEF Posts
    <3>2. QED
      BY <2>1, <2>9, <2>12, <3>1 DEF Settled, Current
  <2>13. ASSUME NEW n \in Rows, NEW y \in Xdr, Chosen(n, y)', Posts(n)' = {}
         PROVE  /\ Current(n, y)'
                /\ Old(row'[n].sigs, y)
                /\ \A g \in Handlers : At(g, "sign")' /\ req'[g].row = n => Old(Signed(g)', y)
                /\ \A z \in Xdr : Chosen(n, z)' => y = z
    <3>0. Posts(n) = {}
      BY <2>0, <2>13
    <3>1. CASE Chosen(n, y) /\ ~(n = r /\ y = x)
      <4>1. \A z \in Xdr : Chosen(n, z)' => y = z
        BY <2>6, <2>8, <3>0, <3>1 DEF Settled
      <4>2. QED
        BY <2>1, <2>9, <2>10, <3>0, <3>1, <4>1 DEF Settled
    <3>2. CASE n = r /\ y = x
      <4>1. \A z \in Xdr : Chosen(n, z)' => y = z
        BY <2>6, <2>8, <3>0, <3>2
      <4>2. \A g \in Handlers : At(g, "sign")' /\ req'[g].row = n => Old(Signed(g)', y)
        BY <2>7, <2>9, <3>0, <3>2
      <4>3. QED
        BY <2>1, <2>5, <2>10, <2>11, <3>2, <4>1, <4>2
    <3>3. QED
      BY <2>8, <2>13, <3>1, <3>2
  <2>14. QED
    BY <2>12, <2>13 DEF Settled
<1>7. QED
  BY <1>1, <1>2, <1>3, <1>4, <1>5, <1>6, Kinds

-----------------------------------------------------------------------------
\* Enough signatures over an XDR are signatures of that many signers over it.
LEMMA Approved ==
  ASSUME TypeOK, Collected
  PROVE  SentWasApproved
<1> SUFFICES ASSUME NEW m \in sent, m.queued
             PROVE  Cardinality({s \in Signers : [by |-> s, over |-> m.xdr] \in m.sigs}) >= Threshold[m.row]
  BY DEF SentWasApproved
<1> DEFINE S == {s \in Signers : [by |-> s, over |-> m.xdr] \in m.sigs}
           f == [sig \in m.sigs |-> sig.by]
<1>1. m.sigs \subseteq Signature /\ m.row \in Rows
  BY DEF TypeOK, Sent
<1>2. OneEach(m.sigs) /\ Enough(m.row, m.sigs) /\ Over(m.sigs, m.xdr)
  BY DEF Collected
<1>3. \A sig \in m.sigs : sig.by \in Signers /\ sig = [by |-> sig.by, over |-> m.xdr]
  BY <1>1, <1>2 DEF Over, Signature
<1>4. f \in [m.sigs -> S]
  BY <1>3
<1>5. f \in Injection(m.sigs, S)
  BY <1>2, <1>4 DEF OneEach, Injection, IsInjective
<1>6. f \in Surjection(m.sigs, S)
  BY <1>4 DEF Surjection
<1>7. f \in Bijection(m.sigs, S)
  BY <1>5, <1>6 DEF Bijection
<1>8. Cardinality(S) = Cardinality(m.sigs)
  BY <1>2, <1>7, FS_Bijection DEF OneEach, ExistsBijection
<1>9. QED
  BY <1>2, <1>8 DEF Enough

\* What the queue sends of a row is all the same XDR, so it executes once.
LEMMA Once ==
  ASSUME TypeOK, Settled
  PROVE  ExecutedOnce
<1>1. \A m \in sent : m.row \in Rows /\ m.xdr \in Xdr
  BY DEF TypeOK, Sent
<1>2. \A m \in sent : m.queued => Chosen(m.row, m.xdr)
  BY DEF Chosen
<1>3. QED
  BY <1>1, <1>2 DEF Settled, ExecutedOnce

-----------------------------------------------------------------------------
Invariant == TypeOK /\ Present /\ Tracked /\ Collected /\ Settled

LEMMA InitFacts == Init => Invariant
<1>1. OneEach({})
  BY FS_EmptySet DEF OneEach
<1> SUFFICES ASSUME Init PROVE Invariant
  OBVIOUS
<1>2. NoXdr \in Xdr /\ Absent \in Row
  BY Parameters DEF NoXdr, Absent, Xdr, Row, Status
<1>3. TypeOK
  BY <1>2, Parameters DEF Init, TypeOK
<1>4. \A h \in Handlers : req[h] = Idle /\ ~At(h, "sign") /\ ~At(h, "send")
  BY DEF Init, Idle, At
<1>5. \A r \in Rows : row[r].sigs = {} /\ row[r].status = "none"
  BY DEF Init, Absent
<1>6. sent = {} /\ \A r \in Rows : built[r] = 1
  BY DEF Init
<1>7. Present /\ Tracked
  BY <1>4, <1>5, <1>6 DEF Present, Tracked, Busy, Idle, At
<1>8. Collected
  BY <1>1, <1>4, <1>5, <1>6 DEF Collected
<1>9. \A r \in Rows, x \in Xdr : ~Chosen(r, x)
  BY <1>4, <1>6 DEF Chosen
<1>10. Settled
  BY <1>4, <1>9 DEF Settled
<1>11. QED
  BY <1>3, <1>7, <1>8, <1>10 DEF Invariant

LEMMA Holds == Spec => []Invariant
<1>1. Invariant /\ [Next]_vars => Invariant'
  BY TypeStep, PresentStep, TrackedStep, CollectedStep, SettledStep DEF Invariant
<1>2. QED
  BY <1>1, InitFacts, PTL DEF Spec

\* The rows of multi_sig_transactions, the requests in work and what the network has been
\* given keep their types.
THEOREM TypeCorrect == Spec => []TypeOK
<1>1. Invariant => TypeOK
  BY DEF Invariant
<1>2. QED
  BY <1>1, Holds, PTL

\* Everything the queue sends is signed over by a threshold of different signers, for any
\* number of signers and thresholds, though signatures are stored from stale copies.
THEOREM SentIsApproved == Spec => []SentWasApproved
<1>1. Invariant => SentWasApproved
  BY Approved DEF Invariant
<1>2. QED
  BY <1>1, Holds, PTL

\* A row of the queue executes at most once, for any number of submissions, rebuilds and
\* failures: a row is never sent again with an XDR other than its first, as long as no client
\* posts a transaction to it.
THEOREM ExecutesOnce == Spec => []ExecutedOnce
<1>1. Invariant => ExecutedOnce
  BY Once DEF Invariant
<1>2. QED
  BY <1>1, Holds, PTL
=============================================================================
