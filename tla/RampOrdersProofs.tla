-------------------------- MODULE RampOrdersProofs --------------------------
(***************************************************************************)
(* Proofs about RampOrders, for any number of orders, jobs, signed         *)
(* transfers and faults.  Beside the types the inductive invariant says    *)
(* what the rows, the anchor's orders and its announcements know of each   *)
(* other (Known), that an announced ending is final (Final), what a job    *)
(* has made sure of at each place (Tracked, and Paying for the tokens),    *)
(* that a sweep visits rows (Swept), and that an order is inserted once    *)
(* (Inserted).                                                             *)
(***************************************************************************)
EXTENDS RampOrders, TLAPS

Busy(h) == job[h] # Idle

\* A row stands for an order of the anchor, whose present state has been announced.
Known ==
  /\ \A o \in Orders : local[o] # Absent => up[o] # Absent
  /\ \A u \in posted : up[u.order] # Absent
  /\ \A o \in Orders : up[o] # Absent =>
       [order |-> o, status |-> up[o].status, claim |-> up[o].claim] \in posted

\* What holds of a job at its place.
Tracks(h) ==
  LET j == job[h] IN
  /\ Busy(h) => up[j.order] # Absent
  /\ Busy(h) /\ j.at \notin {"insert", "read"} => local[j.order] # Absent
  /\ j.at = "insert" => j.status = "created"
  /\ j.at \in {"insert", "write"} => ~j.claim
  /\ j.at \in {"insert", "read", "write"} =>
       [order |-> j.order, status |-> j.status, claim |-> j.claim] \in posted

Tracked == \A h \in Workers : Tracks(h)

\* One insert per order, before anything else happens to its row and its tokens.
Inserted ==
  /\ \A h, g \in Workers :
       At(h, "insert") /\ At(g, "insert") /\ job[h].order = job[g].order => h = g
  /\ \A h \in Workers : At(h, "insert") => local[job[h].order] = Absent

\* The order is at the ending that s names.
EndsAs(o, s) ==
  /\ s \in Ended => up[o].status = s
  /\ s = "completed" => up[o].status \in {"completed", "finalized"}

\* The anchor does not take back an ending it has announced.
Final == \A u \in posted : EndsAs(u.order, u.status)

Swept == \A v \in sweep : local[v.order] # Absent

\* What a submission has made sure of: a transfer, and its record before the payment.
Pays(h) ==
  LET j == job[h] IN
  /\ j.at \in {"move", "hold"} => j.xdr # 0
  /\ j.at \in {"pay", "burn"} => OnRecord(j.order)

Paying ==
  /\ \A h \in Workers : Pays(h)
  /\ \A o \in Orders : <<o, Payment>> \in pending => OnRecord(o)

-----------------------------------------------------------------------------
\* A row that is there has all its fields.
LEMMA RowFacts ==
  ASSUME TypeOK, NEW o \in Orders
  PROVE  /\ local[o] \in Row \cup {Absent} /\ up[o] \in [status : Status, claim : BOOLEAN] \cup {Absent}
         /\ local[o].status \in Status <=> local[o] # Absent
         /\ up[o].status \in Status <=> up[o] # Absent
         /\ local[o] # Absent => local[o] \in Row
         /\ up[o] # Absent => up[o] \in [status : Status, claim : BOOLEAN]
  BY DEF TypeOK, Row, Absent, Status, Ended

\* A job that is busy has all its fields.
LEMMA JobFacts ==
  ASSUME TypeOK, NEW h \in Workers
  PROVE  /\ job[h] \in Job \cup {Idle}
         /\ Busy(h) <=> job[h] \in Job
         /\ Busy(h) <=> job[h].at # "idle"
  BY DEF TypeOK, Job, Idle, Busy, Places

\* The transitions lead from a status to a status, and only from one of a row.
LEMMA TransitionFacts ==
  ASSUME NEW h, Accepted(h)
  PROVE  local[job[h].order].status \in Status /\ ~job[h].claim
  BY DEF Accepted, AllowedTransitions, Status, Ended

\* What the ways of changing a job do to the other jobs, and to this one.
JobBecomes(h, j) ==
  /\ job' \in [Workers -> Job \cup {Idle}]
  /\ \A g \in Workers : g # h => job'[g] = job[g]
  /\ job'[h] = j

LEMMA DoneFacts ==
  ASSUME TypeOK, NEW h \in Workers, Done(h)
  PROVE  JobBecomes(h, Idle)
  BY DEF TypeOK, Done, JobBecomes

LEMMA GoFacts ==
  ASSUME TypeOK, NEW h \in Workers, Busy(h), NEW place \in Places, Go(h, place)
  PROVE  /\ JobBecomes(h, job'[h]) /\ job'[h] \in Job /\ job'[h].at = place
         /\ job'[h].order = job[h].order /\ job'[h].status = job[h].status
         /\ job'[h].claim = job[h].claim /\ job'[h].xdr = job[h].xdr
<1>1. job[h] \in Job /\ job \in [Workers -> Job \cup {Idle}]
  BY JobFacts DEF TypeOK
<1>2. job'[h] = [job[h] EXCEPT !.at = place]
  BY <1>1 DEF Go
<1>3. job'[h] \in Job
  BY <1>1, <1>2 DEF Job
<1>4. QED
  BY <1>1, <1>2, <1>3 DEF JobBecomes, Go, Job

LEMMA BeginFacts ==
  ASSUME TypeOK, NEW h \in Workers, NEW place \in Places, NEW o \in Orders,
         NEW x \in 0..MaxXdrs, local[o].status \in Status, Begin(h, place, o, x)
  PROVE  /\ JobBecomes(h, job'[h]) /\ job'[h] \in Job /\ job'[h].at = place
         /\ job'[h].order = o /\ job'[h].xdr = x
<1>1. job'[h] = [at |-> place, order |-> o, status |-> local[o].status, claim |-> FALSE, xdr |-> x]
  BY DEF TypeOK, Begin
<1>2. job'[h] \in Job
  BY <1>1 DEF Job
<1>3. QED
  BY <1>1, <1>2 DEF TypeOK, JobBecomes, Begin

LEMMA CarryFacts ==
  ASSUME TypeOK, NEW h \in Workers, NEW place \in Places, NEW u \in Update, Carry(h, place, u)
  PROVE  /\ JobBecomes(h, job'[h]) /\ job'[h] \in Job /\ job'[h].at = place
         /\ job'[h].order = u.order /\ job'[h].status = u.status /\ job'[h].claim = u.claim
<1>1. job'[h] = [at |-> place, order |-> u.order, status |-> u.status, claim |-> u.claim, xdr |-> 0]
  BY DEF TypeOK, Carry
<1>2. job'[h] \in Job
  BY <1>1, Parameters DEF Job, Update
<1>3. QED
  BY <1>1, <1>2 DEF TypeOK, JobBecomes, Carry

\* The anchor's side of a step.
LEMMA BecomesFacts ==
  ASSUME TypeOK, NEW o \in Orders, NEW s \in Status, NEW c \in BOOLEAN, Becomes(o, s, c)
  PROVE  /\ up' \in [Orders -> [status : Status, claim : BOOLEAN] \cup {Absent}]
         /\ posted' = posted \cup {[order |-> o, status |-> s, claim |-> c]}
         /\ posted' \subseteq Update
         /\ \A n \in Orders : n # o => up'[n] = up[n]
         /\ up'[o] = [status |-> s, claim |-> c] /\ up'[o] # Absent
<1>1. [status |-> s, claim |-> c] \in [status : Status, claim : BOOLEAN]
  OBVIOUS
<1>2. [status |-> s, claim |-> c] # Absent
  <2>1. s # "absent"
    BY DEF Status, Ended
  <2>2. QED
    BY <2>1 DEF Absent
<1>3. [order |-> o, status |-> s, claim |-> c] \in Update
  BY DEF Update
<1>4. up'[o] = [status |-> s, claim |-> c]
  BY DEF TypeOK, Becomes
<1>5. QED
  BY <1>1, <1>2, <1>3, <1>4 DEF TypeOK, Becomes

\* A change of one field of a row that is there.
LocalBecomes(o, r) ==
  /\ local' \in [Orders -> Row \cup {Absent}]
  /\ \A n \in Orders : n # o => local'[n] = local[n]
  /\ local'[o] = r /\ r # Absent

LEMMA StatusFacts ==
  ASSUME TypeOK, NEW o \in Orders, local[o] # Absent, NEW s \in Status, local' = [local EXCEPT ![o].status = s]
  PROVE  /\ LocalBecomes(o, local'[o]) /\ local'[o].status = s
         /\ local'[o].hold = local[o].hold /\ local'[o].burn = local[o].burn
<1>1. local[o] \in Row /\ local'[o] = [local[o] EXCEPT !.status = s]
  BY RowFacts DEF TypeOK
<1>2. local'[o] \in Row /\ local'[o].status = s
  BY <1>1 DEF Row
<1>3. local'[o].hold = local[o].hold /\ local'[o].burn = local[o].burn
  BY <1>1 DEF Row
<1>4. local'[o] # Absent
  <2>1. local'[o].status # "absent"
    BY <1>2 DEF Row, Status, Ended
  <2>2. QED
    BY <2>1 DEF Absent
<1>5. QED
  BY <1>2, <1>3, <1>4 DEF TypeOK, LocalBecomes

LEMMA HoldFacts ==
  ASSUME TypeOK, NEW o \in Orders, local[o] # Absent, NEW x \in 0..MaxXdrs, local' = [local EXCEPT ![o].hold = x]
  PROVE  /\ LocalBecomes(o, local'[o]) /\ local'[o].hold = x
         /\ local'[o].status = local[o].status /\ local'[o].burn = local[o].burn
<1>1. local[o] \in Row /\ local'[o] = [local[o] EXCEPT !.hold = x]
  BY RowFacts DEF TypeOK
<1>2. local'[o] \in Row /\ local'[o].hold = x
  BY <1>1 DEF Row
<1>3. local'[o].status = local[o].status /\ local'[o].burn = local[o].burn
  BY <1>1 DEF Row
<1>4. local'[o] # Absent
  <2>1. local'[o].status # "absent"
    BY <1>2 DEF Row, Status, Ended
  <2>2. QED
    BY <2>1 DEF Absent
<1>5. QED
  BY <1>2, <1>3, <1>4 DEF TypeOK, LocalBecomes

LEMMA BurnFacts ==
  ASSUME TypeOK, NEW o \in Orders, local[o] # Absent, local' = [local EXCEPT ![o].burn = TRUE]
  PROVE  /\ LocalBecomes(o, local'[o]) /\ local'[o].burn = TRUE
         /\ local'[o].status = local[o].status /\ local'[o].hold = local[o].hold
<1>1. local[o] \in Row /\ local'[o] = [local[o] EXCEPT !.burn = TRUE]
  BY RowFacts DEF TypeOK
<1>2. local'[o] \in Row /\ local'[o].burn = TRUE
  BY <1>1 DEF Row
<1>3. local'[o].status = local[o].status /\ local'[o].hold = local[o].hold
  BY <1>1 DEF Row
<1>4. local'[o] # Absent
  <2>1. local'[o].status # "absent"
    BY <1>2 DEF Row, Status, Ended
  <2>2. QED
    BY <2>1 DEF Absent
<1>5. QED
  BY <1>2, <1>3, <1>4 DEF TypeOK, LocalBecomes

\* A write only puts rows in order.
LEMMA TouchedFacts ==
  ASSUME TypeOK, NEW o \in Orders
  PROVE  Touched(o) \subseteq Orders \X Orders
  BY DEF TypeOK, Touched

\* The row an insert makes.
LEMMA InsertFacts ==
  ASSUME TypeOK, NEW h \in Workers, Insert(h)
  PROVE  /\ job[h].order \in Orders
         /\ LocalBecomes(job[h].order, [status |-> "created", hold |-> 0, burn |-> FALSE])
<1>1. job[h].order \in Orders
  BY JobFacts DEF Insert, At, Job
<1>2. [status |-> "created", hold |-> 0, burn |-> FALSE] \in Row
  BY Parameters DEF Row, Status
<1>3. QED
  BY <1>1, <1>2 DEF TypeOK, Insert, LocalBecomes, Absent

-----------------------------------------------------------------------------
LEMMA InitFacts ==
  Init => /\ TypeOK /\ Known /\ Final /\ Tracked /\ Inserted /\ Swept /\ Paying
          /\ StatusWasAnnounced /\ PaidIsOnRecord
  BY Parameters
  DEF Init, TypeOK, Known, Final, Tracked, Tracks, Inserted, Swept, Paying, Pays,
      StatusWasAnnounced, PaidIsOnRecord, Busy, At, Job, Idle, Absent, Row

\* Every step keeps the types.
LEMMA TypeStep ==
  ASSUME TypeOK, Tracked, Swept, [Next]_vars
  PROVE  TypeOK'
<1>1. ASSUME NEW h \in Workers, NEW o \in Orders, Create(h, o)
      PROVE  TypeOK'
  <2>1. JobBecomes(h, job'[h]) /\ job'[h] \in Job
    BY <1>1, Parameters DEF TypeOK, Create, JobBecomes, Job, Places, Status
  <2>2. QED
    BY <1>1, <2>1, BecomesFacts DEF TypeOK, Create, JobBecomes, table, tokens, Status
<1>2. ASSUME NEW h \in Workers, Insert(h)
      PROVE  TypeOK'
  <2>1. job[h].order \in Orders /\ local' \in [Orders -> Row \cup {Absent}]
    BY <1>2, InsertFacts DEF LocalBecomes
  <2>2. QED
    BY <1>2, <2>1, DoneFacts, TouchedFacts DEF TypeOK, Insert, JobBecomes, tokens, upstream
<1>3. ASSUME NEW h \in Workers, NEW u \in posted, Receive(h, u)
      PROVE  TypeOK'
  <2>1. u \in Update /\ u.order \in Orders /\ u.status \in Status
    BY DEF TypeOK, Update
  <2>2. QED
    BY <1>3, <2>1, CarryFacts DEF TypeOK, Receive, JobBecomes, Places, upstream, table, tokens
<1>4. ASSUME NEW h \in Workers, Fetched(h)
      PROVE  TypeOK'
  <2> DEFINE o == job[h].order
  <2>1. Busy(h) /\ job[h] \in Job /\ o \in Orders
    BY <1>4, JobFacts DEF Fetched, At, Job
  <2>2. up[o] # Absent /\ up[o].status \in Status /\ up[o].claim \in BOOLEAN
    BY <2>1, RowFacts DEF Tracked, Tracks, Busy, Idle
  <2>3. [order |-> o, status |-> up[o].status, claim |-> up[o].claim] \in Update
    BY <2>1, <2>2 DEF Update
  <2>4. job' \in [Workers -> Job \cup {Idle}]
    BY <1>4, <2>3, CarryFacts, DoneFacts DEF Fetched, JobBecomes, Places
  <2>5. QED
    BY <1>4, <2>4 DEF TypeOK, Fetched, upstream, table, tokens
<1>5. ASSUME NEW h \in Workers, Read(h)
      PROVE  TypeOK'
  <2>1. job' \in [Workers -> Job \cup {Idle}]
    BY <1>5, JobFacts, GoFacts, DoneFacts DEF Read, At, JobBecomes, Places
  <2>2. older' \subseteq Orders \X Orders
    <3>1. job[h].order \in Orders
      BY <1>5, JobFacts DEF Read, At, Job
    <3>2. QED
      BY <1>5, <3>1, TouchedFacts DEF TypeOK, Read
  <2>3. QED
    BY <1>5, <2>1, <2>2 DEF TypeOK, Read, upstream, tokens
<1>6. ASSUME NEW h \in Workers, Write(h)
      PROVE  TypeOK'
  <2>1. Busy(h) /\ job[h].order \in Orders /\ job[h].status \in Status
    BY <1>6, JobFacts DEF Write, At, Job
  <2>2. local[job[h].order] # Absent
    BY <1>6, <2>1 DEF Tracked, Tracks, Busy, Idle, Write, At
  <2>3. local' \in [Orders -> Row \cup {Absent}]
    BY <1>6, <2>1, <2>2, StatusFacts DEF Write, LocalBecomes
  <2>4. QED
    BY <1>6, <2>1, <2>3, DoneFacts, TouchedFacts DEF TypeOK, Write, JobBecomes, upstream, table, tokens
<1>7. ASSUME NEW h \in Workers, Cancel(h)
      PROVE  TypeOK'
  <2> DEFINE o == job[h].order
             canceled == [order |-> o, status |-> "canceled", claim |-> FALSE]
  <2>1. o \in Orders /\ canceled \in Update
    BY <1>7, JobFacts DEF Cancel, At, Job, Update, Status, Ended
  <2>2. up' \in [Orders -> [status : Status, claim : BOOLEAN] \cup {Absent}] /\ posted' \subseteq Update
    BY <1>7, <2>1, BecomesFacts DEF Cancel, TypeOK, Status, Ended
  <2>3. job' \in [Workers -> Job \cup {Idle}]
    <3>1. CASE Done(h)
      BY <3>1, DoneFacts DEF JobBecomes
    <3>2. CASE Carry(h, IF o \in sells THEN "write" ELSE "read", canceled)
      BY <3>2, <2>1, CarryFacts DEF JobBecomes, Places
    <3>3. QED
      BY <1>7, <3>1, <3>2 DEF Cancel
  <2>4. QED
    BY <1>7, <2>2, <2>3 DEF TypeOK, Cancel, table, tokens
<1>8. ASSUME NEW h \in Workers, Move(h)
      PROVE  TypeOK'
  <2>1. Busy(h) /\ job[h] \in Job
    BY <1>8, JobFacts DEF Move, At
  <2>2. job' \in [Workers -> Job \cup {Idle}]
    BY <1>8, <2>1, GoFacts, DoneFacts DEF Move, MovedThenHold, JobBecomes, Places
  <2>3. faults' \in 0..MaxFaults
    BY <1>8, Parameters DEF TypeOK, Move, Timeout
  <2>4. relayer' \in Nat
    BY <1>8 DEF TypeOK, Move
  <2>5. moved' \subseteq Orders \X (0..MaxXdrs) /\ pending' \subseteq Orders \X (0..MaxXdrs)
    BY <1>8, <2>1 DEF TypeOK, Move, Job
  <2>6. QED
    BY <1>8, <2>2, <2>3, <2>4, <2>5 DEF TypeOK, Move, upstream, table
<1>9. ASSUME NEW h \in Workers, Hold(h)
      PROVE  TypeOK'
  <2>1. Busy(h) /\ job[h].order \in Orders /\ job[h].xdr \in 0..MaxXdrs
    BY <1>9, JobFacts DEF Hold, At, Job
  <2>2. local[job[h].order] # Absent
    BY <1>9, <2>1 DEF Tracked, Tracks, Busy, Idle, Hold, At
  <2>3. local' \in [Orders -> Row \cup {Absent}]
    BY <1>9, <2>1, <2>2, HoldFacts DEF Hold, LocalBecomes
  <2>4. QED
    BY <1>9, <2>1, <2>3, GoFacts, TouchedFacts DEF TypeOK, Hold, JobBecomes, Places, upstream, table, tokens
<1>10. ASSUME NEW h \in Workers, Pay(h)
       PROVE  TypeOK'
  <2>1. Busy(h) /\ job[h].order \in Orders
    BY <1>10, JobFacts DEF Pay, At, Job
  <2>2. job' \in [Workers -> Job \cup {Idle}]
    BY <1>10, <2>1, GoFacts, DoneFacts DEF Pay, JobBecomes, Places
  <2>3. faults' \in 0..MaxFaults
    BY <1>10, Parameters DEF TypeOK, Pay, Timeout
  <2>4. /\ relayer' \in Nat /\ paid' \in [Orders -> Nat]
        /\ pending' \subseteq Orders \X (0..MaxXdrs)
    BY <1>10, <2>1, Parameters DEF TypeOK, Pay, Payment
  <2>5. QED
    BY <1>10, <2>2, <2>3, <2>4 DEF TypeOK, Pay, upstream, table
<1>11. ASSUME NEW h \in Workers, Burn(h)
       PROVE  TypeOK'
  <2>1. Busy(h) /\ job[h].order \in Orders
    BY <1>11, JobFacts DEF Burn, At, Job
  <2>2. local[job[h].order] # Absent
    BY <1>11, <2>1 DEF Tracked, Tracks, Busy, Idle, Burn, At
  <2>3. local' \in [Orders -> Row \cup {Absent}]
    BY <1>11, <2>1, <2>2, BurnFacts DEF Burn, LocalBecomes
  <2>4. QED
    BY <1>11, <2>1, <2>3, DoneFacts, TouchedFacts DEF TypeOK, Burn, JobBecomes, upstream, table, tokens
<1>12. ASSUME NEW o \in Orders, NEW s \in Status, Advance(o, s)
       PROVE  TypeOK'
  <2>1. up[o] # Absent /\ up[o].claim \in BOOLEAN
    BY <1>12, RowFacts DEF Advance, Status, Absent
  <2>2. up' \in [Orders -> [status : Status, claim : BOOLEAN] \cup {Absent}] /\ posted' \subseteq Update
    BY <1>12, <2>1, BecomesFacts DEF Advance
  <2>3. QED
    BY <1>12, <2>2 DEF TypeOK, Advance, table, tokens
<1>13. ASSUME NEW o \in Orders, Sign(o)
       PROVE  TypeOK'
  BY <1>13, Parameters DEF TypeOK, Sign, upstream, table
<1>14. ASSUME NEW h \in Workers, NEW o \in Orders,
              Reconcile(h, o) \/ RequestCancel(h, o) \/ \E x \in 1..MaxXdrs : Submit(h, o, x)
       PROVE  TypeOK'
  <2>1. local[o].status \in Status
    BY <1>14 DEF Reconcile, Stale, RequestCancel, Submit, Status
  <2>2. job' \in [Workers -> Job \cup {Idle}]
    BY <1>14, <2>1, BeginFacts, Parameters DEF Reconcile, RequestCancel, Submit, JobBecomes, Places
  <2>3. QED
    BY <1>14, <2>2 DEF TypeOK, Reconcile, RequestCancel, Submit, upstream, table, tokens
<1>15. ASSUME NEW h \in Workers, FetchFails(h)
       PROVE  TypeOK'
  BY <1>15, DoneFacts DEF TypeOK, FetchFails, JobBecomes, upstream, table, tokens
<1>16. CASE Sweep
  <2>1. \A o \in Batch : o \in Orders /\ local[o].status \in Status
    BY DEF Batch, Stale
  <2>2. sweep' \subseteq Visited
    BY <1>16, <2>1 DEF Sweep, Visited
  <2>3. QED
    BY <1>16, <2>2 DEF TypeOK, Sweep, upstream, table, tokens
<1>17. ASSUME NEW v \in sweep, Visit(v)
       PROVE  TypeOK'
  <2>1. [at |-> "fetch", order |-> v.order, status |-> v.status, claim |-> FALSE, xdr |-> 0] \in Job
    BY Parameters DEF TypeOK, Visited, Job, Places
  <2>2. QED
    BY <1>17, <2>1 DEF TypeOK, Visit, upstream, table, tokens
<1>18. ASSUME NEW tx \in pending, Land(tx)
       PROVE  TypeOK'
  BY <1>18 DEF TypeOK, Land, upstream, table
<1>19. CASE Restart
  BY <1>19, Parameters DEF TypeOK, Restart, Timeout, upstream, table, tokens
<1>20. CASE UNCHANGED vars
  BY <1>20 DEF TypeOK, vars, upstream, table, tokens
<1>21. QED
  BY <1>1, <1>2, <1>3, <1>4, <1>5, <1>6, <1>7, <1>8, <1>9, <1>10, <1>11, <1>12, <1>13, <1>14,
     <1>15, <1>16, <1>17, <1>18, <1>19, <1>20 DEF Next, Step, Workers

\* What the anchor has announced and what has a row stays so.
Grows ==
  /\ posted \subseteq posted'
  /\ \A o \in Orders : up[o] # Absent => up'[o] # Absent
  /\ \A o \in Orders : local[o] # Absent => local'[o] # Absent

LEMMA KnownStep ==
  ASSUME TypeOK, Known, Tracked, [Next]_vars
  PROVE  Grows /\ Known'
<1>1. ASSUME NEW o \in Orders, NEW s \in Status, NEW c \in BOOLEAN, Becomes(o, s, c), UNCHANGED local
      PROVE  Grows /\ Known'
  <2>1. /\ posted' = posted \cup {[order |-> o, status |-> s, claim |-> c]}
        /\ \A n \in Orders : n # o => up'[n] = up[n]
        /\ up'[o] = [status |-> s, claim |-> c] /\ up'[o] # Absent
    BY <1>1, BecomesFacts
  <2>2. \A u \in posted : u.order \in Orders
    BY DEF TypeOK, Update
  <2>3. QED
    BY <1>1, <2>1, <2>2 DEF Grows, Known
<1>2. ASSUME NEW o \in Orders, NEW r, LocalBecomes(o, r), up[o] # Absent, UNCHANGED <<up, posted>>
      PROVE  Grows /\ Known'
  BY <1>2 DEF Grows, Known, LocalBecomes
<1>3. CASE UNCHANGED <<up, posted, local>>
  BY <1>3 DEF Grows, Known
<1>4. ASSUME NEW h \in Workers, NEW o \in Orders, Create(h, o)
      PROVE  Grows /\ Known'
  BY <1>1, <1>4 DEF Create, Status, table
<1>5. ASSUME NEW o \in Orders, NEW s \in Status, Advance(o, s)
      PROVE  Grows /\ Known'
  <2>1. up[o].claim \in BOOLEAN
    BY <1>5, RowFacts DEF Advance, Status, Absent
  <2>2. QED
    BY <1>1, <1>5, <2>1 DEF Advance, table
<1>6. ASSUME NEW h \in Workers, Cancel(h)
      PROVE  Grows /\ Known'
  <2>1. job[h].order \in Orders
    BY <1>6, JobFacts DEF Cancel, At, Job
  <2>2. QED
    BY <1>1, <1>3, <1>6, <2>1 DEF Cancel, Status, Ended, table
<1>7. ASSUME NEW h \in Workers, Insert(h) \/ Write(h) \/ Hold(h) \/ Burn(h)
      PROVE  Grows /\ Known'
  <2> DEFINE o == job[h].order
  <2>1. Busy(h) /\ o \in Orders /\ job[h].status \in Status
    BY <1>7, JobFacts DEF Insert, Write, Hold, Burn, At, Job
  <2>2. up[o] # Absent /\ UNCHANGED <<up, posted>>
    BY <1>7, <2>1 DEF Tracked, Tracks, Insert, Write, Hold, Burn, upstream
  <2>3. CASE Insert(h)
    <3>1. LocalBecomes(o, [status |-> "created", hold |-> 0, burn |-> FALSE])
      BY <2>3, InsertFacts
    <3>2. QED
      BY <1>2, <2>1, <2>2, <3>1
  <2>4. CASE Write(h) \/ Hold(h) \/ Burn(h)
    <3>1. local[o] # Absent
      BY <2>1, <2>4 DEF Tracked, Tracks, Write, Hold, Burn, At
    <3>2. LocalBecomes(o, local'[o])
      BY <2>1, <2>4, <3>1, JobFacts, StatusFacts, HoldFacts, BurnFacts DEF Write, Hold, Burn, Job
    <3>3. QED
      BY <1>2, <2>1, <2>2, <3>2
  <2>5. QED
    BY <1>7, <2>3, <2>4
<1>8. QED
  <2>1. ASSUME NEW h \in Workers, NEW o \in Orders,
               Reconcile(h, o) \/ RequestCancel(h, o) \/ \E x \in 1..MaxXdrs : Submit(h, o, x)
        PROVE  UNCHANGED <<up, posted, local>>
    BY <2>1 DEF Reconcile, RequestCancel, Submit, upstream, table
  <2>2. ASSUME NEW h \in Workers, Fetched(h) \/ Read(h) \/ Move(h) \/ Pay(h) \/ FetchFails(h)
        PROVE  UNCHANGED <<up, posted, local>>
    BY <2>2 DEF Fetched, Read, Move, Pay, FetchFails, upstream, table
  <2>3. ASSUME NEW h \in Workers, NEW u \in posted, Receive(h, u)
        PROVE  UNCHANGED <<up, posted, local>>
    BY <2>3 DEF Receive, upstream, table
  <2>4. ASSUME NEW o \in Orders, Sign(o)
        PROVE  UNCHANGED <<up, posted, local>>
    BY <2>4 DEF Sign, upstream, table
  <2>5. ASSUME \/ Restart \/ Sweep \/ UNCHANGED vars
               \/ \E v \in sweep : Visit(v)
               \/ \E tx \in pending : Land(tx)
        PROVE  UNCHANGED <<up, posted, local>>
    BY <2>5 DEF Restart, Sweep, Visit, Land, vars, upstream, table
  <2>6. QED
    BY <1>3, <1>4, <1>5, <1>6, <1>7, <2>1, <2>2, <2>3, <2>4, <2>5 DEF Next, Step, Workers

\* A job that does not change stays right, so does one that ends.
LEMMA TracksStays ==
  ASSUME TypeOK, Grows, NEW h \in Workers, Tracks(h), job'[h] = job[h] \/ job'[h] = Idle
  PROVE  Tracks(h)'
<1>1. CASE job'[h] = Idle
  BY <1>1 DEF Tracks, Busy, Idle
<1>2. CASE job'[h] = job[h]
  <2>1. Busy(h) => job[h].order \in Orders
    BY JobFacts DEF Job
  <2>2. ~Busy(h) => job[h].at = "idle"
    BY DEF Busy, Idle
  <2>3. QED
    BY <1>2, <2>1, <2>2 DEF Tracks, Busy, Grows
<1>3. QED
  BY <1>1, <1>2

\* So it is enough to look at the one job a step moves on.
LEMMA TrackedIf ==
  ASSUME TypeOK, Grows, Tracked, NEW h \in Workers, NEW j, JobBecomes(h, j), Tracks(h)'
  PROVE  Tracked'
<1>1. ASSUME NEW g \in Workers
      PROVE  Tracks(g)'
  BY <1>1, TracksStays DEF Tracked, JobBecomes
<1>2. QED
  BY <1>1 DEF Tracked

\* A job that ends, or goes on past the updates with the same row.
LEMMA TrackedOn ==
  ASSUME TypeOK, Grows, Tracked, NEW h \in Workers, Busy(h),
         \/ Done(h)
         \/ \E place \in {"fetch", "cancel", "move", "hold", "pay", "burn"} : Go(h, place),
         job[h].at \notin {"insert", "read"} \/ Done(h)
  PROVE  Tracked'
<1>1. CASE Done(h)
  BY <1>1, DoneFacts, TrackedIf, TracksStays DEF JobBecomes, Tracked
<1>2. ASSUME NEW place \in {"fetch", "cancel", "move", "hold", "pay", "burn"}, Go(h, place), ~Done(h)
      PROVE  Tracked'
  <2>1. JobBecomes(h, job'[h]) /\ job'[h] \in Job /\ job'[h].at = place /\ job'[h].order = job[h].order
    BY <1>2, GoFacts DEF Places
  <2>2. up'[job[h].order] # Absent /\ local'[job[h].order] # Absent
    BY <1>2, JobFacts DEF Tracked, Tracks, Grows, Job
  <2>3. Tracks(h)'
    BY <2>1, <2>2 DEF Tracks
  <2>4. QED
    BY <2>1, <2>3, TrackedIf
<1>3. QED
  BY <1>1, <1>2

LEMMA TrackedStep ==
  ASSUME TypeOK, Known, Tracked, Swept, [Next]_vars
  PROVE  Tracked'
<1>0. Grows
  BY KnownStep
<1>1. ASSUME NEW h \in Workers, NEW o \in Orders, Create(h, o)
      PROVE  Tracked'
  <2>1. JobBecomes(h, job'[h]) /\ job'[h] = [at |-> "insert", order |-> o, status |-> "created",
                                             claim |-> FALSE, xdr |-> 0]
    BY <1>1, Parameters DEF TypeOK, Create, JobBecomes, Job, Places, Status
  <2>2. up'[o] # Absent /\ [order |-> o, status |-> "created", claim |-> FALSE] \in posted'
    BY <1>1, BecomesFacts DEF Create, Status
  <2>3. Tracks(h)'
    BY <2>1, <2>2 DEF Tracks
  <2>4. QED
    BY <1>0, <2>1, <2>3, TrackedIf
<1>2. ASSUME NEW h \in Workers, NEW u \in posted, Receive(h, u)
      PROVE  Tracked'
  <2>1. u \in Update
    BY DEF TypeOK
  <2>2. /\ JobBecomes(h, job'[h]) /\ job'[h].at = "read"
        /\ job'[h].order = u.order /\ job'[h].status = u.status /\ job'[h].claim = u.claim
    BY <1>2, <2>1, CarryFacts DEF Receive, Places
  <2>3. u = [order |-> u.order, status |-> u.status, claim |-> u.claim] /\ u \in posted'
    BY <1>0, <2>1 DEF Update, Grows
  <2>4. up'[u.order] # Absent
    BY <1>0, <2>1 DEF Known, Grows, Update
  <2>5. Tracks(h)'
    BY <2>2, <2>3, <2>4 DEF Tracks
  <2>6. QED
    BY <1>0, <2>2, <2>5, TrackedIf
<1>3. ASSUME NEW h \in Workers, Fetched(h)
      PROVE  Tracked'
  <2> DEFINE o == job[h].order
             u == [order |-> o, status |-> up[o].status, claim |-> up[o].claim]
  <2>1. Busy(h) /\ o \in Orders
    BY <1>3, JobFacts DEF Fetched, At, Job
  <2>2. up[o] # Absent /\ up[o].status \in Status /\ up[o].claim \in BOOLEAN
    BY <2>1, RowFacts DEF Tracked, Tracks
  <2>3. u \in Update /\ u \in posted'
    BY <1>0, <2>1, <2>2 DEF Update, Known, Grows
  <2>4. CASE Carry(h, "read", u)
    <3>1. /\ JobBecomes(h, job'[h]) /\ job'[h].at = "read"
          /\ job'[h].order = o /\ job'[h].status = u.status /\ job'[h].claim = u.claim
      BY <2>3, <2>4, CarryFacts DEF Places
    <3>2. Tracks(h)'
      BY <1>0, <2>1, <2>2, <2>3, <3>1 DEF Tracks, Grows
    <3>3. QED
      BY <1>0, <3>1, <3>2, TrackedIf
  <2>5. QED
    BY <1>0, <1>3, <2>1, <2>4, TrackedOn DEF Fetched
<1>4. ASSUME NEW h \in Workers, Read(h)
      PROVE  Tracked'
  <2>1. Busy(h) /\ job[h].order \in Orders
    BY <1>4, JobFacts DEF Read, At, Job
  <2>2. CASE Accepted(h) /\ Go(h, "write")
    <3>1. local[job[h].order] # Absent /\ ~job[h].claim
      BY <2>1, <2>2, TransitionFacts, RowFacts
    <3>2. /\ JobBecomes(h, job'[h]) /\ job'[h].at = "write" /\ job'[h].order = job[h].order
          /\ job'[h].status = job[h].status /\ job'[h].claim = job[h].claim
      BY <2>1, <2>2, GoFacts DEF Places
    <3>3. Tracks(h)
      BY DEF Tracked
    <3>4. Tracks(h)'
      BY <1>0, <1>4, <2>1, <3>1, <3>2, <3>3 DEF Tracks, Grows, Read, At
    <3>5. QED
      BY <1>0, <3>2, <3>4, TrackedIf
  <2>3. QED
    BY <1>0, <1>4, <2>1, <2>2, TrackedOn DEF Read
<1>5. ASSUME NEW h \in Workers, Cancel(h)
      PROVE  Tracked'
  <2> DEFINE o == job[h].order
             u == [order |-> o, status |-> "canceled", claim |-> FALSE]
  <2>1. Busy(h) /\ o \in Orders /\ u \in Update
    BY <1>5, JobFacts DEF Cancel, At, Job, Update, Status, Ended
  <2>2. CASE CanceledThere(o) /\ Carry(h, IF o \in sells THEN "write" ELSE "read", u)
    <3>1. u \in posted'
      BY <1>5, <2>2 DEF Cancel, CanceledThere, Becomes
    <3>2. /\ JobBecomes(h, job'[h]) /\ job'[h].at \in {"read", "write"}
          /\ job'[h].order = o /\ job'[h].status = "canceled" /\ job'[h].claim = FALSE
      BY <2>1, <2>2, CarryFacts DEF Places
    <3>3. up'[o] # Absent /\ local'[o] # Absent
      BY <1>0, <1>5, <2>1 DEF Tracked, Tracks, Grows, Cancel, At
    <3>4. Tracks(h)'
      BY <3>1, <3>2, <3>3 DEF Tracks
    <3>5. QED
      BY <1>0, <3>2, <3>4, TrackedIf
  <2>3. QED
    BY <1>0, <1>5, <2>1, <2>2, TrackedOn DEF Cancel
<1>6. ASSUME NEW h \in Workers,
             Insert(h) \/ Write(h) \/ Move(h) \/ Hold(h) \/ Pay(h) \/ Burn(h) \/ FetchFails(h)
      PROVE  Tracked'
  <2>1. Busy(h)
    BY <1>6, JobFacts DEF Insert, Write, Move, Hold, Pay, Burn, FetchFails, At
  <2>2. CASE Done(h)
    BY <1>0, <2>1, <2>2, TrackedOn
  <2>3. CASE (Move(h) \/ Hold(h) \/ Pay(h)) /\ \E place \in {"hold", "pay", "burn"} : Go(h, place)
    BY <1>0, <2>1, <2>3, TrackedOn DEF Move, Hold, Pay, At
  <2>4. QED
    BY <1>6, <2>2, <2>3 DEF Insert, Write, Move, MovedThenHold, Hold, Pay, Burn, FetchFails
<1>7. ASSUME NEW h \in Workers, NEW o \in Orders,
             Reconcile(h, o) \/ RequestCancel(h, o) \/ \E x \in 1..MaxXdrs : Submit(h, o, x)
      PROVE  Tracked'
  <2>1. local[o].status \in Status
    BY <1>7 DEF Reconcile, Stale, RequestCancel, Submit, Status
  <2>2. JobBecomes(h, job'[h]) /\ job'[h].at \in {"fetch", "cancel", "move"} /\ job'[h].order = o
    BY <1>7, <2>1, BeginFacts, Parameters DEF Reconcile, RequestCancel, Submit, Places
  <2>3. up'[o] # Absent /\ local'[o] # Absent
    BY <1>0, <2>1, RowFacts DEF Known, Grows
  <2>4. Tracks(h)'
    BY <2>2, <2>3 DEF Tracks
  <2>5. QED
    BY <1>0, <2>2, <2>4, TrackedIf
<1>8. CASE Restart
  BY <1>8 DEF Restart, Tracked, Tracks, Busy, Idle
<1>9. ASSUME NEW v \in sweep, Visit(v)
      PROVE  Tracked'
  <2> DEFINE j == [at |-> "fetch", order |-> v.order, status |-> v.status, claim |-> FALSE, xdr |-> 0]
  <2>1. Cron \in Workers /\ v.order \in Orders /\ local[v.order] # Absent /\ j \in Job
    BY Parameters DEF Workers, TypeOK, Visited, Swept, Job, Places
  <2>2. JobBecomes(Cron, j)
    BY <1>9, <2>1 DEF Visit, TypeOK, JobBecomes
  <2>3. up'[v.order] # Absent /\ local'[v.order] # Absent
    BY <1>0, <2>1 DEF Known, Grows
  <2>4. Tracks(Cron)'
    BY <2>2, <2>3 DEF Tracks, JobBecomes
  <2>5. QED
    BY <1>0, <2>1, <2>2, <2>4, TrackedIf
<1>10. CASE UNCHANGED job
  BY <1>0, <1>10, TracksStays DEF Tracked
<1>11. QED
  <2>1. ASSUME \/ \E o \in Orders : Sign(o) \/ \E s \in Status : Advance(o, s)
               \/ \E tx \in pending : Land(tx)
               \/ Sweep
        PROVE  UNCHANGED job
    BY <2>1 DEF Sign, Advance, Land, Sweep
  <2>2. QED
    BY <1>1, <1>2, <1>3, <1>4, <1>5, <1>6, <1>7, <1>8, <1>9, <1>10, <2>1 DEF Next, Step, Workers, vars

\* What the ways of changing a job leave alone.
LEMMA OthersStay ==
  ASSUME TypeOK, NEW h \in Workers, NEW place \in Places, place # "insert", NEW o, NEW x, NEW u,
         Done(h) \/ Go(h, place) \/ Begin(h, place, o, x) \/ Carry(h, place, u)
  PROVE  (\A g \in Workers : g # h => job'[g] = job[g]) /\ job'[h].at # "insert"
<1>1. CASE Done(h)
  BY <1>1 DEF TypeOK, Done, Idle
<1>2. CASE Go(h, place)
  <2>1. job'[h] = [job[h] EXCEPT !.at = place] /\ \A g \in Workers : g # h => job'[g] = job[g]
    BY <1>2 DEF TypeOK, Go
  <2>2. QED
    BY <2>1, JobFacts DEF Job, Idle
<1>3. CASE Begin(h, place, o, x)
  BY <1>3 DEF TypeOK, Begin
<1>4. CASE Carry(h, place, u)
  BY <1>4 DEF TypeOK, Carry
<1>5. QED
  BY <1>1, <1>2, <1>3, <1>4

\* Everything but an insert and the move of tokens leaves alone what Inserted is about.
LEMMA InsertedStep ==
  ASSUME TypeOK, Known, Tracked, Inserted, [Next]_vars
  PROVE  Inserted'
<1>0. Grows
  BY KnownStep
\* A step that starts no insert and inserts nothing.
<1>1. ASSUME NEW h \in Workers, \A g \in Workers : g # h => job'[g] = job[g],
             job'[h].at # "insert", \A o \in Orders : local[o] = Absent => local'[o] = Absent
      PROVE  Inserted'
  <2>1. \A g \in Workers : At(g, "insert")' => At(g, "insert") /\ job'[g] = job[g] /\ job[g].order \in Orders
    BY <1>1, JobFacts DEF At, Job
  <2>2. QED
    BY <1>1, <2>1 DEF Inserted, At
<1>2. ASSUME NEW h \in Workers, NEW o \in Orders, Create(h, o)
      PROVE  Inserted'
  <2>1. JobBecomes(h, job'[h]) /\ job'[h].order = o
    BY <1>2, Parameters DEF TypeOK, Create, JobBecomes, Job, Places, Status
  <2>2. \A g \in Workers : g # h /\ At(g, "insert")' =>
          At(g, "insert") /\ job'[g] = job[g] /\ job[g].order # o
    <3>1. ASSUME NEW g \in Workers, g # h, At(g, "insert")'
          PROVE  At(g, "insert") /\ job'[g] = job[g] /\ Busy(g)
      BY <2>1, <3>1, JobFacts DEF At, JobBecomes
    <3>2. QED
      BY <1>2, <3>1 DEF Tracked, Tracks, Create
  <2>3. local[o] = Absent /\ local' = local
    BY <1>2 DEF Create, Known, table
  <2>4. QED
    BY <2>1, <2>2, <2>3 DEF Inserted, At
<1>3. ASSUME NEW h \in Workers, Insert(h)
      PROVE  Inserted'
  <2> DEFINE o == job[h].order
  <2>1. o \in Orders
    BY <1>3, JobFacts DEF Insert, At, Job
  <2>2. JobBecomes(h, Idle) /\ \A n \in Orders : n # o => local'[n] = local[n]
    BY <1>3, <2>1, DoneFacts DEF TypeOK, Insert
  <2>3. \A g \in Workers : At(g, "insert")' =>
          At(g, "insert") /\ job'[g] = job[g] /\ job[g].order # o /\ job[g].order \in Orders
    BY <1>3, <2>2, JobFacts DEF Inserted, Insert, At, JobBecomes, Idle, Job
  <2>4. QED
    BY <2>2, <2>3 DEF Inserted, At
<1>4. ASSUME NEW h \in Workers, Write(h) \/ Hold(h) \/ Burn(h)
      PROVE  Inserted'
  <2>1. Busy(h) /\ job[h].order \in Orders /\ local[job[h].order] # Absent
    BY <1>4, JobFacts DEF Write, Hold, Burn, At, Job, Tracked, Tracks
  <2>2. \A o \in Orders : local[o] = Absent => local'[o] = Absent
    BY <1>4, <2>1 DEF TypeOK, Write, Hold, Burn
  <2>3. (\A g \in Workers : g # h => job'[g] = job[g]) /\ job'[h].at # "insert"
    BY <1>4, OthersStay DEF Write, Hold, Burn, Places
  <2>4. QED
    BY <1>1, <1>4, <2>2, <2>3 DEF Write, Hold, Burn, table, tokens
<1>5. ASSUME NEW h \in Workers, Fetched(h) \/ Cancel(h) \/ Read(h) \/ Move(h) \/ Pay(h) \/ FetchFails(h)
      PROVE  Inserted'
  <2>1. (\A g \in Workers : g # h => job'[g] = job[g]) /\ job'[h].at # "insert"
    BY <1>5, OthersStay DEF Fetched, Cancel, Read, Move, MovedThenHold, Pay, FetchFails, Places
  <2>2. QED
    BY <1>1, <1>5, <2>1 DEF Fetched, Cancel, Read, Move, MovedThenHold, Pay, FetchFails, table, tokens
<1>6. ASSUME NEW h \in Workers,
             \/ \E u \in posted : Receive(h, u)
             \/ \E o \in Orders :
                  \/ Reconcile(h, o) \/ RequestCancel(h, o)
                  \/ \E x \in 1..MaxXdrs : Submit(h, o, x)
      PROVE  Inserted'
  <2>1. (\A g \in Workers : g # h => job'[g] = job[g]) /\ job'[h].at # "insert"
    BY <1>6, OthersStay DEF Receive, Reconcile, RequestCancel, Submit, Places
  <2>2. QED
    BY <1>1, <1>6, <2>1 DEF Receive, Reconcile, RequestCancel, Submit, table, tokens
<1>7. CASE Restart
  BY <1>7 DEF Restart, Inserted, At, Idle, table
<1>8. ASSUME UNCHANGED <<job, local>>
      PROVE  Inserted'
  BY <1>8 DEF Inserted, At
<1>9. ASSUME \/ \E o \in Orders : Sign(o) \/ \E s \in Status : Advance(o, s)
             \/ \E tx \in pending : Land(tx)
             \/ Sweep
      PROVE  Inserted'
  BY <1>8, <1>9 DEF Sign, Advance, Land, Sweep, table
<1>10. ASSUME NEW v \in sweep, Visit(v)
      PROVE  Inserted'
  <2>1. Cron \in Workers /\ job'[Cron].at = "fetch" /\ local' = local
    BY <1>10 DEF Workers, Visit, TypeOK, table
  <2>2. \A g \in Workers : g # Cron => job'[g] = job[g]
    BY <1>10 DEF Visit, TypeOK
  <2>3. QED
    BY <1>1, <2>1, <2>2
<1>11. QED
  <2>1. ASSUME NEW h \in Workers, Step(h) \/ FetchFails(h)
        PROVE  Inserted'
    BY <2>1, <1>3, <1>4, <1>5 DEF Step
  <2>2. ASSUME NEW h \in Handlers, NEW o \in Orders,
               \/ Create(h, o) \/ Reconcile(h, o) \/ RequestCancel(h, o)
               \/ \E x \in 1..MaxXdrs : Submit(h, o, x)
        PROVE  Inserted'
    BY <2>2, <1>2, <1>6 DEF Workers
  <2>3. ASSUME NEW h \in Handlers, \E u \in posted : Receive(h, u)
        PROVE  Inserted'
    BY <2>3, <1>6 DEF Workers
  <2>4. CASE UNCHANGED vars
    BY <1>8, <2>4 DEF vars, table
  <2>5. CASE Next
    BY <1>7, <1>9, <1>10, <2>1, <2>2, <2>3, <2>5 DEF Next
  <2>6. QED
    BY <2>4, <2>5

-----------------------------------------------------------------------------
\* Only an insert and a write set a status: to one the job's update has announced.
LEMMA AnnouncedStep ==
  ASSUME TypeOK, Known, Tracked, Inserted, StatusWasAnnounced, [Next]_vars
  PROVE  StatusWasAnnounced'
<1>0. Grows
  BY KnownStep
<1>1. ASSUME NEW o \in Orders, \A n \in Orders : n # o => local'[n] = local[n],
             [order |-> o, status |-> local'[o].status, claim |-> FALSE] \in posted'
      PROVE  StatusWasAnnounced'
  BY <1>0, <1>1 DEF StatusWasAnnounced, Grows
<1>2. ASSUME UNCHANGED local
      PROVE  StatusWasAnnounced'
  BY <1>0, <1>2 DEF StatusWasAnnounced, Grows
<1>3. ASSUME NEW h \in Workers, Insert(h) \/ Write(h)
      PROVE  StatusWasAnnounced'
  <2> DEFINE o == job[h].order
  <2>1. Busy(h) /\ job[h] \in Job
    BY <1>3, JobFacts DEF Insert, Write, At
  <2>2. o \in Orders /\ job[h].status \in Status /\ job[h].claim \in BOOLEAN
    BY <2>1 DEF Job
  <2>3. [order |-> o, status |-> job[h].status, claim |-> FALSE] \in posted'
    BY <1>0, <1>3, <2>2 DEF Tracked, Tracks, Grows, Insert, Write, At
  <2>4. local'[o].status = job[h].status /\ \A n \in Orders : n # o => local'[n] = local[n]
    <3>1. CASE Insert(h)
      BY <2>2, <3>1 DEF TypeOK, Tracked, Tracks, Insert, At
    <3>2. CASE Write(h)
      <4>1. local[o] # Absent
        BY <2>1, <3>2 DEF Tracked, Tracks, Write, At
      <4>2. QED
        BY <2>2, <3>2, <4>1, StatusFacts DEF Write, LocalBecomes
    <3>3. QED
      BY <1>3, <3>1, <3>2
  <2>5. QED
    BY <1>1, <2>2, <2>3, <2>4
<1>4. ASSUME NEW h \in Workers, Hold(h) \/ Burn(h)
      PROVE  StatusWasAnnounced'
  <2> DEFINE o == job[h].order
  <2>1. o \in Orders /\ local[o] # Absent
    BY <1>4, JobFacts DEF Hold, Burn, At, Job, Tracked, Tracks
  <2>2. LocalBecomes(o, local'[o]) /\ local'[o].status = local[o].status
    BY <1>4, <2>1, JobFacts, HoldFacts, BurnFacts DEF Hold, Burn, At, Job
  <2>3. QED
    BY <1>0, <1>1, <2>1, <2>2 DEF StatusWasAnnounced, Grows, LocalBecomes
<1>5. ASSUME NEW h \in Workers,
             \/ Fetched(h) \/ Read(h) \/ Cancel(h) \/ Move(h) \/ Pay(h) \/ FetchFails(h)
             \/ \E u \in posted : Receive(h, u)
             \/ \E o \in Orders :
                  \/ Create(h, o) \/ Reconcile(h, o) \/ RequestCancel(h, o)
                  \/ \E x \in 1..MaxXdrs : Submit(h, o, x)
      PROVE  UNCHANGED local
  BY <1>5 DEF Fetched, Read, Cancel, Move, Pay, FetchFails, Receive, Create, Reconcile,
              RequestCancel, Submit, table
<1>6. ASSUME \/ Restart \/ Sweep \/ UNCHANGED vars
             \/ \E v \in sweep : Visit(v)
             \/ \E tx \in pending : Land(tx)
             \/ \E o \in Orders : Sign(o) \/ \E s \in Status : Advance(o, s)
      PROVE  UNCHANGED local
  BY <1>6 DEF Restart, Sweep, Visit, Land, vars, Sign, Advance, table
<1>7. QED
  BY <1>2, <1>3, <1>4, <1>5, <1>6 DEF Next, Step, Workers

-----------------------------------------------------------------------------
\* Final speaks of the anchor alone: every step of it leads on from what is no ending, or
\* from 'completed' to 'finalized'.
LEMMA FinalStep ==
  ASSUME TypeOK, Known, Final, [Next]_vars
  PROVE  Final'
<1>1. ASSUME NEW o \in Orders, NEW s \in Status, NEW c \in BOOLEAN, Becomes(o, s, c),
             \A u \in posted : u.order = o =>
               /\ u.status \notin Ended
               /\ u.status = "completed" => s = "finalized"
      PROVE  Final'
  <2>1. /\ posted' = posted \cup {[order |-> o, status |-> s, claim |-> c]}
        /\ \A n \in Orders : n # o => up'[n] = up[n]
        /\ up'[o] = [status |-> s, claim |-> c]
    BY <1>1, BecomesFacts
  <2>2. \A u \in posted : u.order \in Orders /\ EndsAs(u.order, u.status)
    BY DEF TypeOK, Update, Final
  <2>3. ASSUME NEW u \in posted, u.order # o
        PROVE  EndsAs(u.order, u.status)'
    BY <2>1, <2>2, <2>3 DEF EndsAs
  <2>4. ASSUME NEW u \in posted, u.order = o
        PROVE  EndsAs(u.order, u.status)'
    BY <1>1, <2>1, <2>4 DEF EndsAs
  <2>5. EndsAs(o, s)'
    BY <2>1 DEF EndsAs
  <2>6. QED
    BY <2>1, <2>3, <2>4, <2>5 DEF Final
<1>2. CASE UNCHANGED <<up, posted>>
  BY <1>2 DEF Final, EndsAs
<1>3. ASSUME NEW h \in Workers, NEW o \in Orders, Create(h, o)
      PROVE  Final'
  <2>1. \A u \in posted : u.order # o
    BY <1>3 DEF Create, Known
  <2>2. QED
    BY <1>1, <1>3, <2>1 DEF Create, Status
<1>4. ASSUME NEW o \in Orders, NEW s \in Status, Advance(o, s)
      PROVE  Final'
  <2>1. /\ up[o].status \in {"created", "funded", "completed"}
        /\ up[o].status = "completed" => s = "finalized"
    BY <1>4 DEF Advance
  <2>2. up[o].claim \in BOOLEAN
    BY <2>1, RowFacts DEF Status, Absent
  <2>3. ASSUME NEW u \in posted, u.order = o
        PROVE  u.status \notin Ended /\ (u.status = "completed" => s = "finalized")
    <3>1. EndsAs(o, u.status)
      BY <2>3 DEF Final
    <3>2. QED
      BY <2>1, <3>1 DEF EndsAs, Ended
  <2>4. ASSUME NEW c \in BOOLEAN, Becomes(o, s, c)
        PROVE  Final'
    BY <1>1, <2>3, <2>4
  <2>5. QED
    BY <1>4, <2>2, <2>4 DEF Advance
<1>5. ASSUME NEW h \in Workers, Cancel(h)
      PROVE  Final'
  <2> DEFINE o == job[h].order
  <2>1. o \in Orders
    BY <1>5, JobFacts DEF Cancel, At, Job
  <2>2. CASE up[o].status = "created"
    <3>1. ASSUME NEW u \in posted, u.order = o
          PROVE  u.status \notin Ended /\ u.status # "completed"
      <4>1. EndsAs(o, u.status)
        BY <3>1 DEF Final
      <4>2. QED
        BY <2>2, <4>1 DEF EndsAs, Ended
    <3>2. Becomes(o, "canceled", FALSE)
      BY <1>5, <2>2 DEF Cancel
    <3>3. "canceled" \in Status /\ FALSE \in BOOLEAN
      BY DEF Status, Ended
    <3>4. QED
      BY <1>1, <2>1, <3>1, <3>2, <3>3
  <2>3. QED
    BY <1>2, <1>5, <2>2 DEF Cancel
<1>6. QED
  <2>1. ASSUME NEW h \in Workers,
               \/ Insert(h) \/ Fetched(h) \/ Read(h) \/ Write(h) \/ Move(h) \/ Hold(h) \/ Pay(h)
               \/ Burn(h) \/ FetchFails(h)
               \/ \E u \in posted : Receive(h, u)
               \/ \E o \in Orders :
                    Reconcile(h, o) \/ RequestCancel(h, o) \/ \E x \in 1..MaxXdrs : Submit(h, o, x)
        PROVE  UNCHANGED <<up, posted>>
    BY <2>1 DEF Insert, Fetched, Read, Write, Move, Hold, Pay, Burn, FetchFails, Receive,
                Reconcile, RequestCancel, Submit, upstream
  <2>2. ASSUME \/ Sweep \/ Restart \/ UNCHANGED vars
               \/ \E v \in sweep : Visit(v)
               \/ \E tx \in pending : Land(tx)
               \/ \E o \in Orders : Sign(o)
        PROVE  UNCHANGED <<up, posted>>
    BY <2>2 DEF Sweep, Visit, Land, Sign, Restart, vars, upstream
  <2>3. QED
    BY <1>2, <1>3, <1>4, <1>5, <2>1, <2>2 DEF Next, Step, Workers

\* A sweep reads rows that are there, and rows stay.
LEMMA SweptStep ==
  ASSUME TypeOK, Known, Tracked, Swept, [Next]_vars
  PROVE  Swept'
<1>0. Grows
  BY KnownStep
<1>1. \A v \in sweep : v.order \in Orders /\ local[v.order] # Absent
  BY DEF TypeOK, Visited, Swept
<1>2. ASSUME sweep' \subseteq sweep
      PROVE  Swept'
  BY <1>0, <1>1, <1>2 DEF Swept, Grows
<1>3. CASE Sweep
  <2>1. \A o \in Batch : o \in Orders /\ local[o] # Absent
    BY RowFacts DEF Batch, Stale
  <2>2. QED
    BY <1>0, <1>3, <2>1 DEF Sweep, Swept, Grows
<1>4. ASSUME NEW h \in Workers, Step(h) \/ FetchFails(h)
      PROVE  sweep' = sweep
  BY <1>4 DEF Step, Insert, Fetched, Read, Write, Cancel, Move, Hold, Pay, Burn, FetchFails
<1>5. ASSUME \/ \E o \in Orders : Sign(o) \/ \E st \in Status : Advance(o, st)
             \/ \E h \in Workers, o \in Orders :
                  \/ Create(h, o) \/ Reconcile(h, o) \/ RequestCancel(h, o)
                  \/ \E x \in 1..MaxXdrs : Submit(h, o, x)
             \/ \E h \in Workers, u \in posted : Receive(h, u)
             \/ \E v \in sweep : Visit(v)
             \/ \E tx \in pending : Land(tx)
             \/ Restart \/ UNCHANGED vars
      PROVE  sweep' \subseteq sweep
  BY <1>5 DEF Sign, Advance, Create, Reconcile, RequestCancel, Submit, Receive, Visit, Land,
              Restart, vars
<1>6. QED
  BY <1>2, <1>3, <1>4, <1>5 DEF Next, Workers

\* What is on record stays on record.
Lasts == \A o \in Orders : OnRecord(o) => OnRecord(o)'

\* A payment lands that is on record or was under way, is sent for what is on record, and
\* is written to the row of a transfer on record.
PaysRecorded ==
  \A o \in Orders :
    /\ paid'[o] > 0 => paid[o] > 0 \/ <<o, Payment>> \in pending \/ OnRecord(o)
    /\ <<o, Payment>> \in pending' => <<o, Payment>> \in pending \/ OnRecord(o)
    /\ local'[o] # Absent /\ local'[o].burn => (local[o] # Absent /\ local[o].burn) \/ OnRecord(o)

\* With that it is enough to look at the one job a step moves on.
LEMMA PayingIf ==
  ASSUME TypeOK, Paying, PaidIsOnRecord, Lasts, PaysRecorded, NEW h \in Workers,
         \A g \in Workers : g # h => job'[g] = job[g], Pays(h)'
  PROVE  Paying' /\ PaidIsOnRecord'
<1>1. ASSUME NEW g \in Workers, g # h
      PROVE  Pays(g)'
  <2>1. Pays(g) /\ job'[g] = job[g]
    BY <1>1 DEF Paying
  <2>2. job[g].at \in {"pay", "burn"} => job[g].order \in Orders
    BY JobFacts DEF Job, Idle
  <2>3. QED
    BY <2>1, <2>2 DEF Pays, Lasts
<1>2. \A o \in Orders : <<o, Payment>> \in pending' => OnRecord(o)'
  BY DEF Paying, Lasts, PaysRecorded
<1>3. PaidIsOnRecord'
  BY DEF Paying, PaidIsOnRecord, Lasts, PaysRecorded
<1>4. QED
  BY <1>1, <1>2, <1>3 DEF Paying

LEMMA PayingStep ==
  ASSUME TypeOK, Known, Tracked, Inserted, Paying, PaidIsOnRecord, [Next]_vars
  PROVE  Paying' /\ PaidIsOnRecord'
\* A step that leaves the rows alone and sends and lands no payment.
<1>1. ASSUME UNCHANGED <<local, paid>>,
             \A o \in Orders : <<o, Payment>> \in pending' => <<o, Payment>> \in pending
      PROVE  Lasts /\ PaysRecorded
  BY <1>1 DEF Lasts, PaysRecorded, OnRecord
\* Of a job that is not about tokens after it.
<1>2. ASSUME NEW h \in Workers, \A g \in Workers : g # h => job'[g] = job[g],
             job'[h].at \notin {"move", "hold", "pay", "burn"}, UNCHANGED <<local, paid, pending>>
      PROVE  Paying' /\ PaidIsOnRecord'
  BY <1>1, <1>2, PayingIf DEF Pays
<1>3. ASSUME NEW h \in Workers, NEW o \in Orders, NEW x \in 1..MaxXdrs, Submit(h, o, x)
      PROVE  Paying' /\ PaidIsOnRecord'
  <2>1. JobBecomes(h, job'[h]) /\ job'[h].at = "move" /\ job'[h].xdr = x
    BY <1>3, BeginFacts, Parameters DEF Submit, Places, Status
  <2>2. UNCHANGED <<local, paid, pending>> /\ Pays(h)'
    BY <1>3, <2>1 DEF Submit, table, tokens, Pays
  <2>3. QED
    BY <1>1, <2>1, <2>2, PayingIf DEF JobBecomes
<1>4. ASSUME NEW h \in Workers, Move(h)
      PROVE  Paying' /\ PaidIsOnRecord'
  <2>1. UNCHANGED <<local, paid>> /\ Busy(h) /\ job[h].xdr # 0 /\ At(h, "move")
    BY <1>4, JobFacts DEF Move, table, At, Paying, Pays
  <2>2. \A o \in Orders : <<o, Payment>> \in pending' => <<o, Payment>> \in pending
    BY <1>4, <2>1 DEF Move, Payment
  <2>3. CASE Done(h)
    BY <1>1, <2>1, <2>2, <2>3, DoneFacts, PayingIf DEF JobBecomes, Pays, Idle
  <2>4. CASE Go(h, "hold")
    <3>1. JobBecomes(h, job'[h]) /\ job'[h].at = "hold" /\ job'[h].xdr = job[h].xdr
      BY <2>1, <2>4, GoFacts DEF Places
    <3>2. QED
      BY <1>1, <2>1, <2>2, <3>1, PayingIf DEF JobBecomes, Pays
  <2>5. QED
    BY <1>4, <2>3, <2>4 DEF Move, MovedThenHold
<1>5. ASSUME NEW h \in Workers, Hold(h)
      PROVE  Paying' /\ PaidIsOnRecord'
  <2> DEFINE o == job[h].order
  <2>1. Busy(h) /\ o \in Orders /\ local[o] # Absent /\ job[h].xdr \in 0..MaxXdrs /\ job[h].xdr # 0
    BY <1>5, JobFacts DEF Hold, At, Job, Tracked, Tracks, Paying, Pays
  <2>2. LocalBecomes(o, local'[o]) /\ local'[o].hold # 0 /\ local'[o].burn = local[o].burn
    BY <1>5, <2>1, HoldFacts DEF Hold
  <2>3. JobBecomes(h, job'[h]) /\ job'[h].at = "pay" /\ job'[h].order = o
    BY <1>5, <2>1, GoFacts DEF Hold, Places
  <2>4. UNCHANGED <<paid, pending>>
    BY <1>5 DEF Hold, tokens
  <2>5. local'[o] # Absent
    BY <2>2 DEF LocalBecomes
  <2>6. Lasts /\ PaysRecorded
    BY <2>1, <2>2, <2>4, <2>5 DEF Lasts, PaysRecorded, OnRecord, LocalBecomes
  <2>7. Pays(h)'
    BY <2>2, <2>3, <2>5 DEF Pays, OnRecord
  <2>8. QED
    BY <2>3, <2>6, <2>7, PayingIf DEF JobBecomes
<1>6. ASSUME NEW h \in Workers, Pay(h)
      PROVE  Paying' /\ PaidIsOnRecord'
  <2> DEFINE o == job[h].order
  <2>1. Busy(h) /\ o \in Orders /\ OnRecord(o) /\ local' = local
    BY <1>6, JobFacts DEF Pay, At, Job, Paying, Pays, table
  <2>2. \A n \in Orders : n # o =>
          /\ paid'[n] = paid[n]
          /\ <<n, Payment>> \in pending' => <<n, Payment>> \in pending
    BY <1>6, <2>1 DEF Pay, TypeOK
  <2>3. Lasts /\ PaysRecorded
    BY <2>1, <2>2 DEF Lasts, PaysRecorded, OnRecord
  <2>4. CASE Done(h)
    BY <2>3, <2>4, DoneFacts, PayingIf DEF JobBecomes, Pays, Idle
  <2>5. CASE Go(h, "burn")
    <3>1. JobBecomes(h, job'[h]) /\ job'[h].at = "burn" /\ job'[h].order = o
      BY <2>1, <2>5, GoFacts DEF Places
    <3>2. Pays(h)'
      BY <2>1, <2>3, <3>1 DEF Pays, Lasts
    <3>3. QED
      BY <2>3, <3>1, <3>2, PayingIf DEF JobBecomes
  <2>6. QED
    BY <1>6, <2>4, <2>5 DEF Pay
<1>7. ASSUME NEW h \in Workers, Write(h) \/ Burn(h)
      PROVE  Paying' /\ PaidIsOnRecord'
  <2> DEFINE o == job[h].order
  <2>1. o \in Orders /\ local[o] # Absent /\ job[h].status \in Status
    BY <1>7, JobFacts DEF Write, Burn, At, Job, Tracked, Tracks
  <2>2. LocalBecomes(o, local'[o]) /\ local'[o].hold = local[o].hold
    BY <1>7, <2>1, StatusFacts, BurnFacts DEF Write, Burn
  <2>3. local'[o].burn = local[o].burn \/ OnRecord(o)
    BY <1>7, <2>1, StatusFacts DEF Write, Burn, At, Paying, Pays
  <2>4. JobBecomes(h, Idle) /\ UNCHANGED <<paid, pending>>
    BY <1>7, DoneFacts DEF Write, Burn, tokens
  <2>5. Lasts /\ PaysRecorded
    BY <2>1, <2>2, <2>3, <2>4 DEF Lasts, PaysRecorded, OnRecord, LocalBecomes
  <2>6. QED
    BY <2>4, <2>5, PayingIf DEF JobBecomes, Pays, Idle
<1>8. ASSUME NEW h \in Workers, Insert(h)
      PROVE  Paying' /\ PaidIsOnRecord'
  <2> DEFINE o == job[h].order
  <2>1. o \in Orders /\ local[o] = Absent
    BY <1>8, InsertFacts DEF Insert, Inserted
  <2>2. LocalBecomes(o, [status |-> "created", hold |-> 0, burn |-> FALSE])
    BY <1>8, InsertFacts
  <2>3. JobBecomes(h, Idle) /\ UNCHANGED <<paid, pending>>
    BY <1>8, DoneFacts DEF Insert, tokens
  <2>4. Lasts /\ PaysRecorded
    BY <2>1, <2>2, <2>3 DEF Lasts, PaysRecorded, OnRecord, LocalBecomes
  <2>5. QED
    BY <2>3, <2>4, PayingIf DEF JobBecomes, Pays, Idle
<1>9. ASSUME NEW h \in Workers, Fetched(h) \/ Read(h) \/ Cancel(h) \/ FetchFails(h)
      PROVE  Paying' /\ PaidIsOnRecord'
  <2>1. UNCHANGED <<local, paid, pending>> /\ Busy(h)
    BY <1>9, JobFacts DEF Fetched, Read, Cancel, FetchFails, table, tokens, At
  <2>2. \A g \in Workers : g # h => job'[g] = job[g]
    BY <1>9, OthersStay DEF Fetched, Read, Cancel, FetchFails, Places
  <2>3. job'[h].at \in {"idle", "read", "write"}
    <3>1. CASE Done(h)
      BY <3>1, DoneFacts DEF JobBecomes, Idle
    <3>2. CASE Go(h, "write")
      BY <2>1, <3>2, GoFacts DEF Places
    <3>3. ASSUME NEW place \in {"read", "write"}, NEW u, Carry(h, place, u)
          PROVE  job'[h].at = place
      BY <3>3 DEF Carry, TypeOK
    <3>4. QED
      BY <1>9, <3>1, <3>2, <3>3 DEF Fetched, Read, Cancel, FetchFails
  <2>4. QED
    BY <1>2, <2>1, <2>2, <2>3
<1>10. ASSUME NEW h \in Workers,
              \/ \E u \in posted : Receive(h, u)
              \/ \E o \in Orders : Create(h, o) \/ Reconcile(h, o) \/ RequestCancel(h, o)
       PROVE  Paying' /\ PaidIsOnRecord'
  <2>1. UNCHANGED <<local, paid, pending>>
    BY <1>10 DEF Receive, Create, Reconcile, RequestCancel, table, tokens
  <2>2. /\ \A g \in Workers : g # h => job'[g] = job[g]
        /\ job'[h].at \in {"read", "insert", "fetch", "cancel"}
    <3>1. CASE \E u \in posted : Receive(h, u)
      BY <3>1 DEF Receive, Carry, TypeOK
    <3>2. CASE \E o \in Orders : Create(h, o)
      BY <3>2 DEF Create, TypeOK
    <3>3. CASE \E o \in Orders : Reconcile(h, o) \/ RequestCancel(h, o)
      BY <3>3 DEF Reconcile, RequestCancel, Begin, TypeOK
    <3>4. QED
      BY <1>10, <3>1, <3>2, <3>3
  <2>3. QED
    BY <1>2, <2>1, <2>2
<1>11. ASSUME NEW v \in sweep, Visit(v)
       PROVE  Paying' /\ PaidIsOnRecord'
  <2>1. /\ \A g \in Workers : g # Cron => job'[g] = job[g]
        /\ job'[Cron].at = "fetch" /\ Cron \in Workers
    BY <1>11 DEF Visit, TypeOK, Workers
  <2>2. UNCHANGED <<local, paid, pending>>
    BY <1>11 DEF Visit, table, tokens
  <2>3. QED
    BY <1>2, <2>1, <2>2
<1>12. CASE Restart
  <2>1. UNCHANGED <<local, paid, pending>> /\ \A g \in Workers : job'[g] = Idle
    BY <1>12 DEF Restart, table, tokens
  <2>2. QED
    BY <1>1, <2>1 DEF Paying, Pays, Idle, PaidIsOnRecord, Lasts, PaysRecorded
<1>13. ASSUME UNCHANGED job, Lasts, PaysRecorded
       PROVE  Paying' /\ PaidIsOnRecord'
  <2>1. \A h \in Workers : Pays(h)'
    <3>1. ASSUME NEW h \in Workers
          PROVE  Pays(h)'
      <4>1. job[h].at \in {"pay", "burn"} => job[h].order \in Orders
        BY JobFacts DEF Job, Idle
      <4>2. QED
        BY <1>13, <4>1 DEF Paying, Pays, Lasts
    <3>2. QED
      BY <3>1
  <2>2. QED
    BY <1>13, <2>1 DEF Paying, PaidIsOnRecord, Lasts, PaysRecorded
<1>14. ASSUME \/ UNCHANGED vars \/ Sweep
              \/ \E tx \in pending : Land(tx)
              \/ \E o \in Orders : Sign(o) \/ \E st \in Status : Advance(o, st)
       PROVE  UNCHANGED job /\ Lasts /\ PaysRecorded
  <2>1. CASE \E tx \in pending : Land(tx)
    <3>1. PICK tx \in pending : Land(tx)
      BY <2>1
    <3>2. tx[1] \in Orders /\ tx = <<tx[1], tx[2]>>
      BY DEF TypeOK
    <3>3. \A o \in Orders : paid'[o] = paid[o] \/ <<o, Payment>> \in pending
      BY <3>1, <3>2 DEF Land, TypeOK
    <3>4. QED
      BY <3>1, <3>3 DEF Land, table, Lasts, PaysRecorded, OnRecord
  <2>2. CASE \/ UNCHANGED vars \/ Sweep
             \/ \E o \in Orders : Sign(o) \/ \E st \in Status : Advance(o, st)
    <3>1. UNCHANGED <<local, paid, pending, job>>
      BY <2>2 DEF vars, Sweep, Sign, Advance, table, tokens
    <3>2. QED
      BY <1>1, <3>1
  <2>3. QED
    BY <1>14, <2>1, <2>2
<1>15. QED
  BY <1>3, <1>4, <1>5, <1>6, <1>7, <1>8, <1>9, <1>10, <1>11, <1>12, <1>13, <1>14
  DEF Next, Step, Workers

-----------------------------------------------------------------------------
Invariant ==
  /\ TypeOK /\ Known /\ Final /\ Tracked /\ Inserted /\ Swept /\ Paying
  /\ StatusWasAnnounced /\ PaidIsOnRecord

LEMMA Holds == Spec => []Invariant
<1>1. Init => Invariant
  BY InitFacts DEF Invariant
<1>2. Invariant /\ [Next]_vars => Invariant'
  BY TypeStep, KnownStep, FinalStep, TrackedStep, InsertedStep, SweptStep, AnnouncedStep, PayingStep
  DEF Invariant
<1>3. QED
  BY <1>1, <1>2, PTL DEF Spec

\* Orders, rows, announcements, jobs and tokens keep their types: a row never has a
\* status outside the anchor's eight.
THEOREM TypeCorrect == Spec => []TypeOK
<1>1. Invariant => TypeOK
  BY DEF Invariant
<1>2. QED
  BY <1>1, Holds, PTL

\* A row of ramp_orders only has a status that the anchor has announced for the order and
\* without a claim, for any number of webhooks, reconcilers and cancellations at once.
THEOREM RowsWereAnnounced == Spec => []StatusWasAnnounced
<1>1. Invariant => StatusWasAnnounced
  BY DEF Invariant
<1>2. QED
  BY <1>1, Holds, PTL

\* A row that shows an ending shows the anchor's, though every write of a status is by id
\* and looks at nothing: the ending was announced, and an announced ending is final.
THEOREM EndingsAreFinal == Spec => []EndingsAgree
<1>1. ASSUME Invariant
      PROVE  EndingsAgree
  <2>1. ASSUME NEW o \in Orders, local[o].status \in Ended \cup {"completed"}
        PROVE  EndsAs(o, local[o].status)
    <3>1. local[o] # Absent
      BY <1>1, <2>1, RowFacts DEF Invariant, Status
    <3>2. [order |-> o, status |-> local[o].status, claim |-> FALSE] \in posted
      BY <1>1, <3>1 DEF Invariant, StatusWasAnnounced
    <3>3. QED
      BY <1>1, <3>2 DEF Invariant, Final
  <2>2. QED
    BY <2>1 DEF EndingsAgree, EndsAs
<1>2. QED
  BY <1>1, Holds, PTL

\* The anchor is only paid for orders whose row names a transfer, and only such a row names
\* a payment, for any number of submissions, restarts, timeouts and early answers.
THEOREM PaymentsAreOnRecord == Spec => []PaidIsOnRecord
<1>1. Invariant => PaidIsOnRecord
  BY DEF Invariant
<1>2. QED
  BY <1>1, Holds, PTL
=============================================================================
