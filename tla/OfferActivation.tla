--------------------------- MODULE OfferActivation ---------------------------
(***************************************************************************)
(* How an approved offer goes live: OfferService builds one transaction,   *)
(* and after that every executed transaction queues the next one from its  *)
(* hook in processEffects, each signed by the issuer in the queue of       *)
(* module MultiSig: sac_deploy, sale_deploy, sale_create,                  *)
(* contract_deposit_auth, contract_deposit_transfer, contract_resume.      *)
(* A transaction that is rejected, expires or fails is undone by           *)
(* processRejectionEffects.  The offer's sorobanInitStatus is the only     *)
(* memory of how far the pipeline has come; the chain may be further.      *)
(***************************************************************************)
EXTENDS Integers, FiniteSets

CONSTANTS
  Handlers,      \* requests on the queue in flight at the same time
  Launches,      \* reviews, issues, activations and retries in flight at the same time
  Slots,         \* bound on the queue's rows of one operation
  MaxBuilds, MaxFaults,
  MaxTrouble,    \* bound on timeouts, rejections, expiries, errors, restarts, overlapping
                 \* requests, second reviews, activations and retries of what has not failed
  Issuer         \* the only required signer

ASSUME Bounds ==
  /\ MaxBuilds \in Nat \ {0}
  /\ {MaxFaults, MaxTrouble} \subseteq Nat

Operations == {"sac_deploy", "sale_deploy", "sale_create", "contract_deposit_auth",
               "contract_deposit_transfer", "contract_resume"}

Rows == Operations \X (1..Slots)

VARIABLES
  row, late, req, seq, sent, landed, built, faults,   \* the queue
  status,        \* offer.status
  init,          \* offer.sorobanInitStatus
  token,         \* the offer's Token row: none, without and with sacContractId
  act,           \* where each run of review, issue or activateOffer is
  chain,         \* the two contracts, and the tokens deposited into the sale
  trouble

queue == <<row, late, req, seq, sent, landed, built, faults>>
offer == <<status, init, token>>
vars  == <<queue, offer, act, chain, trouble>>

\* The rebuild of the transfer reads a metadata field that its row does not have, and
\* sac_deploy is not in the list of operations to rebuild.
Q == INSTANCE MultiSig WITH
       Signers <- {Issuer}, Threshold <- [r \in Rows |-> 1], DevKeys <- FALSE, MaxPosts <- 0,
       Rebuildable <- {r \in Rows : r[1] \notin {"sac_deploy", "contract_deposit_transfer"}}

Runs == Handlers \cup Launches

TypeOK ==
  /\ Q!TypeOK
  /\ status \in {"pending", "approved", "rejected", "active"}
  /\ init \in {"none", "deploying", "deployed", "created", "failed"}
  /\ token \in {"none", "issued", "sac"}
  /\ act \in [Runs -> {"none", "issue", "sac", "begin", "deploy", "queue", "create"}]
  /\ chain \in [sac : BOOLEAN, deployed : BOOLEAN, created : BOOLEAN, authorised : BOOLEAN,
                live : BOOLEAN, deposits : Nat]
  /\ trouble \in 0..MaxTrouble

Init ==
  /\ Q!Init
  /\ status = "pending" /\ init = "none" /\ token = "none"
  /\ act = [p \in Runs |-> "none"]
  /\ chain = [sac |-> FALSE, deployed |-> FALSE, created |-> FALSE, authorised |-> FALSE,
              live |-> FALSE, deposits |-> 0]
  /\ trouble = 0

Goto(p, place) == act' = [act EXCEPT ![p] = place]
Trouble == trouble < MaxTrouble /\ trouble' = trouble + 1
Smooth  == UNCHANGED trouble

-----------------------------------------------------------------------------
(* The chain *)

\* What a transaction needs to succeed: on the network, and in the simulation that
\* prepareSorobanTransaction runs when it is built.
Succeeds(op) ==
  CASE op = "sac_deploy"                -> ~chain.sac
    [] op = "sale_deploy"               -> ~chain.deployed
    [] op = "sale_create"               -> chain.deployed /\ ~chain.created
    [] op = "contract_deposit_auth"     -> chain.sac
    [] op = "contract_deposit_transfer" -> chain.authorised
    [] op = "contract_resume"           -> chain.created

Execute(op) ==
  chain' = CASE op = "sac_deploy"                -> [chain EXCEPT !.sac = TRUE]
             [] op = "sale_deploy"               -> [chain EXCEPT !.deployed = TRUE]
             [] op = "sale_create"               -> [chain EXCEPT !.created = TRUE]
             [] op = "contract_deposit_auth"     -> [chain EXCEPT !.authorised = TRUE]
             [] op = "contract_deposit_transfer" -> [chain EXCEPT !.deposits = @ + 1]
             [] op = "contract_resume"           -> [chain EXCEPT !.live = TRUE]

Land(m) ==
  /\ Succeeds(m.row[1])
  /\ Q!Land(m) /\ Execute(m.row[1])
  /\ UNCHANGED <<offer, act, trouble>>

Bounce(m) ==
  /\ ~Succeeds(m.row[1])
  /\ Q!Bounce(m)
  /\ UNCHANGED <<offer, act, chain, trouble>>

-----------------------------------------------------------------------------
(* Review, issue and activation *)

Free(op) == {k \in 1..Slots : row[<<op, k>>].status = "none"}

\* TransactionManager.submit.
Enqueue(op) ==
  /\ Free(op) # {}
  /\ row' = [row EXCEPT ![<<op, CHOOSE k \in Free(op) : TRUE>>] = Q!Fresh]

KeepQueue == UNCHANGED <<late, req, seq, sent, landed, built, faults>>

\* reviewOffer: no look at the offer's present status.
Review(p, decision) ==
  /\ act[p] = "none"
  /\ IF status = "pending" THEN Smooth ELSE Trouble
  /\ status' = decision
  /\ Goto(p, IF decision = "approved" THEN "issue" ELSE "none")
  /\ UNCHANGED <<queue, init, token, chain>>

\* POST /:id/issue.
RequestIssue(p) ==
  /\ act[p] = "none" /\ status = "approved" /\ token = "none"
  /\ \A k \in 1..Slots : row[<<"sac_deploy", k>>].status # "pending"
  /\ Goto(p, "issue")
  /\ UNCHANGED <<queue, offer, chain, trouble>>

\* OfferService.issueTokenFromOffer: the Token row comes first.
Issue(p) ==
  /\ act[p] = "issue"
  /\ IF status = "approved" /\ token = "none"
     THEN token' = "issued" /\ Goto(p, "sac")
     ELSE UNCHANGED token /\ Goto(p, "none")
  /\ UNCHANGED <<queue, status, init, chain, trouble>>

\* deploySACForAsset throws when the SAC is there already.
QueueSac(p) ==
  /\ act[p] = "sac" /\ Goto(p, "none")
  /\ IF Succeeds("sac_deploy") THEN Enqueue("sac_deploy") ELSE UNCHANGED row
  /\ KeepQueue /\ UNCHANGED <<offer, chain, trouble>>

\* activateOffer, from its routes.
RequestActivation(p) ==
  /\ act[p] = "none" /\ Goto(p, "begin")
  /\ IF init = "failed" THEN Smooth ELSE Trouble
  /\ UNCHANGED <<queue, offer, chain>>

Activatable == token = "sac" /\ status = "approved" /\ init \notin {"deploying", "deployed"}

Begin(p) ==
  /\ act[p] = "begin"
  /\ Goto(p, IF Activatable THEN "deploy" ELSE "none")
  /\ UNCHANGED <<queue, offer, chain, trouble>>

\* retrySorobanInit: no look at the offer's status, nor at the token's SAC.
Retry(p) ==
  /\ act[p] = "none" /\ init \in {"none", "failed"} /\ token # "none"
  /\ IF init = "failed" THEN Smooth ELSE Trouble
  /\ Goto(p, "deploy")
  /\ UNCHANGED <<queue, offer, chain>>

\* Mutant: the contract is taken to exist already.
DeployUnchecked(p) ==
  /\ act[p] = "deploy"
  /\ init' = "deployed" /\ Goto(p, "create")
  /\ UNCHANGED <<queue, status, token, chain, trouble>>

\* #initSorobanDeploy: the status is written before the transaction is queued.
Deploy(p) ==
  /\ act[p] = "deploy"
  /\ init' = IF chain.deployed THEN "deployed" ELSE "deploying"
  /\ Goto(p, IF chain.deployed THEN "create" ELSE "queue")
  /\ UNCHANGED <<queue, status, token, chain, trouble>>

QueueDeploy(p) ==
  /\ act[p] = "queue" /\ Goto(p, "none")
  /\ Enqueue("sale_deploy")
  /\ KeepQueue /\ UNCHANGED <<offer, chain, trouble>>

\* The contract is there: create() is next.  A throw leaves 'deployed'.
QueueCreate(p) ==
  /\ act[p] = "create" /\ Goto(p, "none")
  /\ IF token = "sac" /\ Succeeds("sale_create") THEN Enqueue("sale_create") ELSE UNCHANGED row
  /\ KeepQueue /\ UNCHANGED <<offer, chain, trouble>>

\* An RPC or database call throws, and the request with it.
Throw(p) ==
  /\ Trouble
  /\ act[p] # "none" /\ Goto(p, "none")
  /\ UNCHANGED <<queue, offer, chain>>

Run(p) == Issue(p) \/ QueueSac(p) \/ Begin(p) \/ Deploy(p) \/ QueueDeploy(p) \/ QueueCreate(p)

-----------------------------------------------------------------------------
(* The hooks of processEffects *)

Operation(h) == req[h].row[1]

\* The first transaction's hook goes on to activate the offer; a Token row that a
\* rejection has deleted makes it throw.
AfterSacDeploy(h) ==
  /\ IF token = "none" THEN UNCHANGED <<token, act>> ELSE token' = "sac" /\ Goto(h, "begin")
  /\ UNCHANGED <<row, status, init>>

\* A hook that writes `done` and queues the next transaction, or `undone`.
Chain(next, builds, done, undone) ==
  /\ IF builds THEN init' = done /\ Enqueue(next) ELSE init' = undone /\ UNCHANGED row
  /\ UNCHANGED <<status, token, act>>

\* Mutant: the sale is resumed before the tokens are deposited.
ResumeFirst(h) ==
  Chain("contract_resume", Succeeds("contract_resume"), init, init)

AfterDepositAuth(h) ==
  Chain("contract_deposit_transfer", Succeeds("contract_deposit_transfer"), init, init)

\* Mutant: the transfer's row loses the autoActivateOffer flag.
NotActivated(h) == req[h].row \in Rows /\ UNCHANGED <<row, offer, act>>

AfterDepositTransfer(h) ==
  Chain("contract_resume", Succeeds("contract_resume"), init, init)

AfterResume(h) == status' = "active" /\ UNCHANGED <<row, init, token, act>>

Hook(h) ==
  CASE Operation(h) = "sac_deploy" -> AfterSacDeploy(h)
    [] Operation(h) = "sale_deploy" ->
         Chain("sale_create", token = "sac" /\ Succeeds("sale_create"), "deployed", "failed")
    [] Operation(h) = "sale_create" ->
         Chain("contract_deposit_auth", token = "sac" /\ Succeeds("contract_deposit_auth"),
               "created", "failed")
    [] Operation(h) = "contract_deposit_auth" -> AfterDepositAuth(h)
    [] Operation(h) = "contract_deposit_transfer" -> AfterDepositTransfer(h)
    [] Operation(h) = "contract_resume" -> AfterResume(h)

\* The same hook when one of its calls throws after its first write.
HookFails(h) ==
  /\ init' = CASE Operation(h) \in {"sale_deploy", "sale_create"} -> "failed"
               [] OTHER -> init
  /\ UNCHANGED <<row, status, token, act>>

Approve(h) ==
  /\ Q!Approve(h)
  /\ (Hook(h) /\ Smooth) \/ (HookFails(h) /\ Trouble)
  /\ UNCHANGED chain

RecordExecuted(h) ==
  /\ act[h] = "none"
  /\ Q!RecordExecuted(h)
  /\ UNCHANGED <<offer, act, chain, trouble>>

\* processRejectionEffects.
Undo(h) ==
  /\ Q!Undo(h)
  /\ IF Operation(h) = "sac_deploy"
     THEN token' = "none" /\ UNCHANGED init
     ELSE init' = "failed" /\ UNCHANGED token
  /\ UNCHANGED <<row, status, act, chain, trouble>>

-----------------------------------------------------------------------------
(* The queue's other steps *)

\* The network has decided against the transaction; any other failure is a timeout.
Refused(h) == req[h].xdr.seq < seq /\ ~Q!Success(h)

Fail(h) ==
  /\ Q!RecordFailed(h)
  /\ IF Refused(h) THEN Smooth ELSE Trouble
  /\ UNCHANGED <<offer, act, chain>>

Serve(h) ==
  /\ \/ Q!StoreSignature(h) \/ Q!Load(h) \/ Q!Send(h) \/ Q!Reject(h) \/ Q!Expire(h)
  /\ UNCHANGED <<offer, act, chain, trouble>>

Alone == \A h \in Handlers : Q!At(h, "idle")

Ask(h, r) ==
  /\ \/ Q!Sign(h, r, Issuer) \/ Q!RequestSubmit(h, r) \/ Q!FindExpired(h, r) \/ Q!ReadToReject(h, r)
  /\ IF Alone /\ req'[h].at # "reject" THEN Smooth ELSE Trouble
  /\ UNCHANGED <<offer, act, chain>>

\* Fetched to be signed; it makes a difference when the sequence number was missed.
Fetch(r) ==
  /\ row[r].status \in Q!Waiting /\ row[r].xdr.seq # seq
  /\ Q!Rebuild(r)
  /\ UNCHANGED <<offer, act, chain, trouble>>

\* Of no consequence to a row that has come to its end.
Lapse(r) ==
  /\ row[r].status \notin Q!Final
  /\ Q!Lapse(r) /\ Trouble
  /\ UNCHANGED <<offer, act, chain>>

Restart ==
  /\ Q!Restart /\ Trouble
  /\ act' = [p \in Runs |-> "none"]
  /\ UNCHANGED <<offer, chain>>

HandlerStep(h) == Approve(h) \/ RecordExecuted(h) \/ Undo(h) \/ Fail(h) \/ Serve(h)

Next ==
  \/ \E p \in Launches :
       \/ \E decision \in {"approved", "rejected"} : Review(p, decision)
       \/ RequestIssue(p) \/ RequestActivation(p) \/ Retry(p)
  \/ \E p \in Runs :
       \/ Issue(p) \/ QueueSac(p) \/ Begin(p) \/ Deploy(p) \/ QueueDeploy(p) \/ QueueCreate(p)
       \/ Throw(p)
  \/ \E h \in Handlers :
       \/ Approve(h) \/ RecordExecuted(h) \/ Undo(h) \/ Fail(h) \/ Serve(h)
       \/ \E r \in Rows : Ask(h, r)
  \/ \E r \in Rows : Fetch(r) \/ Lapse(r)
  \/ \E m \in sent : Land(m) \/ Bounce(m)
  \/ Restart

Spec == Init /\ [][Next]_vars

(***************************************************************************)
(* The event loop runs every request on, the network takes transactions in *)
(* their turn, and the issuer signs what is waiting, often enough.         *)
(***************************************************************************)
Fairness ==
  /\ \A p \in Runs : WF_vars(Run(p))
  /\ \A h \in Handlers : WF_vars(HandlerStep(h))
  /\ SF_vars(\E h \in Handlers, r \in Rows : Ask(h, r) /\ Q!Sign(h, r, Issuer))
  /\ WF_vars(\E m \in sent : Land(m) \/ Bounce(m))

FairSpec == Spec /\ Fairness

-----------------------------------------------------------------------------
(***************************************************************************)
(* Properties                                                              *)
(***************************************************************************)

\* An offer is only shown as active when its sale was created on chain, was given the
\* tokens and then resumed, however rejections, retries and overlapping requests went.
ActiveInOrder == status = "active" => chain.created /\ chain.deposits > 0 /\ chain.live

\* What the database remembers of the pipeline is never ahead of the chain.
InitNotAhead ==
  /\ init \in {"deployed", "created"} => chain.deployed
  /\ init = "created" => chain.created
  /\ token = "sac" => chain.sac

\* As long as nothing is rejected, expires or fails and requests come one by one, an
\* offer being deployed goes live without another click than the issuer's signatures.
PipelineCompletes ==
  [](trouble = 0 /\ faults = 0 /\ init # "failed")
    => (init = "deploying" /\ token = "sac" ~> status = "active")

=============================================================================
