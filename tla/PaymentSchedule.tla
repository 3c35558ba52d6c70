--------------------------- MODULE PaymentSchedule ---------------------------
(***************************************************************************)
(* The due dates of one offer that has sold its tokens, and what becomes   *)
(* of an offer that is not paid.  Four daily jobs (bullet maturity and     *)
(* payment notices, overdue check, completed schedules, reminders) each    *)
(* read the offer, decide, send mail and write one or two columns by id.   *)
(* Beside them the company pays yields, the principal is settled, and an   *)
(* admin pauses, declares a default or distributes the collateral.         *)
(* Nothing locks the offer between a read and the write that follows.      *)
(***************************************************************************)
EXTENDS Integers, FiniteSets

CONSTANTS
  Requests,      \* requests in work at the same time
  Month,         \* days of a month
  Frequency,     \* paymentFrequency, which goes with paymentType: months between payments
  PaymentDay,    \* days from the first of a month to the payment day
  Maturity,      \* maturityDate, in days after the offer was created
  Grace,         \* GRACE_PERIOD_DAYS
  Soon,          \* 30 days: a payment is 'upcoming'
  LastDay,       \* the calendar goes on from here a period earlier
  MaxFaults      \* bound on restarts and missed jobs

Period == Month * Frequency

ASSUME Parameters ==
  /\ {Month, Frequency, Maturity, LastDay} \subseteq Nat \ {0}
  /\ {PaymentDay, Grace, Soon, MaxFaults} \subseteq Nat
  /\ PaymentDay < Month
  /\ LastDay >= Maturity + Grace + Period + 1

VARIABLES
  kind,          \* bullet or periodic; collateral (debt) or a sale
  offer,         \* status, paymentDueStatus, nextPaymentDue, periodicPaymentsCompleted
  day,           \* today
  stage,         \* the job that is next today
  cron,          \* what a job has decided to write
  req,           \* what each request is about to do
  signed,        \* whether a collateral distribution has been prepared and signed
  missed,        \* history: a due date on the row, or the maturity, is past by more than the grace
  faults

requests == <<req, signed>>
calendar == <<kind, day, missed>>
scheduleVars == <<offer, stage, cron, requests, calendar, faults>>

-----------------------------------------------------------------------------
NoDate == -1
DueStatus == {"current", "upcoming", "due", "overdue", "defaulted"}
Status == {"active", "paused", "matured", "defaulted", "closed"}
After == [scheduled |-> "overdue", overdue |-> "completed", completed |-> "reminder",
          reminder |-> "over", over |-> "over"]
Lost == [scheduled |-> "reminder", overdue |-> "reminder", completed |-> "reminder",
         reminder |-> "over", over |-> "over"]
Idle == [at |-> "idle", due |-> "current"]

ScheduleTypeOK ==
  /\ kind \in [bullet : BOOLEAN, collateral : BOOLEAN]
  /\ offer \in [status : Status, due : DueStatus, next : Nat \cup {NoDate}, made : Nat]
  /\ day \in Nat /\ stage \in DOMAIN After
  /\ cron \in [at : {"idle", "mature", "notify", "escalate", "flag", "remind"}, due : DueStatus]
  /\ req \in [Requests -> {"idle", "pay", "close", "declare", "seize", "pause", "resume"}]
  /\ signed \in BOOLEAN /\ missed \in BOOLEAN
  /\ faults \in 0..MaxFaults

\* An offer that has just gone live: nothing writes its first nextPaymentDue.
ScheduleInit ==
  /\ kind \in [bullet : BOOLEAN, collateral : BOOLEAN]
  /\ offer = [status |-> "active", due |-> "current", next |-> NoDate, made |-> 0]
  /\ day = 0 /\ stage = "over" /\ cron = Idle
  /\ req = [h \in Requests |-> "idle"]
  /\ signed = FALSE /\ missed = FALSE
  /\ faults = 0

-----------------------------------------------------------------------------
(* Dates *)

\* _advanceByPeriod: the payment day of the month that is a period later.
AdvanceByPeriod(d) == (d \div Month + Frequency) * Month + PaymentDay

\* computeTotalExpectedPayments: the payment days up to maturity.
TotalExpected ==
  IF kind.bullet THEN 0
  ELSE Cardinality({k \in 1..Maturity : k * Period + PaymentDay <= Maturity})

\* calculateNextPaymentDate, for a payment made today.
NextPayment == IF AdvanceByPeriod(day) > Maturity THEN NoDate ELSE AdvanceByPeriod(day)

\* Mutant: offers that have made all their payments are not skipped.
UnfinishedAlways == offer.made \in Nat

\* The filter of the overdue check and of the reminders.
Unfinished == kind.bullet \/ offer.made < TotalExpected

-----------------------------------------------------------------------------
(* The daily jobs: a find reads and decides, a write follows later *)

Turn(s) == stage = s /\ cron = Idle
Find(place, due) == cron' = [at |-> place, due |-> due] /\ UNCHANGED stage
Pass == stage' = After[stage] /\ UNCHANGED cron
EndJob == stage' = After[stage] /\ cron' = Idle

KeepRest == UNCHANGED <<requests, calendar, faults>>

\* processAllScheduledPayments: a bullet that is due, or a notice on the first of a month.
MatureNow == kind.bullet /\ offer.status = "active" /\ Maturity <= day
NotifyNow ==
  /\ ~kind.bullet /\ offer.status = "active" /\ offer.next # NoDate
  /\ day % Month = 0 /\ (day \div Month) % Frequency = 0

FindScheduled ==
  /\ Turn("scheduled")
  /\ \/ MatureNow /\ Find("mature", "current")
     \/ NotifyNow /\ Find("notify", "due")
     \/ ~MatureNow /\ ~NotifyNow /\ Pass
  /\ UNCHANGED offer /\ KeepRest

Mature ==
  /\ cron.at = "mature" /\ EndJob
  /\ offer' = [offer EXCEPT !.status = "matured"]
  /\ KeepRest

\* The notice moves the due date to today, whatever it was.
Notify ==
  /\ cron.at = "notify" /\ EndJob
  /\ offer' = [offer EXCEPT !.due = "due", !.next = day]
  /\ KeepRest

\* Mutant: only active bullets, as before processBulletPayments turned them 'matured'.
MaturingActive == offer.status = "active"

\* The statuses of the bullets that the overdue check and the reminders look at.
Maturing == offer.status \in {"active", "matured"}

\* Mutant: the last day of grace is one too many.
EscalationEarly == IF day - offer.next >= Grace THEN "defaulted" ELSE "overdue"

\* The overdue check declares periodic offers in default, never bullets.
Escalation == IF day - offer.next > Grace THEN "defaulted" ELSE "overdue"

Late == ~kind.bullet /\ offer.status = "active" /\ offer.next \in 0..(day - 1) /\ Unfinished
LateBullet == kind.bullet /\ Maturing /\ Maturity <= day

Overdue == IF kind.bullet THEN (IF day > Maturity THEN "overdue" ELSE "due") ELSE Escalation

\* checkOverduePayments, sections 1 and 2.
FindOverdue ==
  /\ Turn("overdue")
  /\ IF (Late \/ LateBullet) /\ offer.due # "defaulted" /\ Overdue # offer.due
     THEN Find("escalate", Overdue) ELSE Pass
  /\ UNCHANGED offer /\ KeepRest

Escalate ==
  /\ cron.at = "escalate" /\ EndJob
  /\ offer' = [offer EXCEPT !.due = cron.due, !.next = IF kind.bullet THEN Maturity ELSE @]
  /\ KeepRest

\* checkOverduePayments, section 3: all yields paid, the principal is due.
FindCompleted ==
  /\ Turn("completed")
  /\ IF /\ ~kind.bullet /\ offer.status = "active" /\ Maturity <= day /\ offer.next = NoDate
        /\ offer.due # "due" /\ offer.made >= TotalExpected
     THEN Find("flag", "due") ELSE Pass
  /\ UNCHANGED offer /\ KeepRest

\* updatePaymentDueStatus
Reminded ==
  LET ahead == offer.next - day IN
  CASE ahead < -Grace -> IF kind.collateral /\ Maturity <= day THEN "overdue" ELSE "defaulted"
    [] ahead < 0 /\ ahead >= -Grace -> "overdue"
    [] ahead = 0 -> "due"
    [] ahead > 0 /\ ahead <= Soon -> "upcoming"
    [] ahead > 0 /\ ahead > Soon -> "current"

\* processReminders: the mail goes out between the read and the write.
FindReminder ==
  /\ Turn("reminder")
  /\ IF /\ offer.status \in {"active", "matured"} /\ offer.next # NoDate
        /\ offer.due # "defaulted" /\ Unfinished /\ Reminded # offer.due
     THEN Find("remind", Reminded) ELSE Pass
  /\ UNCHANGED offer /\ KeepRest

WriteDue ==
  /\ cron.at \in {"flag", "remind"} /\ EndJob
  /\ offer' = [offer EXCEPT !.due = cron.due]
  /\ KeepRest

\* The mail server or the database throws: the rest of that try block is lost.
JobFails ==
  /\ faults < MaxFaults /\ faults' = faults + 1
  /\ stage # "over" /\ cron' = Idle
  /\ stage' = IF stage = "scheduled" THEN "overdue" ELSE Lost[stage]
  /\ UNCHANGED <<offer, requests, calendar>>

-----------------------------------------------------------------------------
(* Requests *)

At(h, place) == req[h] = place
Go(h, place) == req' = [req EXCEPT ![h] = place]
KeepJobs == UNCHANGED <<stage, cron, calendar, faults>>

\* processSignedBatches up to the relaying of its batches.
Pay(h) ==
  /\ At(h, "idle") /\ ~kind.bullet /\ offer.made < TotalExpected
  /\ Go(h, "pay")
  /\ UNCHANGED <<offer, signed>> /\ KeepJobs

\* All batches were confirmed, some of them, or none; or the update throws.
CountPeriod(h) ==
  /\ At(h, "pay") /\ Go(h, "idle")
  /\ \/ offer' = [offer EXCEPT !.due = "current", !.next = NextPayment, !.made = @ + 1]
     \/ offer' = [offer EXCEPT !.due = "overdue"]
     \/ UNCHANGED offer
  /\ UNCHANGED signed /\ KeepJobs

\* executeFullSettlement, of a debt offer in whatever status.
Settle(h) ==
  /\ At(h, "idle") /\ kind.collateral
  /\ Go(h, "close")
  /\ UNCHANGED <<offer, signed>> /\ KeepJobs

Close(h) ==
  /\ At(h, "close") /\ Go(h, "idle")
  /\ offer' = [offer EXCEPT !.status = "closed", !.due = "current"] \/ UNCHANGED offer
  /\ UNCHANGED signed /\ KeepJobs

\* POST /settlements/:offerId/mark-defaulted: neither 'closed' nor a payment is looked at.
MarkDefaulted(h) ==
  /\ At(h, "idle") /\ kind.collateral
  /\ offer.status # "defaulted" /\ day - Maturity > Grace
  /\ Go(h, "declare")
  /\ UNCHANGED <<offer, signed>> /\ KeepJobs

Declare(h) ==
  /\ At(h, "declare") /\ Go(h, "idle")
  /\ offer' = [offer EXCEPT !.status = "defaulted", !.due = "defaulted"]
  /\ UNCHANGED signed /\ KeepJobs

\* prepareCollateralDistribution, and an admin signs.
PrepareCollateral ==
  /\ offer.due = "defaulted" /\ offer.status \in {"active", "defaulted"} /\ ~signed
  /\ signed' = TRUE
  /\ UNCHANGED <<offer, req>> /\ KeepJobs

\* processCollateralDistribution: the signed transaction is sent without another look.
DistributeCollateral(h) ==
  /\ At(h, "idle") /\ signed
  /\ Go(h, "seize")
  /\ UNCHANGED <<offer, signed>> /\ KeepJobs

Seize(h) ==
  /\ At(h, "seize") /\ Go(h, "idle")
  /\ offer' = [offer EXCEPT !.status = "closed", !.due = "defaulted"] \/ UNCHANGED offer
  /\ UNCHANGED signed /\ KeepJobs

\* PUT /admin/offers/:id/pause-toggle
Toggle(h) ==
  /\ At(h, "idle")
  /\ \/ offer.status = "active" /\ Go(h, "pause")
     \/ offer.status = "paused" /\ Go(h, "resume")
  /\ UNCHANGED <<offer, signed>> /\ KeepJobs

Toggled(h) ==
  /\ At(h, "pause") \/ At(h, "resume")
  /\ offer' = [offer EXCEPT !.status = IF At(h, "pause") THEN "paused" ELSE "active"]
  /\ Go(h, "idle")
  /\ UNCHANGED signed /\ KeepJobs

-----------------------------------------------------------------------------
(* Time *)

PastGrace ==
  \/ day - Maturity > Grace
  \/ ~kind.bullet /\ offer.next # NoDate /\ day - offer.next > Grace /\ offer.made < TotalExpected

\* A day passes when its jobs are over.  A period is cut out of the calendar once the
\* maturity is long past: only differences between dates matter then.
Tick ==
  /\ stage = "over" /\ stage' = "scheduled"
  /\ IF day < LastDay
     THEN day' = day + 1 /\ UNCHANGED offer
     ELSE /\ day' = day + 1 - Period
          /\ offer' = [offer EXCEPT !.next = IF @ < Period THEN (IF @ = NoDate THEN @ ELSE 0)
                                             ELSE @ - Period]
  /\ UNCHANGED <<kind, cron, requests, faults>>
  /\ missed' = (missed \/ PastGrace')

\* The process restarts: what is left of the callback in work is lost, the reminders come
\* at their own time.
RestartJobs ==
  /\ faults < MaxFaults /\ faults' = faults + 1
  /\ IF cron # Idle \/ stage \in {"overdue", "completed"}
     THEN cron' = Idle /\ stage' = Lost[stage]
     ELSE UNCHANGED <<stage, cron>>
  /\ req' = [h \in Requests |-> "idle"]
  /\ UNCHANGED <<offer, signed, calendar>>

JobStep ==
  \/ FindScheduled \/ Mature \/ Notify \/ FindOverdue \/ Escalate
  \/ FindCompleted \/ FindReminder \/ WriteDue

RequestStep(h) == CountPeriod(h) \/ Close(h) \/ Declare(h) \/ Seize(h) \/ Toggled(h)

ScheduleNext ==
  \/ JobStep \/ JobFails \/ Tick \/ RestartJobs \/ PrepareCollateral
  \/ \E h \in Requests :
       \/ Pay(h) \/ Settle(h) \/ MarkDefaulted(h) \/ DistributeCollateral(h) \/ Toggle(h)
       \/ RequestStep(h)

ScheduleSpec == ScheduleInit /\ [][ScheduleNext]_scheduleVars

\* Days pass, each with its jobs, and the event loop runs started requests on.
\* Neither the company nor an admin has to do anything.
ScheduleFairness ==
  /\ WF_scheduleVars(JobStep) /\ WF_scheduleVars(Tick)
  /\ \A h \in Requests : WF_scheduleVars(RequestStep(h))

FairScheduleSpec == ScheduleSpec /\ ScheduleFairness

-----------------------------------------------------------------------------
(***************************************************************************)
(* Properties                                                              *)
(***************************************************************************)

\* An offer is in default only when a due date on its row was missed by more than the grace
\* period, and declared so only when the maturity was, though two jobs, the declaration and
\* the distribution of the collateral all write that status from what they read earlier.
DefaultNeedsGrace ==
  /\ offer.due = "defaulted" => missed
  /\ offer.status = "defaulted" => day - Maturity > Grace

Punished == {"overdue", "defaulted"}

\* A company that has paid all yields is not shown as late for ever: whatever a job wrote
\* from an earlier read, a later one puts right.
PaidUpClears ==
  <>[](~kind.bullet /\ offer.status = "active" /\ offer.made >= TotalExpected)
    => <>[](offer.due \notin Punished)

\* What stays unpaid past a date is shown as late again and again, although notices,
\* partial payments and stale writes move the status and the date.
Unpaid ==
  \/ ~kind.bullet /\ offer.status = "active" /\ offer.next # NoDate /\ offer.made < TotalExpected
  \/ kind.bullet /\ offer.status \in {"active", "matured"} /\ day > Maturity

UnpaidEscalates == <>[]Unpaid => []<>(offer.due \in Punished)

=============================================================================
