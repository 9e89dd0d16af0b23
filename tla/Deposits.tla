------------------------------ MODULE Deposits ------------------------------
(***************************************************************************)
(* The deposit of a booking: the card is set up and confirmed              *)
(* (confirmDepositSetup of bookings.service.ts), and the hourly crons of   *)
(* deposit-scheduler.service.ts are to announce the charge two days before *)
(* the rental starts and to make it one day before.                        *)
(*                                                                         *)
(* One booking: the crons take the bookings one by one, and nothing of a   *)
(* deposit is shared.  A call or a tick is cut where it awaits Stripe, the *)
(* mailer or another table.                                                *)
(***************************************************************************)
EXTENDS Naturals, FiniteSets

CONSTANTS
  Job,        \* the rows the table of capture jobs may come to hold
  NoJob       \* depositJobRepository.findOne found none

\* How far the start of the rental is: two days, one day, or less.
Phase == {"far", "two days", "one day"}
Status == {"PENDING", "ACCEPTED", "OVER"}
Capture == {"pending", "success", "failed", "cancelled"}
JobStatus == {"absent", "scheduled", "notification_sent", "capturing", "success", "failed"}

VARIABLES
  phase,      \* the clock
  row,        \* the booking
  jobs,       \* deposit_capture_jobs
  confirm,    \* where confirmDepositSetup is
  notice,     \* where processDepositNotifications is
  charge,     \* where processDepositCaptures is, with the job it found
  charges     \* what Stripe did: how often the deposit was charged

vars == <<phase, row, jobs, confirm, notice, charge, charges>>

TypeOK ==
  /\ phase \in Phase
  /\ row \in [status : Status, customer : BOOLEAN, method : BOOLEAN, capture : Capture,
             notified : BOOLEAN]
  /\ jobs \in [Job -> JobStatus]
  /\ confirm \in {"idle", "stripe", "job", "failed"}
  /\ notice \in {"idle", "mail", "job"}
  /\ charge \in [at : {"idle", "job", "stripe", "charged", "declined"}, job : Job \cup {NoJob}]
  /\ charges \in Nat

\* createBookingWithDepositSetup has attached the setup intent.  It drops the id of
\* the customer it made, which no service stores: a row has one from elsewhere or not.
Init ==
  /\ phase = "far"
  /\ \E known \in BOOLEAN :
       row = [status |-> "PENDING", customer |-> known, method |-> FALSE,
              capture |-> "pending", notified |-> FALSE]
  /\ jobs = [j \in Job |-> "absent"]
  /\ confirm = "idle" /\ notice = "idle"
  /\ charge = [at |-> "idle", job |-> NoJob]
  /\ charges = 0

----------------------------------------------------------------------------
\* Confirming the card.

Confirm ==
  /\ confirm = "idle"
  /\ confirm' = "stripe"
  /\ UNCHANGED <<phase, row, jobs, notice, charge, charges>>

\* The method and the status are saved together.
SetupConfirmed ==
  /\ confirm = "stripe"
  /\ row' = [row EXCEPT !.method = TRUE, !.capture = "success"]
  /\ confirm' = "job"
  /\ UNCHANGED <<phase, jobs, notice, charge, charges>>

SetupRefused ==
  /\ confirm = "stripe"
  /\ confirm' = "failed"
  /\ UNCHANGED <<phase, row, jobs, notice, charge, charges>>

\* scheduleDepositCapture adds a job; a second confirmation adds a second.
JobScheduled ==
  /\ confirm = "job"
  /\ \E j \in Job : jobs[j] = "absent" /\ jobs' = [jobs EXCEPT ![j] = "scheduled"]
  /\ confirm' = "idle"
  /\ UNCHANGED <<phase, row, notice, charge, charges>>

JobRefused ==
  /\ confirm = "job"
  /\ confirm' = "failed"
  /\ UNCHANGED <<phase, row, jobs, notice, charge, charges>>

\* The catch block.
ConfirmFailed ==
  /\ confirm = "failed"
  /\ row' = [row EXCEPT !.capture = "failed"]
  /\ confirm' = "idle"
  /\ UNCHANGED <<phase, jobs, notice, charge, charges>>

\* The refund hands Stripe the card where it wants the payment: refused.
RefundDeposit ==
  /\ row.method /\ row.capture = "success"
  /\ UNCHANGED vars

----------------------------------------------------------------------------
\* The hourly crons.

\* What both queries ask of a booking.
AwaitsCapture ==
  row.status \in {"ACCEPTED", "PENDING"} /\ row.capture = "pending" /\ row.method

\* depositJobRepository.findOne: whichever job of the booking comes first.
Found == LET there == {j \in Job : jobs[j] # "absent"}
         IN  IF there = {} THEN {NoJob} ELSE there

Marked(j, status) == IF j = NoJob THEN jobs ELSE [jobs EXCEPT ![j] = status]

NoticeTick ==
  /\ notice = "idle"
  /\ notice' = IF AwaitsCapture /\ ~row.notified /\ phase # "far" THEN "mail" ELSE "idle"
  /\ UNCHANGED <<phase, row, jobs, confirm, charge, charges>>

NoticeSent ==
  /\ notice = "mail"
  /\ row' = [row EXCEPT !.notified = TRUE]
  /\ notice' = "job"
  /\ UNCHANGED <<phase, jobs, confirm, charge, charges>>

\* The mailer's failure is logged; the next tick tries again.
NoticeLost ==
  /\ notice = "mail"
  /\ notice' = "idle"
  /\ UNCHANGED <<phase, row, jobs, confirm, charge, charges>>

NoticeNoted ==
  /\ notice = "job"
  /\ \E j \in Found : jobs' = Marked(j, "notification_sent")
  /\ notice' = "idle"
  /\ UNCHANGED <<phase, row, confirm, charge, charges>>

\* What captureBookingDeposit needs of a booking that its query found.
Chargeable == AwaitsCapture /\ row.notified /\ phase = "one day" /\ row.customer

\* A booking without customer or method is passed by with a warning.
ChargeTick ==
  /\ charge.at = "idle"
  /\ charge' = [charge EXCEPT !.at = IF Chargeable THEN "job" ELSE "idle"]
  /\ UNCHANGED <<phase, row, jobs, confirm, notice, charges>>

ChargeBegins ==
  /\ charge.at = "job"
  /\ \E j \in Found :
       /\ jobs' = Marked(j, "capturing")
       /\ charge' = [at |-> "stripe", job |-> j]
  /\ UNCHANGED <<phase, row, confirm, notice, charges>>

ChargeMade ==
  /\ charge.at = "stripe"
  /\ charges' = charges + 1
  /\ charge' = [charge EXCEPT !.at = "charged"]
  /\ UNCHANGED <<phase, row, jobs, confirm, notice>>

\* Declined, wants 3-D Secure, or no answer: then it may have been made.
ChargeDeclined ==
  /\ charge.at = "stripe"
  /\ charges' \in {charges, charges + 1}
  /\ charge' = [charge EXCEPT !.at = "declined"]
  /\ UNCHANGED <<phase, row, jobs, confirm, notice>>

ChargeNoted ==
  /\ charge.at \in {"charged", "declined"}
  /\ LET outcome == IF charge.at = "charged" THEN "success" ELSE "failed"
     IN  /\ row' = [row EXCEPT !.capture = outcome]
         /\ jobs' = Marked(charge.job, outcome)
  /\ charge' = [at |-> "idle", job |-> NoJob]
  /\ UNCHANGED <<phase, confirm, notice, charges>>

\* Jobs that succeeded are deleted after thirty days.
CleanupOldJobs ==
  /\ phase = "one day"
  /\ \E old \in SUBSET {j \in Job : jobs[j] = "success"} :
       /\ old # {}
       /\ jobs' = [j \in Job |-> IF j \in old THEN "absent" ELSE jobs[j]]
  /\ UNCHANGED <<phase, row, confirm, notice, charge, charges>>

----------------------------------------------------------------------------
\* The handlers of BookingSettlement, as far as the status goes.
Accept ==
  /\ row.status = "PENDING"
  /\ row' = [row EXCEPT !.status = "ACCEPTED"]
  /\ UNCHANGED <<phase, jobs, confirm, notice, charge, charges>>

End ==
  /\ row.status # "OVER"
  /\ row' = [row EXCEPT !.status = "OVER"]
  /\ UNCHANGED <<phase, jobs, confirm, notice, charge, charges>>

Tick ==
  /\ \/ phase = "far" /\ phase' = "two days"
     \/ phase = "two days" /\ phase' = "one day"
  /\ UNCHANGED <<row, jobs, confirm, notice, charge, charges>>

Crons ==
  \/ NoticeTick \/ NoticeSent \/ NoticeLost \/ NoticeNoted
  \/ ChargeTick \/ ChargeBegins \/ ChargeMade \/ ChargeDeclined \/ ChargeNoted

Next ==
  \/ Confirm \/ SetupConfirmed \/ SetupRefused \/ JobScheduled \/ JobRefused
  \/ ConfirmFailed \/ RefundDeposit
  \/ Crons \/ CleanupOldJobs
  \/ Accept \/ End \/ Tick

\* Time passes, and the crons run every hour.
Fairness == WF_vars(Tick) /\ WF_vars(Crons)

Spec == Init /\ [][Next]_vars /\ Fairness

(* "Deposit setup confirmed successfully and automatic capture scheduled": *)
(* with its job scheduled, the deposit of a booking that goes on is        *)
(* charged in the end, or its charge is tried and fails.  Violated: the    *)
(* confirmation itself sets the capture status to success, and the crons   *)
(* take the bookings whose status is still pending; and were it pending,   *)
(* a booking whose customer is not stored would be passed by.              *)
DepositCaptured ==
  (\E j \in Job : jobs[j] = "scheduled") ~>
    (charges > 0 \/ row.capture = "failed" \/ row.status = "OVER")
=============================================================================
