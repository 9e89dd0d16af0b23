------------------------------- MODULE Reminders -------------------------------
(***************************************************************************)
(* What the two parties of a booking are told, and when: the crons of      *)
(* booking-scheduler.service.ts and the notices of                         *)
(* booking-notification.service.ts.                                        *)
(*                                                                         *)
(* A run of a cron loads its bookings once and then works through them,    *)
(* one notice after the other, while the bookings change.  An error with   *)
(* one booking is logged and the run goes on with the next; a run whose    *)
(* query fails, or that is due while the process is down, is lost.         *)
(***************************************************************************)
EXTENDS Integers, Sequences

CONSTANTS Booking,
          LastDay,      \* bound: time ends there
          MaxFaults     \* bound on lost runs and failing notices

VARIABLES now,      \* the clock, in quarters of a day
          booking,  \* the bookings' status and dates
          run,      \* the crons' runs
          early,    \* history: the bookings accepted in time for both reminders
          told,     \* history: <<booking, what, who>>, their notices since they changed
                    \* their status last
          faults

vars == <<now, booking, run, told, early, faults>>

Status == {"PENDING", "ACCEPTED", "ONGOING", "COMPLETED", "CANCELLED", "REJECTED"}
Party == {"renter", "owner"}
Job == {"start", "overdue", "end", "complete"}

\* The hours of the crons split the day: midnight, nine, ten, six in the evening.
Day == now \div 4
At(day, quarter) == 4 * day + quarter

Idle == [at |-> "idle", left |-> {}]

Init ==
  /\ now = 0
  /\ booking = [b \in Booking |-> [status |-> "PENDING", start |-> 2, end |-> LastDay - 4]]
  /\ run = [j \in Job |-> Idle]
  /\ told = {} /\ early = {} /\ faults = 0
-----------------------------------------------------------------------------
\* The parties each notice is created for, in order.
Both == <<"renter", "owner">>
RequestNotices == [accepted |-> Both]
EndNotices == [cancelledByOwner |-> <<"renter">>, rejected |-> Both,
               started |-> Both, completed |-> Both]
DateNotices == [start |-> Both, end |-> Both, overdue |-> Both]
ReturnNotices == [returned |-> <<"owner", "renter">>]
CancelNotices == [cancelled |-> Both]

Tables == {RequestNotices, EndNotices, DateNotices, ReturnNotices, CancelNotices}
Recipients == [what \in UNION {DOMAIN t : t \in Tables} |->
                 (CHOOSE t \in Tables : what \in DOMAIN t)[what]]

TypeOK ==
  /\ now \in 0 .. At(LastDay, 3)
  /\ booking \in [Booking -> [status : Status, start : Nat, end : Nat]]
  /\ run \in [Job -> [at : {"idle", "due", "loop"}, left : SUBSET Booking]]
  /\ told \subseteq Booking \X (DOMAIN Recipients) \X Party
  /\ early \subseteq Booking
  /\ faults \in 0 .. MaxFaults

\* An error ends a notice after the first n parties.
Notices(b, what, n) ==
  {<<b, what, Recipients[what][i]>> : i \in IF b \in early THEN 1..n ELSE {}}

Fault == faults < MaxFaults /\ faults' = faults + 1

Notify(b, what, earlier) ==
  \/ /\ told' = earlier \cup Notices(b, what, Len(Recipients[what]))
     /\ UNCHANGED faults
  \/ /\ Fault
     /\ \E n \in 0 .. Len(Recipients[what]) - 1 : told' = earlier \cup Notices(b, what, n)

Others(b) == {notice \in told : notice[1] # b}
-----------------------------------------------------------------------------
\* The handlers that move a booking, each of which saves it and then notifies;
\* a notice that fails does not undo the save.
Life == {
  <<"PENDING", "ACCEPTED", "accepted">>,
  <<"ACCEPTED", "ONGOING", "started">>,  <<"ONGOING", "ONGOING", "returned">>,
  <<"ONGOING", "COMPLETED", "completed">>, <<"ACCEPTED", "COMPLETED", "completed">>,
  <<"PENDING", "REJECTED", "rejected">>, <<"ACCEPTED", "CANCELLED", "cancelledByOwner">>,
  <<"PENDING", "CANCELLED", "cancelled">>, <<"ACCEPTED", "CANCELLED", "cancelled">>}

\* Nine o'clock, two days before the booking starts.
FirstReminder(b) == At(booking[b].start - 2, 1)

Handle(b, step) ==
  /\ booking[b].status = step[1]
  /\ booking' = [booking EXCEPT ![b].status = step[2]]
  /\ Notify(b, step[3], IF step[1] = step[2] THEN told ELSE Others(b))
  /\ early' = IF step[2] = "ACCEPTED" /\ now < FirstReminder(b) THEN early \cup {b} ELSE early
  /\ UNCHANGED <<now, run>>
-----------------------------------------------------------------------------
\* A mutant: the day after tomorrow is not within the bounds.
TomorrowOnly(date, day) == date = day + 1

\* Between(tomorrow, dayAfterTomorrow) has both its bounds among its values,
\* and the columns are dates: the day after tomorrow is "tomorrow" as well.
Tomorrow(date, day) == date \in {day + 1, day + 2}

\* The bookings with the dates that a run looks for.
Dated(job, day) ==
  {b \in Booking : CASE job = "start"    -> Tomorrow(booking[b].start, day)
                     [] job = "end"      -> Tomorrow(booking[b].end, day)
                     [] job = "overdue"  -> booking[b].end < day
                     [] job = "complete" -> booking[b].end <= day - 3}

\* The bookings a run loads.  Only accepted ones: a tool that was handed out
\* is ONGOING, and nobody is reminded of its return.
Selected(job) == {b \in Dated(job, Day) : booking[b].status = "ACCEPTED"}

Loop(job, left) ==
  run' = [run EXCEPT ![job] = IF left = {} THEN Idle ELSE [at |-> "loop", left |-> left]]

\* sendStartReminders, sendEndReminders, checkOverdueBookings, autoCompleteBookings
Start(job) ==
  /\ run[job].at = "due"
  /\ Loop(job, Selected(job))
  /\ UNCHANGED <<now, booking, told, early, faults>>

\* The query fails, or the process is not running at this hour.
Missed(job) ==
  /\ run[job].at = "due" /\ Fault
  /\ Loop(job, {})
  /\ UNCHANGED <<now, booking, told, early>>

Remind(job, b) ==
  /\ job # "complete" /\ b \in run[job].left
  /\ Notify(b, job, told)
  /\ Loop(job, run[job].left \ {b})
  /\ UNCHANGED <<now, booking, early>>

\* What the run loaded is saved, whatever became of the booking.
AutoComplete(b) ==
  /\ b \in run["complete"].left
  /\ booking' = [booking EXCEPT ![b].status = "COMPLETED"]
  /\ Notify(b, "completed", Others(b))
  /\ Loop("complete", run["complete"].left \ {b})
  /\ UNCHANGED <<now, early>>

AutoCompleteFails(b) ==
  /\ b \in run["complete"].left /\ Fault
  /\ Loop("complete", run["complete"].left \ {b})
  /\ UNCHANGED <<now, booking, told, early>>

\* The jobs of an hour: one at its hour, and the completion always.  The dates do
\* not change, so that a run for which there are none is left out.
Jobs(quarter) ==
  {"complete"} \cup CASE quarter = 1 -> {"start"} [] quarter = 2 -> {"overdue"}
                      [] quarter = 3 -> {"end"} [] OTHER -> {}
Due(time) == {job \in Jobs(time % 4) : Dated(job, time \div 4) # {}}

\* A run is assumed to end within its hours.
Tick ==
  /\ now < At(LastDay, 3) /\ \A j \in Job : run[j] = Idle
  /\ now' = now + 1
  /\ run' = [j \in Job |-> IF j \in Due(now + 1) THEN [Idle EXCEPT !.at = "due"] ELSE Idle]
  /\ UNCHANGED <<booking, told, early, faults>>

Next ==
  \/ \E b \in Booking, step \in Life : Handle(b, step)
  \/ \E b \in Booking : AutoComplete(b) \/ AutoCompleteFails(b)
  \/ \E job \in Job : Start(job) \/ Missed(job) \/ \E b \in Booking : Remind(job, b)
  \/ Tick

Spec == Init /\ [][Next]_vars
-----------------------------------------------------------------------------
BothTold(b, what) == \A p \in Party : <<b, what, p>> \in told

\* A booking that is accepted in time and stays so is not forgotten, even when
\* one run is lost or one notice fails: both parties are reminded before its
\* first and its last day and told that it is overdue, and three days after it
\* should have ended it is completed (booking-scheduler.service.ts).
NobodyForgotten ==
  \A b \in early : booking[b].status = "ACCEPTED" /\ faults <= 1 =>
    /\ Day >= booking[b].start => BothTold(b, "start")
    /\ Day >= booking[b].end => BothTold(b, "end")
    /\ Day >= booking[b].end + 3 => BothTold(b, "overdue")
    /\ Day <= booking[b].end + 3
=============================================================================
