---------------------------- MODULE Reservations ----------------------------
(***************************************************************************)
(* Who gets a tool for which days: create, createBookingWithPayment,       *)
(* createBookingWithDepositSetup, update and remove of bookings.service.ts,*)
(* and the deletion of tools in tools.service.ts and admin-tools.service.ts *)
(*                                                                         *)
(* A call looks for conflicting bookings, and inserts or moves its own     *)
(* later: nothing is locked, so other calls run in between.  An acceptance *)
(* loads the booking and saves it later; the handlers after which it takes *)
(* no days any more (BookingSettlement) are one step each here.            *)
(***************************************************************************)
EXTENDS Integers

CONSTANTS
  Booking,    \* the ids of bookings
  Tool,       \* the tools
  Request,    \* the slots of calls in flight
  LastDay,    \* bound: the days are 1..LastDay
  Editable,   \* the statuses in which the screens offer a change of dates
  Asked       \* the dates a change may ask for

Day == 1..LastDay
\* "OVER" is REJECTED, CANCELLED or COMPLETED.
Status == {"PENDING", "ACCEPTED", "ONGOING", "OVER"}

ASSUME ReservationAssumption ==
  Tool # {} /\ Booking # {} /\ LastDay \in Nat /\ LastDay > 1
  /\ Editable \subseteq Status /\ Asked \subseteq Day \X Day

VARIABLES
  listed,     \* the tools table: the tools that are there
  row,        \* the bookings table
  call,       \* the calls in flight
  rivals      \* history: the bookings that had calls in flight together

vars == <<listed, row, call, rivals>>

\* "due": the payment intent is still to be created, "set": its id is saved.
Payment == {"none", "due", "set"}
Column == {"status", "dates", "pay"}
Row == [status : Status \cup {"absent", "removed"}, tool : Tool,
        dates : Day \X Day, pay : Payment]
Op == {"create", "createPaid", "update", "accept"}
Label == {"idle", "tool", "conflicts", "insert", "pay", "attach", "undo", "save", "accept"}

Unborn == [status |-> "absent", tool |-> CHOOSE t \in Tool : TRUE,
           dates |-> <<1, 1>>, pay |-> "none"]
NoCall == [op |-> "create", b |-> CHOOSE b \in Booking : TRUE,
           ent |-> Unborn, at |-> "idle"]

TypeOK ==
  /\ listed \subseteq Tool
  /\ row \in [Booking -> Row]
  /\ call \in [Request -> [op : Op, b : Booking, ent : Row, at : Label]]
  /\ rivals \subseteq SUBSET Booking

Init ==
  /\ listed = Tool
  /\ row = [b \in Booking |-> Unborn]
  /\ call = [r \in Request |-> NoCall]
  /\ rivals = {}

----------------------------------------------------------------------------
\* The table as the queries see it.

Exists(b) == row[b].status \in Status
InFlight(r) == call[r].at # "idle"
CallsOn(b) == {r \in Request : InFlight(r) /\ call[r].b = b}

\* startDate <= end AND endDate >= start: both days of a rental count.
Overlaps(d, e) == d[1] <= e[2] /\ d[2] >= e[1]

\* The bookings of a tool in one of the statuses that meet the dates.
Meeting(t, dates, statuses) ==
  {c \in Booking : /\ row[c].status \in statuses
                   /\ row[c].tool = t
                   /\ Overlaps(row[c].dates, dates)}

\* A mutant: only accepted bookings are looked for.
MeetingAccepted(b, t, dates) == Meeting(t, dates, {"ACCEPTED"}) \ {b}

\* The query of create and update; update leaves its own booking out.
Conflicts(b, t, dates) == Meeting(t, dates, {"ACCEPTED", "PENDING"}) \ {b}

\* A mutant: pending bookings do not make a tool unavailable.
AvailableUnlessAccepted(t, dates) ==
  Meeting(t, dates, {"ACCEPTED", "ONGOING"}) = {}

(* checkAvailability: with a conflict it fails on the dates it lists, which *)
(* the driver returns as strings; so the only answer it gives is "yes".     *)
SaysAvailable(t, dates) ==
  Meeting(t, dates, {"ACCEPTED", "PENDING", "ONGOING"}) = {}

\* checkAvailabilityForDates of the tools, for a tool its owner offers.
ToolSaysAvailable(t, dates) ==
  t \in listed /\ Meeting(t, dates, {"ACCEPTED", "PENDING"}) = {}

(* repository.save(ent): what the call assigned, and any of the columns in  *)
(* which the loaded entity differs from the row by now; a row that was      *)
(* deleted meanwhile is inserted again.                                     *)
Saved(b, ent, assigned) ==
  IF Exists(b)
  THEN {[status |-> IF "status" \in W THEN ent.status ELSE row[b].status,
         tool |-> row[b].tool,
         dates |-> IF "dates" \in W THEN ent.dates ELSE row[b].dates,
         pay |-> IF "pay" \in W THEN ent.pay ELSE row[b].pay] :
          W \in {V \in SUBSET Column : assigned \subseteq V}}
  ELSE {ent}

\* The foreign key to the tool, declared ON DELETE CASCADE.
KeyHolds(ent) == ent.tool \in listed

Goto(r, l) ==
  call' = [call EXCEPT ![r] = IF l = "idle" THEN NoCall ELSE [@ EXCEPT !.at = l]]
SetRow(b, v) == row' = [row EXCEPT ![b] = v]

\* A call on b begins while others are in flight.
Begin(r, op, b, ent, l) ==
  /\ ~InFlight(r)
  /\ call' = [call EXCEPT ![r] = [op |-> op, b |-> b, ent |-> ent, at |-> l]]
  /\ rivals' = rivals \cup {{b, call[q].b} : q \in {p \in Request : InFlight(p)}}

----------------------------------------------------------------------------
\* Creating a booking.

\* The dates are checked; a start in the past is not refused.
Create(r, op, b, t, dates) ==
  /\ row[b].status = "absent"
  /\ CallsOn(b) = {}
  /\ dates[1] < dates[2]
  /\ Begin(r, op, b, [status |-> "PENDING", tool |-> t, dates |-> dates,
                      pay |-> IF op = "create" THEN "none" ELSE "due"], "tool")
  /\ UNCHANGED <<listed, row>>

\* The tool has to be there, and its owner may have switched it off.
CheckTool(r) ==
  /\ call[r].at = "tool"
  /\ \E available \in BOOLEAN :
       Goto(r, IF available /\ KeyHolds(call[r].ent) THEN "conflicts" ELSE "idle")
  /\ UNCHANGED <<listed, row, rivals>>

CheckConflicts(r) ==
  LET c == call[r]
  IN  /\ c.at = "conflicts"
      /\ Goto(r, IF Conflicts(c.b, c.ent.tool, c.ent.dates) # {} THEN "idle"
                 ELSE IF c.op = "update" THEN "save" ELSE "insert")
      /\ UNCHANGED <<listed, row, rivals>>

Insert(r) ==
  LET c == call[r]
  IN  /\ c.at = "insert"
      /\ IF KeyHolds(c.ent)
         THEN /\ SetRow(c.b, c.ent)
              /\ Goto(r, IF c.op = "createPaid" THEN "pay" ELSE "idle")
         ELSE UNCHANGED row /\ Goto(r, "idle")
      /\ UNCHANGED <<listed, rivals>>

\* Stripe creates the payment intent (and the setup intent), or refuses.
PaymentCreated(r) ==
  /\ call[r].at = "pay"
  /\ call' = [call EXCEPT ![r] = [@ EXCEPT !.at = "attach", !.ent.pay = "set"]]
  /\ UNCHANGED <<listed, row, rivals>>

\* A mutant: the refused payment is reported, the booking stays.
RefusedAndKept(r) ==
  /\ call[r].at = "pay"
  /\ Goto(r, "idle")
  /\ UNCHANGED <<listed, row, rivals>>

PaymentRefused(r) ==
  /\ call[r].at = "pay"
  /\ Goto(r, "undo")
  /\ UNCHANGED <<listed, row, rivals>>

\* The booking that create returned is saved again with the ids of Stripe.
Attach(r) ==
  LET c == call[r]
  IN  /\ c.at = "attach"
      /\ IF Exists(c.b) \/ KeyHolds(c.ent)
         THEN /\ \E v \in Saved(c.b, c.ent, {"pay"}) : SetRow(c.b, v)
              /\ Goto(r, "idle")
         ELSE UNCHANGED row /\ Goto(r, "undo")
      /\ UNCHANGED <<listed, rivals>>

\* The catch block: the booking is removed, whatever became of it.
Undo(r) ==
  LET b == call[r].b
  IN  /\ call[r].at = "undo"
      /\ IF Exists(b) THEN SetRow(b, [row[b] EXCEPT !.status = "removed"])
         ELSE UNCHANGED row
      /\ Goto(r, "idle")
      /\ UNCHANGED <<listed, rivals>>

----------------------------------------------------------------------------
\* Changing and removing a booking.

\* The dates are not compared with each other, and the code asks no status.
Update(r, b, dates) ==
  /\ row[b].status \in Editable
  /\ Begin(r, "update", b, [row[b] EXCEPT !.dates = dates], "conflicts")
  /\ UNCHANGED <<listed, row>>

SaveUpdate(r) ==
  LET c == call[r]
  IN  /\ c.at = "save"
      /\ IF Exists(c.b) \/ KeyHolds(c.ent)
         THEN \E v \in Saved(c.b, c.ent, {"dates"}) : SetRow(c.b, v)
         ELSE UNCHANGED row
      /\ Goto(r, "idle")
      /\ UNCHANGED <<listed, rivals>>

Remove(b) ==
  /\ Exists(b)
  /\ SetRow(b, [row[b] EXCEPT !.status = "removed"])
  /\ UNCHANGED <<listed, call, rivals>>

\* acceptBooking and confirmBooking load the booking and ask for its status.
Accept(r, b) ==
  /\ row[b].status = "PENDING"
  /\ Begin(r, "accept", b, [row[b] EXCEPT !.status = "ACCEPTED"], "accept")
  /\ UNCHANGED <<listed, row>>

(* acceptBooking awaits the wallets and the revenue before it saves, and    *)
(* rolls back what fails, as it does for a booking removed meanwhile, which *)
(* confirmBooking inserts again.                                            *)
SaveAccepted(r) ==
  LET c == call[r]
  IN  /\ c.at = "accept"
      /\ \/ UNCHANGED row
         \/ /\ Exists(c.b) \/ KeyHolds(c.ent)
            /\ \E v \in Saved(c.b, c.ent, {"status"}) : SetRow(c.b, v)
      /\ Goto(r, "idle")
      /\ UNCHANGED <<listed, rivals>>

\* The other handlers of BookingSettlement, as far as the calendar is concerned.
MoveOn(b, from, to) ==
  /\ row[b].status \in from
  /\ SetRow(b, [row[b] EXCEPT !.status = to])
  /\ UNCHANGED <<listed, call, rivals>>

Start(b) == MoveOn(b, {"ACCEPTED"}, "ONGOING")
End(b) == MoveOn(b, {"PENDING", "ACCEPTED", "ONGOING"}, "OVER")

----------------------------------------------------------------------------
\* The tools.

\* Deleting a tool takes its bookings with it.
Erase(t) ==
  /\ t \in listed
  /\ listed' = listed \ {t}
  /\ row' = [b \in Booking |->
               IF Exists(b) /\ row[b].tool = t
               THEN [row[b] EXCEPT !.status = "removed"] ELSE row[b]]
  /\ UNCHANGED <<call, rivals>>

RemoveTool(t) == Erase(t)

\* The statuses the check for active bookings asks for are no statuses.
DeleteTool(t) ==
  /\ \A b \in Booking : row[b].tool = t => row[b].status \notin {"confirmed", "in_progress"}
  /\ Erase(t)

----------------------------------------------------------------------------
Progress(r) ==
  \/ CheckTool(r) \/ CheckConflicts(r) \/ Insert(r)
  \/ PaymentCreated(r) \/ PaymentRefused(r) \/ Attach(r) \/ Undo(r)
  \/ SaveUpdate(r) \/ SaveAccepted(r)

Next ==
  \/ \E r \in Request :
       \/ Progress(r)
       \/ \E b \in Booking, t \in Tool, dates \in Day \X Day, op \in {"create", "createPaid"} :
            Create(r, op, b, t, dates)
       \/ \E b \in Booking, dates \in Asked : Update(r, b, dates)
       \/ \E b \in Booking : Accept(r, b)
  \/ \E b \in Booking :
       Start(b) \/ End(b) \/ Remove(b)
  \/ \E t \in Tool :
       RemoveTool(t) \/ DeleteTool(t)

Spec == Init /\ [][Next]_vars

----------------------------------------------------------------------------
Days(d) == d[1]..d[2]

Booked ==
  [b \in Booking |-> IF row[b].status \in {"PENDING", "ACCEPTED"}
                     THEN {row[b].tool} \X Days(row[b].dates) ELSE {}]

Promise == INSTANCE Calendar WITH
  Claimant <- Booking, Slot <- Tool \X Day, held <- Booked, rivals <- rivals

(* Creating, moving and saving bookings keeps the calendar: a pending or    *)
(* accepted booking never takes a day of a tool that another one has,       *)
(* unless calls on the two were in flight at the same time.  This is about  *)
(* the query for conflicts, the awaits between it and the insert, and the   *)
(* later saves, of an acceptance too, that write a loaded booking back.     *)
KeepsCalendar == Promise!Spec

(* A booking that still waits for its payment intent has a call in flight,  *)
(* or two calls wrote it at the same time: when Stripe refuses,             *)
(* createBookingWithPayment leaves no booking behind that blocks the dates  *)
(* without ever being paid.                                                 *)
UnpaidIsInFlight ==
  \A b \in Booking :
    (Exists(b) /\ row[b].pay = "due") =>
      CallsOn(b) # {} \/ {b} \in rivals

(* What the two availability checks promise to a client, create would      *)
(* grant: a tool that is free for the dates there has no conflict here.    *)
AnswersAgree ==
  \A t \in Tool, dates \in Day \X Day :
    SaysAvailable(t, dates) \/ ToolSaysAvailable(t, dates) =>
      \A b \in Booking : Conflicts(b, t, dates) = {}
=============================================================================
