------------------------- MODULE Reservations_proofs -------------------------
(***************************************************************************)
(* For any number of bookings, tools, calls and days, and whatever the     *)
(* screens offer to change: the calendar is kept, and no booking is left   *)
(* waiting for a payment that nobody is going to ask for.                  *)
(***************************************************************************)
EXTENDS Reservations, TLAPS

USE ReservationAssumption

(***************************************************************************)
(* The types                                                               *)
(***************************************************************************)

CallRecord == [op : Op, b : Booking, ent : Row, at : Label]

LEMMA UnbornTyped == Unborn \in Row /\ Unborn.status = "absent"
<1>1. (CHOOSE t \in Tool : TRUE) \in Tool
  OBVIOUS
<1>2. <<1, 1>> \in Day \X Day
  BY DEF Day
<1> QED BY <1>1, <1>2 DEF Unborn, Row, Payment

LEMMA NoCallTyped == NoCall \in CallRecord /\ NoCall.at = "idle"
<1>1. (CHOOSE b \in Booking : TRUE) \in Booking
  OBVIOUS
<1> QED BY <1>1, UnbornTyped DEF NoCall, CallRecord, Op, Label

\* What a row and a call are made of.
LEMMA RowFields ==
  ASSUME NEW v \in Row
  PROVE  /\ v.status \in Status \cup {"absent", "removed"}
         /\ v.tool \in Tool /\ v.dates \in Day \X Day /\ v.pay \in Payment
BY DEF Row

LEMMA RowMade ==
  ASSUME NEW s \in Status \cup {"absent", "removed"}, NEW t \in Tool,
         NEW d \in Day \X Day, NEW p \in Payment
  PROVE  [status |-> s, tool |-> t, dates |-> d, pay |-> p] \in Row
BY DEF Row

LEMMA CallFields ==
  ASSUME TypeOK, NEW r \in Request
  PROVE  /\ call[r] \in CallRecord
         /\ call[r].op \in Op /\ call[r].b \in Booking
         /\ call[r].ent \in Row /\ call[r].at \in Label
<1>1. call[r] \in CallRecord
  BY DEF TypeOK, CallRecord
<1> QED BY <1>1 DEF CallRecord

\* A call goes to another label, or ends.
LEMMA GoneTo ==
  ASSUME TypeOK, NEW r \in Request, NEW l \in Label, Goto(r, l)
  PROVE  /\ call' \in [Request -> CallRecord]
         /\ \A q \in Request \ {r} : call'[q] = call[q]
         /\ call'[r].at = l
         /\ l # "idle" => call'[r].op = call[r].op /\ call'[r].b = call[r].b /\ call'[r].ent = call[r].ent
<1>1. call[r] \in CallRecord /\ call \in [Request -> CallRecord]
  BY DEF TypeOK, CallRecord
<1>2. CASE l = "idle"
  <2>1. call' = [call EXCEPT ![r] = NoCall]
    BY <1>2 DEF Goto
  <2> QED BY <1>1, <1>2, <2>1, NoCallTyped
<1>3. CASE l # "idle"
  <2> DEFINE c == [call[r] EXCEPT !.at = l]
  <2>1. call' = [call EXCEPT ![r] = c]
    BY <1>1, <1>3 DEF Goto
  <2>2. c \in CallRecord /\ c.at = l /\ c.op = call[r].op /\ c.b = call[r].b /\ c.ent = call[r].ent
    BY <1>1 DEF CallRecord
  <2> HIDE DEF c
  <2> QED BY <1>1, <2>1, <2>2
<1> QED BY <1>2, <1>3

\* What save may write, of the row and of the entity.
LEMMA SavedFields ==
  ASSUME TypeOK, NEW b \in Booking, NEW ent \in Row, NEW A \in SUBSET Column,
         NEW v \in Saved(b, ent, A)
  PROVE  /\ v \in Row
         /\ Exists(b) =>
              /\ v.status \in {ent.status, row[b].status} /\ v.tool = row[b].tool
              /\ v.dates \in {ent.dates, row[b].dates} /\ v.pay \in {ent.pay, row[b].pay}
              /\ "dates" \in A => v.dates = ent.dates
              /\ "pay" \in A => v.pay = ent.pay
         /\ ~Exists(b) => v = ent
<1>1. row[b] \in Row
  BY DEF TypeOK
<1>2. CASE Exists(b)
  <2>1. PICK W \in SUBSET Column :
          /\ A \subseteq W
          /\ v = [status |-> IF "status" \in W THEN ent.status ELSE row[b].status,
                  tool |-> row[b].tool,
                  dates |-> IF "dates" \in W THEN ent.dates ELSE row[b].dates,
                  pay |-> IF "pay" \in W THEN ent.pay ELSE row[b].pay]
    BY <1>2 DEF Saved
  <2>2. /\ v.status = IF "status" \in W THEN ent.status ELSE row[b].status
        /\ v.tool = row[b].tool
        /\ v.dates = IF "dates" \in W THEN ent.dates ELSE row[b].dates
        /\ v.pay = IF "pay" \in W THEN ent.pay ELSE row[b].pay
    BY <2>1
  <2>3. v \in Row
    BY <1>1, <2>1, RowFields, RowMade
  <2> QED BY <1>2, <2>1, <2>2, <2>3
<1>3. CASE ~Exists(b)
  BY <1>3 DEF Saved
<1> QED BY <1>2, <1>3

\* What a step of a call may do, label by label.
Same(c, d) == d.op = c.op /\ d.b = c.b /\ d.ent = c.ent
Leaves(r) == UNCHANGED row /\ call'[r].at = "idle"
Writes(r, v) == row' = [row EXCEPT ![call[r].b] = v]
Goes(r, l) == call'[r].at = l /\ Same(call[r], call'[r])
Stepped(r) ==
  \/ call[r].at = "tool" /\ UNCHANGED row /\ (call'[r].at = "idle" \/ Goes(r, "conflicts"))
  \/ /\ call[r].at = "conflicts" /\ UNCHANGED row
     /\ \/ call'[r].at = "idle"
        \/ /\ Conflicts(call[r].b, call[r].ent.tool, call[r].ent.dates) = {}
           /\ Goes(r, IF call[r].op = "update" THEN "save" ELSE "insert")
  \/ /\ call[r].at = "insert"
     /\ \/ Leaves(r)
        \/ /\ Writes(r, call[r].ent)
           /\ IF call[r].op = "createPaid" THEN Goes(r, "pay") ELSE call'[r].at = "idle"
  \/ /\ call[r].at = "pay" /\ UNCHANGED row
     /\ \/ Goes(r, "undo")
        \/ /\ call'[r].at = "attach" /\ call'[r].op = call[r].op /\ call'[r].b = call[r].b
           /\ call'[r].ent = [call[r].ent EXCEPT !.pay = "set"]
  \/ /\ call[r].at = "attach"
     /\ \/ UNCHANGED row /\ Goes(r, "undo")
        \/ /\ call'[r].at = "idle"
           /\ \E v \in Saved(call[r].b, call[r].ent, {"pay"}) : Writes(r, v)
  \/ /\ call[r].at = "undo" /\ call'[r].at = "idle"
     /\ IF Exists(call[r].b) THEN Writes(r, [row[call[r].b] EXCEPT !.status = "removed"])
        ELSE UNCHANGED row
  \/ /\ call[r].at = "save" /\ call'[r].at = "idle"
     /\ \/ UNCHANGED row
        \/ \E v \in Saved(call[r].b, call[r].ent, {"dates"}) : Writes(r, v)
  \/ /\ call[r].at = "accept" /\ call'[r].at = "idle"
     /\ \/ UNCHANGED row
        \/ \E v \in Saved(call[r].b, call[r].ent, {"status"}) : Writes(r, v)

LEMMA ProgressSteps ==
  ASSUME TypeOK, NEW r \in Request, Progress(r)
  PROVE  /\ Stepped(r) /\ UNCHANGED <<listed, rivals>>
         /\ call' \in [Request -> CallRecord]
         /\ \A q \in Request \ {r} : call'[q] = call[q]
<1>0. /\ {"idle", "tool", "conflicts", "insert", "pay", "attach", "undo", "save", "accept"} \subseteq Label
      /\ call[r] \in CallRecord /\ call \in [Request -> CallRecord]
  BY DEF Label, TypeOK, CallRecord
<1>1. CASE CheckTool(r)
  <2>1. PICK l \in {"conflicts", "idle"} : Goto(r, l)
    BY <1>1 DEF CheckTool
  <2>2. call[r].at = "tool" /\ UNCHANGED <<row, listed, rivals>>
    BY <1>1 DEF CheckTool
  <2>3. l \in Label
    BY <1>0
  <2> QED BY <2>1, <2>2, <2>3, GoneTo DEF Stepped, Goes, Same
<1>2. CASE CheckConflicts(r)
  <2>1. call[r].at = "conflicts" /\ UNCHANGED <<row, listed, rivals>>
    BY <1>2 DEF CheckConflicts
  <2>2. \/ Goto(r, "idle")
        \/ /\ Conflicts(call[r].b, call[r].ent.tool, call[r].ent.dates) = {}
           /\ Goto(r, IF call[r].op = "update" THEN "save" ELSE "insert")
    BY <1>2 DEF CheckConflicts
  <2>3. CASE Goto(r, "idle")
    BY <1>0, <2>1, <2>3, GoneTo DEF Stepped
  <2>4. CASE /\ Conflicts(call[r].b, call[r].ent.tool, call[r].ent.dates) = {}
             /\ Goto(r, IF call[r].op = "update" THEN "save" ELSE "insert")
    <3>1. PICK l \in {"save", "insert"} : l = IF call[r].op = "update" THEN "save" ELSE "insert"
      OBVIOUS
    <3>2. l \in Label /\ Goto(r, l) /\ l # "idle"
      BY <1>0, <2>4, <3>1
    <3>3. Goes(r, l) /\ call' \in [Request -> CallRecord] /\ \A q \in Request \ {r} : call'[q] = call[q]
      BY <3>2, GoneTo DEF Goes, Same
    <3> QED BY <2>1, <2>4, <3>1, <3>3 DEF Stepped
  <2> QED BY <2>2, <2>3, <2>4
<1>3. CASE Insert(r)
  <2>1. call[r].at = "insert" /\ UNCHANGED <<listed, rivals>>
    BY <1>3 DEF Insert
  <2>2. \/ UNCHANGED row /\ Goto(r, "idle")
        \/ /\ Writes(r, call[r].ent)
           /\ Goto(r, IF call[r].op = "createPaid" THEN "pay" ELSE "idle")
    BY <1>3 DEF Insert, SetRow, Writes
  <2>3. CASE UNCHANGED row /\ Goto(r, "idle")
    BY <1>0, <2>1, <2>3, GoneTo DEF Stepped, Leaves
  <2>4. CASE /\ Writes(r, call[r].ent)
             /\ Goto(r, IF call[r].op = "createPaid" THEN "pay" ELSE "idle")
    <3>1. PICK l \in {"pay", "idle"} : l = IF call[r].op = "createPaid" THEN "pay" ELSE "idle"
      OBVIOUS
    <3>2. l \in Label /\ Goto(r, l)
      BY <1>0, <2>4, <3>1
    <3>3. /\ l = "pay" => Goes(r, l)
          /\ l = "idle" => call'[r].at = "idle"
          /\ call' \in [Request -> CallRecord] /\ \A q \in Request \ {r} : call'[q] = call[q]
      BY <3>2, GoneTo DEF Goes, Same
    <3> QED BY <2>1, <2>4, <3>1, <3>3 DEF Stepped
  <2> QED BY <2>2, <2>3, <2>4
<1>4. CASE PaymentCreated(r)
  <2> DEFINE e == [call[r].ent EXCEPT !.pay = "set"]
             c == [[call[r] EXCEPT !.at = "attach"] EXCEPT !.ent = e]
  <2>1. call' = [call EXCEPT ![r] = [@ EXCEPT !.at = "attach", !.ent.pay = "set"]]
    BY <1>4 DEF PaymentCreated
  <2>2. [call[r] EXCEPT !.at = "attach", !.ent.pay = "set"] = c
    BY <1>0 DEF CallRecord
  <2>3. call' = [call EXCEPT ![r] = c]
    BY <1>0, <2>1, <2>2
  <2>4. e \in Row
    BY CallFields DEF Row, Payment
  <2> HIDE DEF e
  <2>5. c \in CallRecord /\ c.at = "attach" /\ c.op = call[r].op /\ c.b = call[r].b /\ c.ent = e
    BY <1>0, <2>4 DEF CallRecord, Label
  <2> HIDE DEF c
  <2>6. call'[r] = c /\ call' \in [Request -> CallRecord] /\ \A q \in Request \ {r} : call'[q] = call[q]
    BY <1>0, <2>3, <2>5
  <2>7. call[r].at = "pay" /\ UNCHANGED <<row, listed, rivals>>
    BY <1>4 DEF PaymentCreated
  <2> QED BY <2>5, <2>6, <2>7 DEF Stepped, e
<1>5. CASE PaymentRefused(r)
  <2>1. call[r].at = "pay" /\ UNCHANGED <<row, listed, rivals>> /\ Goto(r, "undo")
    BY <1>5 DEF PaymentRefused
  <2>2. Goes(r, "undo") /\ call' \in [Request -> CallRecord] /\ \A q \in Request \ {r} : call'[q] = call[q]
    BY <1>0, <2>1, GoneTo DEF Goes, Same
  <2> QED BY <2>1, <2>2 DEF Stepped
<1>6. CASE Attach(r)
  <2>1. call[r].at = "attach" /\ UNCHANGED <<listed, rivals>>
    BY <1>6 DEF Attach
  <2>2. \/ UNCHANGED row /\ Goto(r, "undo")
        \/ /\ \E v \in Saved(call[r].b, call[r].ent, {"pay"}) : Writes(r, v)
           /\ Goto(r, "idle")
    BY <1>6 DEF Attach, SetRow, Writes
  <2>3. CASE UNCHANGED row /\ Goto(r, "undo")
    <3>1. Goes(r, "undo") /\ call' \in [Request -> CallRecord] /\ \A q \in Request \ {r} : call'[q] = call[q]
      BY <1>0, <2>3, GoneTo DEF Goes, Same
    <3> QED BY <2>1, <2>3, <3>1 DEF Stepped
  <2>4. CASE /\ \E v \in Saved(call[r].b, call[r].ent, {"pay"}) : Writes(r, v)
             /\ Goto(r, "idle")
    BY <1>0, <2>1, <2>4, GoneTo DEF Stepped
  <2> QED BY <2>2, <2>3, <2>4
<1>7. CASE Undo(r)
  <2>1. call[r].at = "undo" /\ UNCHANGED <<listed, rivals>> /\ Goto(r, "idle")
    BY <1>7 DEF Undo
  <2>2. IF Exists(call[r].b) THEN Writes(r, [row[call[r].b] EXCEPT !.status = "removed"])
        ELSE UNCHANGED row
    BY <1>7 DEF Undo, SetRow, Writes
  <2> QED BY <1>0, <2>1, <2>2, GoneTo DEF Stepped
<1>8. CASE SaveUpdate(r)
  <2>1. call[r].at = "save" /\ UNCHANGED <<listed, rivals>> /\ Goto(r, "idle")
    BY <1>8 DEF SaveUpdate
  <2>2. \/ UNCHANGED row
        \/ \E v \in Saved(call[r].b, call[r].ent, {"dates"}) : Writes(r, v)
    BY <1>8 DEF SaveUpdate, SetRow, Writes
  <2> QED BY <1>0, <2>1, <2>2, GoneTo DEF Stepped
<1>9. CASE SaveAccepted(r)
  <2>1. call[r].at = "accept" /\ UNCHANGED <<listed, rivals>> /\ Goto(r, "idle")
    BY <1>9 DEF SaveAccepted
  <2>2. \/ UNCHANGED row
        \/ \E v \in Saved(call[r].b, call[r].ent, {"status"}) : Writes(r, v)
    BY <1>9 DEF SaveAccepted, SetRow, Writes
  <2> QED BY <1>0, <2>1, <2>2, GoneTo DEF Stepped
<1> QED BY <1>1, <1>2, <1>3, <1>4, <1>5, <1>6, <1>7, <1>8, <1>9 DEF Progress

(***************************************************************************)
(* The other steps: a call begins, or a handler that takes one step writes *)
(* rows                                                                    *)
(***************************************************************************)

\* What a call begins with.
Begun(r) ==
  LET c == call'[r]
  IN  /\ ~InFlight(r) /\ UNCHANGED <<listed, row>>
      /\ c.ent.status \in Status
      /\ \/ /\ c.op \in {"create", "createPaid"} /\ c.at = "tool"
            /\ row[c.b].status = "absent" /\ CallsOn(c.b) = {}
            /\ c.op = "create" => c.ent.pay = "none"
         \/ /\ c.op = "update" /\ c.at = "conflicts" /\ Exists(c.b)
            /\ c.ent.tool = row[c.b].tool /\ c.ent.pay = row[c.b].pay
         \/ /\ c.op = "accept" /\ c.at = "accept" /\ row[c.b].status = "PENDING"
            /\ c.ent.tool = row[c.b].tool /\ c.ent.pay = row[c.b].pay
            /\ c.ent.dates = row[c.b].dates
      /\ rivals' = rivals \cup {{c.b, call[q].b} : q \in {p \in Request : InFlight(p)}}

Starts(r) ==
  \/ \E b \in Booking, t \in Tool, dates \in Day \X Day, op \in {"create", "createPaid"} :
       Create(r, op, b, t, dates)
  \/ \E b \in Booking, dates \in Asked : Update(r, b, dates)
  \/ \E b \in Booking : Accept(r, b)

LEMMA CallBegun ==
  ASSUME TypeOK, NEW r \in Request, NEW op \in Op, NEW b \in Booking, NEW ent \in Row,
         NEW l \in Label, Begin(r, op, b, ent, l)
  PROVE  /\ call' \in [Request -> CallRecord] /\ \A q \in Request \ {r} : call'[q] = call[q]
         /\ call'[r].op = op /\ call'[r].b = b /\ call'[r].ent = ent /\ call'[r].at = l
         /\ ~InFlight(r) /\ rivals' \subseteq SUBSET Booking
         /\ rivals' = rivals \cup {{b, call[q].b} : q \in {p \in Request : InFlight(p)}}
<1> DEFINE c == [op |-> op, b |-> b, ent |-> ent, at |-> l]
<1>1. c \in CallRecord /\ c.op = op /\ c.b = b /\ c.ent = ent /\ c.at = l
  BY DEF CallRecord
<1>2. call \in [Request -> CallRecord] /\ call' = [call EXCEPT ![r] = c]
  BY DEF TypeOK, CallRecord, Begin
<1>3. /\ ~InFlight(r)
      /\ rivals' = rivals \cup {{b, call[q].b} : q \in {p \in Request : InFlight(p)}}
  BY DEF Begin
<1>4. \A q \in Request : {b, call[q].b} \in SUBSET Booking
  BY CallFields
<1>5. rivals' \subseteq SUBSET Booking
  BY <1>3, <1>4 DEF TypeOK
<1> HIDE DEF c
<1> QED BY <1>1, <1>2, <1>3, <1>5

LEMMA BeginSteps ==
  ASSUME TypeOK, NEW r \in Request, Starts(r)
  PROVE  /\ Begun(r) /\ rivals' \subseteq SUBSET Booking
         /\ call' \in [Request -> CallRecord] /\ \A q \in Request \ {r} : call'[q] = call[q]
<1>1. ASSUME NEW b \in Booking, NEW t \in Tool, NEW dates \in Day \X Day,
             NEW op \in {"create", "createPaid"}, Create(r, op, b, t, dates)
      PROVE  /\ Begun(r) /\ rivals' \subseteq SUBSET Booking
             /\ call' \in [Request -> CallRecord] /\ \A q \in Request \ {r} : call'[q] = call[q]
  <2> DEFINE p == IF op = "create" THEN "none" ELSE "due"
             e == [status |-> "PENDING", tool |-> t, dates |-> dates, pay |-> p]
  <2>1. p \in Payment /\ (op = "create" => p = "none")
    BY DEF Payment
  <2>2. e \in Row /\ e.status \in Status /\ e.pay = p
    BY <2>1 DEF Row, Status
  <2>3. Begin(r, op, b, e, "tool") /\ row[b].status = "absent" /\ CallsOn(b) = {} /\ UNCHANGED <<listed, row>>
    BY <1>1 DEF Create
  <2> HIDE DEF e, p
  <2>4. op \in Op /\ "tool" \in Label
    BY DEF Op, Label
  <2>5. /\ call' \in [Request -> CallRecord] /\ \A q \in Request \ {r} : call'[q] = call[q]
        /\ call'[r].op = op /\ call'[r].b = b /\ call'[r].ent = e /\ call'[r].at = "tool"
        /\ ~InFlight(r) /\ rivals' \subseteq SUBSET Booking
        /\ rivals' = rivals \cup {{b, call[q].b} : q \in {x \in Request : InFlight(x)}}
    BY <2>2, <2>3, <2>4, CallBegun
  <2> QED BY <2>1, <2>2, <2>3, <2>5 DEF Begun
<1>2. ASSUME NEW b \in Booking, NEW dates \in Asked, Update(r, b, dates)
      PROVE  /\ Begun(r) /\ rivals' \subseteq SUBSET Booking
             /\ call' \in [Request -> CallRecord] /\ \A q \in Request \ {r} : call'[q] = call[q]
  <2> DEFINE e == [row[b] EXCEPT !.dates = dates]
  <2>1. row[b] \in Row /\ dates \in Day \X Day
    BY DEF TypeOK
  <2>2. e \in Row /\ e.status = row[b].status /\ e.tool = row[b].tool /\ e.pay = row[b].pay
    BY <2>1 DEF Row
  <2>3. Begin(r, "update", b, e, "conflicts") /\ row[b].status \in Status /\ UNCHANGED <<listed, row>>
    BY <1>2 DEF Update
  <2> HIDE DEF e
  <2>4. "update" \in Op /\ "conflicts" \in Label
    BY DEF Op, Label
  <2>5. /\ call' \in [Request -> CallRecord] /\ \A q \in Request \ {r} : call'[q] = call[q]
        /\ call'[r].op = "update" /\ call'[r].b = b /\ call'[r].ent = e /\ call'[r].at = "conflicts"
        /\ ~InFlight(r) /\ rivals' \subseteq SUBSET Booking
        /\ rivals' = rivals \cup {{b, call[q].b} : q \in {x \in Request : InFlight(x)}}
    BY <2>2, <2>3, <2>4, CallBegun
  <2> QED BY <2>2, <2>3, <2>5 DEF Begun, Exists
<1>3. ASSUME NEW b \in Booking, Accept(r, b)
      PROVE  /\ Begun(r) /\ rivals' \subseteq SUBSET Booking
             /\ call' \in [Request -> CallRecord] /\ \A q \in Request \ {r} : call'[q] = call[q]
  <2> DEFINE e == [row[b] EXCEPT !.status = "ACCEPTED"]
  <2>1. row[b] \in Row /\ "ACCEPTED" \in Status
    BY DEF TypeOK, Status
  <2>2. /\ e \in Row /\ e.status \in Status
        /\ e.tool = row[b].tool /\ e.pay = row[b].pay /\ e.dates = row[b].dates
    BY <2>1 DEF Row
  <2>3. Begin(r, "accept", b, e, "accept") /\ row[b].status = "PENDING" /\ UNCHANGED <<listed, row>>
    BY <1>3 DEF Accept
  <2> HIDE DEF e
  <2>4. "accept" \in Op /\ "accept" \in Label
    BY DEF Op, Label
  <2>5. /\ call' \in [Request -> CallRecord] /\ \A q \in Request \ {r} : call'[q] = call[q]
        /\ call'[r].op = "accept" /\ call'[r].b = b /\ call'[r].ent = e /\ call'[r].at = "accept"
        /\ ~InFlight(r) /\ rivals' \subseteq SUBSET Booking
        /\ rivals' = rivals \cup {{b, call[q].b} : q \in {x \in Request : InFlight(x)}}
    BY <2>2, <2>3, <2>4, CallBegun
  <2> QED BY <2>2, <2>3, <2>5 DEF Begun
<1> QED BY <1>1, <1>2, <1>3 DEF Starts

\* The rows keep all but their status, and take no day they did not have.
Thinned ==
  /\ row' \in [Booking -> Row] /\ listed' \subseteq listed /\ UNCHANGED <<call, rivals>>
  /\ \A b \in Booking :
       /\ row'[b].tool = row[b].tool /\ row'[b].dates = row[b].dates /\ row'[b].pay = row[b].pay
       /\ \/ row'[b].status = row[b].status
          \/ Exists(b) /\ row'[b].status \in {"ONGOING", "OVER", "removed"}

LEMMA RowThinned ==
  ASSUME TypeOK, NEW b \in Booking, NEW s \in {"ONGOING", "OVER", "removed"}, Exists(b),
         SetRow(b, [row[b] EXCEPT !.status = s]), UNCHANGED <<listed, call, rivals>>
  PROVE  Thinned
<1> DEFINE v == [row[b] EXCEPT !.status = s]
<1>1. row[b] \in Row /\ row \in [Booking -> Row] /\ row' = [row EXCEPT ![b] = v]
  BY DEF TypeOK, SetRow
<1>2. v \in Row /\ v.status = s /\ v.tool = row[b].tool /\ v.dates = row[b].dates /\ v.pay = row[b].pay
  BY <1>1 DEF Row, Status
<1> HIDE DEF v
<1> QED BY <1>1, <1>2 DEF Thinned

Moves == \E b \in Booking : Start(b) \/ End(b) \/ Remove(b)
Erases == \E t \in Tool : RemoveTool(t) \/ DeleteTool(t)

LEMMA RowSteps ==
  ASSUME TypeOK, Moves \/ Erases
  PROVE  Thinned
<1>1. ASSUME NEW b \in Booking, Start(b) \/ End(b) \/ Remove(b)
      PROVE  Thinned
  <2>1. CASE Start(b)
    BY <2>1, RowThinned DEF Start, MoveOn, Exists, Status
  <2>2. CASE End(b)
    BY <2>2, RowThinned DEF End, MoveOn, Exists, Status
  <2>3. CASE Remove(b)
    BY <2>3, RowThinned DEF Remove
  <2> QED BY <1>1, <2>1, <2>2, <2>3
<1>2. ASSUME NEW t \in Tool, Erase(t)
      PROVE  Thinned
  <2>1. row' = [b \in Booking |-> IF Exists(b) /\ row[b].tool = t
                                  THEN [row[b] EXCEPT !.status = "removed"] ELSE row[b]]
    BY <1>2 DEF Erase
  <2>2. ASSUME NEW b \in Booking
        PROVE  /\ row'[b] \in Row
               /\ row'[b].tool = row[b].tool /\ row'[b].dates = row[b].dates /\ row'[b].pay = row[b].pay
               /\ row'[b].status = row[b].status \/ (Exists(b) /\ row'[b].status = "removed")
    <3>1. row[b] \in Row
      BY DEF TypeOK
    <3> QED BY <2>1, <3>1 DEF Row
  <2>3. row' \in [Booking -> Row]
    BY <2>1, <2>2
  <2>4. listed' \subseteq listed /\ UNCHANGED <<call, rivals>>
    BY <1>2 DEF Erase
  <2> QED BY <2>2, <2>3, <2>4 DEF Thinned
<1>3. Erases => \E t \in Tool : Erase(t)
  BY DEF Erases, RemoveTool, DeleteTool
<1> QED BY <1>1, <1>2, <1>3 DEF Moves

LEMMA NextIs == Next <=> (\E r \in Request : Progress(r) \/ Starts(r)) \/ Moves \/ Erases
BY Zenon DEF Next, Starts, Moves, Erases

(***************************************************************************)
(* TypeOK                                                                  *)
(***************************************************************************)

\* Every entity a call holds is one a booking can have; the rest is the types.
TypeInv == TypeOK /\ \A r \in Request : InFlight(r) => call[r].ent.status \in Status

LEMMA InitTyped == Init => TypeInv
<1> SUFFICES ASSUME Init PROVE TypeInv
  OBVIOUS
<1> QED BY UnbornTyped, NoCallTyped DEF Init, TypeInv, TypeOK, InFlight, CallRecord

LEMMA WritesTyped ==
  ASSUME TypeOK, NEW r \in Request, NEW v \in Row, Writes(r, v)
  PROVE  /\ row' \in [Booking -> Row] /\ row'[call[r].b] = v
         /\ \A d \in Booking \ {call[r].b} : row'[d] = row[d]
BY CallFields DEF TypeOK, Writes

LEMMA RemovedTyped ==
  ASSUME TypeOK, NEW b \in Booking
  PROVE  LET v == [row[b] EXCEPT !.status = "removed"]
         IN  /\ v \in Row /\ v.status = "removed" /\ v.tool = row[b].tool
             /\ v.dates = row[b].dates /\ v.pay = row[b].pay
<1>1. row[b] \in Row
  BY DEF TypeOK
<1> QED BY <1>1 DEF Row

LEMMA SavedInRow ==
  ASSUME TypeOK, NEW r \in Request, NEW A \in SUBSET Column
  PROVE  \A v \in Saved(call[r].b, call[r].ent, A) : v \in Row
BY CallFields, SavedFields

LEMMA StepTyped ==
  ASSUME TypeOK, NEW r \in Request, Stepped(r)
  PROVE  row' \in [Booking -> Row]
<1>1. row \in [Booking -> Row] /\ call[r].ent \in Row /\ call[r].b \in Booking
  BY CallFields DEF TypeOK
<1>2. {{"pay"}, {"dates"}, {"status"}} \subseteq SUBSET Column
  BY DEF Column
<1>3. \/ UNCHANGED row
      \/ \E v \in Row : Writes(r, v)
  BY <1>1, <1>2, SavedInRow, RemovedTyped DEF Stepped, Leaves
<1> QED BY <1>1, <1>3, WritesTyped

LEMMA StepEntities ==
  ASSUME TypeInv, NEW r \in Request, Stepped(r)
  PROVE  call'[r].at # "idle" =>
           /\ call[r].at # "idle" /\ call'[r].op = call[r].op /\ call'[r].b = call[r].b
           /\ call'[r].ent.status = call[r].ent.status /\ call'[r].ent.tool = call[r].ent.tool
           /\ call'[r].ent.dates = call[r].ent.dates
<1>1. call[r].ent \in Row
  BY CallFields DEF TypeInv
<1>2. [call[r].ent EXCEPT !.pay = "set"].status = call[r].ent.status
      /\ [call[r].ent EXCEPT !.pay = "set"].tool = call[r].ent.tool
      /\ [call[r].ent EXCEPT !.pay = "set"].dates = call[r].ent.dates
  BY <1>1 DEF Row
<1> QED BY <1>2 DEF Stepped, Leaves, Goes, Same

LEMMA NextTyped == TypeInv /\ [Next]_vars => TypeInv'
<1> SUFFICES ASSUME TypeInv, [Next]_vars PROVE TypeInv'
  OBVIOUS
<1>1. ASSUME NEW r \in Request, Progress(r) PROVE TypeInv'
  <2>1. /\ Stepped(r) /\ UNCHANGED <<listed, rivals>> /\ call' \in [Request -> CallRecord]
        /\ \A q \in Request \ {r} : call'[q] = call[q]
    BY <1>1, ProgressSteps DEF TypeInv
  <2>2. row' \in [Booking -> Row]
    BY <2>1, StepTyped DEF TypeInv
  <2>3. call'[r].at # "idle" => call[r].at # "idle" /\ call'[r].ent.status = call[r].ent.status
    BY <2>1, StepEntities
  <2> QED BY <2>1, <2>2, <2>3 DEF TypeInv, TypeOK, CallRecord, InFlight
<1>2. ASSUME NEW r \in Request, Starts(r) PROVE TypeInv'
  <2>1. /\ Begun(r) /\ rivals' \subseteq SUBSET Booking /\ call' \in [Request -> CallRecord]
        /\ \A q \in Request \ {r} : call'[q] = call[q]
    BY <1>2, BeginSteps DEF TypeInv
  <2>2. UNCHANGED <<listed, row>> /\ call'[r].ent.status \in Status
    BY <2>1 DEF Begun
  <2> QED BY <2>1, <2>2 DEF TypeInv, TypeOK, CallRecord, InFlight
<1>3. CASE Moves \/ Erases
  BY <1>3, RowSteps DEF Thinned, TypeInv, TypeOK, CallRecord, InFlight
<1>4. CASE UNCHANGED vars
  BY <1>4 DEF vars, TypeInv, TypeOK, CallRecord, InFlight
<1> QED BY <1>1, <1>2, <1>3, <1>4, NextIs

(* Whatever is asked for, refused, saved late or deleted meanwhile, the     *)
(* tables and the calls in flight keep their types.                         *)
THEOREM TypeCorrect == Spec => []TypeOK
<1>1. Spec => []TypeInv
  BY InitTyped, NextTyped, PTL DEF Spec
<1>2. TypeInv => TypeOK
  BY DEF TypeInv
<1> QED BY <1>1, <1>2, PTL

(***************************************************************************)
(* Calls in flight, and what they know of the row they work on             *)
(***************************************************************************)

\* Two calls in flight have met.
CallsHaveMet ==
  \A r, q \in Request :
    r # q /\ InFlight(r) /\ InFlight(q) => {call[r].b, call[q].b} \in rivals

\* Between the insert of a booking and the payment for it, or the undoing.
Created == {"pay", "attach", "undo"}

(* A call that changes a booking found its row, and one that creates a      *)
(* booking is alone with it until it inserts the row; no row changes tools. *)
Knows(r) ==
  LET c == call[r]
      b == call[r].b
  IN  /\ c.op = "update" => c.at \in {"conflicts", "save"} /\ row[b].status # "absent"
      /\ c.op # "update" => c.at # "save"
      /\ c.op = "accept" => row[b].status # "absent"
      /\ c.op = "accept" <=> c.at = "accept"
      /\ c.op # "update" /\ c.at \in {"tool", "conflicts", "insert"} => row[b].status = "absent"
      /\ c.at \in Created => c.op = "createPaid" /\ row[b].status # "absent"
      /\ row[b].status = "absent" => CallsOn(b) = {r}
      /\ row[b].status # "absent" => row[b].tool = c.ent.tool
CallsKnowTheirRow == \A r \in Request : InFlight(r) => Knows(r)

CallInv == TypeInv /\ CallsHaveMet /\ CallsKnowTheirRow

LEMMA InitCalls == Init => CallInv
<1> SUFFICES ASSUME Init PROVE CallInv
  OBVIOUS
<1>1. \A r \in Request : ~InFlight(r)
  BY NoCallTyped DEF Init, InFlight
<1> QED BY <1>1, InitTyped DEF CallInv, CallsHaveMet, CallsKnowTheirRow

\* A row once inserted stays in the table or is removed, and keeps its tool.
LEMMA RowsWritten ==
  ASSUME CallInv, NEW r \in Request, Stepped(r)
  PROVE  /\ \A d \in Booking \ {call[r].b} : row'[d] = row[d]
         /\ row'[call[r].b] = row[call[r].b] \/
              /\ row'[call[r].b].status # "absent" /\ row'[call[r].b].tool = call[r].ent.tool
              /\ call[r].at \in {"insert", "attach", "undo", "save", "accept"}
<1> DEFINE c == call[r]
           b == call[r].b
<1>1. /\ TypeOK /\ c.ent \in Row /\ b \in Booking /\ row[b] \in Row /\ row \in [Booking -> Row]
      /\ c.at # "idle" => c.ent.status \in Status
      /\ c.at # "idle" /\ row[b].status # "absent" => row[b].tool = c.ent.tool
  BY CallFields DEF CallInv, TypeInv, TypeOK, InFlight, CallsKnowTheirRow, Knows
<1>2. {{"pay"}, {"dates"}, {"status"}} \subseteq SUBSET Column /\ "absent" \notin Status
  BY DEF Column, Status
<1>3. ASSUME NEW A \in SUBSET Column, NEW v \in Saved(b, c.ent, A), Writes(r, v), c.at # "idle"
      PROVE  /\ row'[b].status # "absent" /\ row'[b].tool = c.ent.tool
             /\ \A d \in Booking \ {b} : row'[d] = row[d]
  <2>1. v \in Row /\ v.status # "absent" /\ v.tool = c.ent.tool
    BY <1>1, <1>2, <1>3, SavedFields DEF Exists
  <2> QED BY <1>1, <1>3, <2>1, WritesTyped
<1>4. ASSUME c.at = "insert", Writes(r, c.ent)
      PROVE  /\ row'[b].status # "absent" /\ row'[b].tool = c.ent.tool
             /\ \A d \in Booking \ {b} : row'[d] = row[d]
  BY <1>1, <1>2, <1>4, WritesTyped
<1>5. ASSUME c.at = "undo", Exists(b), Writes(r, [row[b] EXCEPT !.status = "removed"])
      PROVE  /\ row'[b].status # "absent" /\ row'[b].tool = c.ent.tool
             /\ \A d \in Booking \ {b} : row'[d] = row[d]
  <2> DEFINE v == [row[b] EXCEPT !.status = "removed"]
  <2>1. v \in Row /\ v.status = "removed" /\ v.tool = c.ent.tool
    BY <1>1, <1>2, <1>5, RemovedTyped DEF Exists
  <2> HIDE DEF v
  <2> QED BY <1>1, <1>5, <2>1, WritesTyped DEF v
<1>6. CASE UNCHANGED row
  BY <1>6
<1>7. CASE ~UNCHANGED row
  BY <1>2, <1>3, <1>4, <1>5, <1>7 DEF Stepped, Leaves
<1> QED BY <1>6, <1>7

LEMMA CallsMet ==
  CallInv /\ [Next]_vars => CallsHaveMet'
<1> SUFFICES ASSUME CallInv, [Next]_vars PROVE CallsHaveMet'
  OBVIOUS
<1> USE DEF CallInv, TypeInv
<1>1. ASSUME NEW r \in Request, Progress(r) PROVE CallsHaveMet'
  <2>1. Stepped(r) /\ UNCHANGED rivals /\ \A q \in Request \ {r} : call'[q] = call[q]
    BY <1>1, ProgressSteps
  <2>2. call'[r].at # "idle" => call[r].at # "idle" /\ call'[r].b = call[r].b
    BY <2>1, StepEntities
  <2> QED BY <2>1, <2>2 DEF CallsHaveMet, InFlight
<1>2. ASSUME NEW r \in Request, Starts(r) PROVE CallsHaveMet'
  <2>1. Begun(r) /\ \A q \in Request \ {r} : call'[q] = call[q]
    BY <1>2, BeginSteps
  <2>2. rivals' = rivals \cup {{call'[r].b, call[q].b} : q \in {p \in Request : InFlight(p)}}
    BY <2>1 DEF Begun
  <2>3. \A q \in Request \ {r} : call'[q].at # "idle" => {call'[r].b, call'[q].b} \in rivals'
    BY <2>1, <2>2 DEF InFlight
  <2>4. ASSUME NEW q \in Request, NEW p \in Request, q # p, InFlight(q)', InFlight(p)'
        PROVE  {call'[q].b, call'[p].b} \in rivals'
    <3>1. CASE q = r
      BY <2>3, <2>4, <3>1 DEF InFlight
    <3>2. CASE p = r
      <4>1. {call'[r].b, call'[q].b} \in rivals'
        BY <2>3, <2>4, <3>2 DEF InFlight
      <4>2. {call'[r].b, call'[q].b} = {call'[q].b, call'[r].b}
        OBVIOUS
      <4> QED BY <3>2, <4>1, <4>2
    <3>3. CASE q # r /\ p # r
      BY <2>1, <2>2, <2>4, <3>3 DEF InFlight, CallsHaveMet
    <3> QED BY <3>1, <3>2, <3>3
  <2> QED BY <2>4 DEF CallsHaveMet
<1>3. CASE Moves \/ Erases
  BY <1>3, RowSteps DEF Thinned, CallsHaveMet, InFlight
<1>4. CASE UNCHANGED vars
  BY <1>4 DEF vars, CallsHaveMet, InFlight
<1> QED BY <1>1, <1>2, <1>3, <1>4, NextIs

\* The own step of a call.
LEMMA KnowsAfterStep ==
  ASSUME CallInv, NEW r \in Request, Stepped(r), call'[r].at # "idle",
         \A q \in Request \ {r} : call'[q] = call[q]
  PROVE  Knows(r)'
<1> USE DEF CallInv, TypeInv
<1> DEFINE c == call[r]
           b == call[r].b
<1>1. /\ c.at # "idle" /\ call'[r].op = c.op /\ call'[r].b = b
      /\ call'[r].ent.status = c.ent.status /\ call'[r].ent.tool = c.ent.tool
  BY StepEntities
<1>2. Knows(r) /\ b \in Booking
  BY <1>1, CallFields DEF CallsKnowTheirRow, InFlight
<1>3. /\ row'[b] = row[b] \/ row'[b].status # "absent"
      /\ row'[b] = row[b] \/ row'[b].tool = c.ent.tool
      /\ row[b].status # "absent" => row'[b].status # "absent"
  BY <1>2, RowsWritten
<1>4. CallsOn(b)' = CallsOn(b)
  BY <1>1 DEF CallsOn, InFlight
<1>5. c.ent.status \in Status /\ "absent" \notin Status /\ c.ent \in Row /\ row \in [Booking -> Row]
  BY <1>1, CallFields DEF InFlight, Status, TypeOK
<1>6. c.at = "insert" => row'[b] = c.ent
  BY <1>2, <1>5, WritesTyped DEF Stepped, Leaves
<1>7. \/ c.at = "tool" /\ call'[r].at = "conflicts" /\ UNCHANGED row
      \/ c.at = "conflicts" /\ UNCHANGED row /\ call'[r].at = IF c.op = "update" THEN "save" ELSE "insert"
      \/ c.at = "insert" /\ call'[r].at = "pay" /\ c.op = "createPaid"
      \/ c.at = "pay" /\ call'[r].at \in {"undo", "attach"} /\ UNCHANGED row
      \/ c.at = "attach" /\ call'[r].at = "undo" /\ UNCHANGED row
  BY DEF Stepped, Leaves, Goes
<1>8. /\ call'[r].op = "update" => call'[r].at \in {"conflicts", "save"} /\ row'[b].status # "absent"
      /\ call'[r].op # "update" => call'[r].at # "save"
      /\ call'[r].op = "accept" => row'[b].status # "absent"
      /\ call'[r].op = "accept" <=> call'[r].at = "accept"
      /\ call'[r].op # "update" /\ call'[r].at \in {"tool", "conflicts", "insert"} => row'[b].status = "absent"
  BY <1>1, <1>2, <1>3, <1>7 DEF Knows, Created
<1>9. call'[r].at \in Created => call'[r].op = "createPaid" /\ row'[b].status # "absent"
  BY <1>1, <1>2, <1>3, <1>5, <1>6, <1>7 DEF Knows, Created
<1>10. row'[b].status = "absent" => CallsOn(b)' = {r}
  BY <1>2, <1>3, <1>4 DEF Knows
<1>11. row'[b].status # "absent" => row'[b].tool = call'[r].ent.tool
  BY <1>1, <1>2, <1>3 DEF Knows
<1> QED BY <1>1, <1>8, <1>9, <1>10, <1>11 DEF Knows

\* The steps of the others.
LEMMA KnowsStill ==
  ASSUME CallInv, NEW r \in Request, InFlight(r), UNCHANGED call[r],
         row'[call[r].b].status = "absent" <=> row[call[r].b].status = "absent",
         row[call[r].b].status # "absent" => row'[call[r].b].tool = row[call[r].b].tool,
         row[call[r].b].status = "absent" => CallsOn(call[r].b)' = {r}
  PROVE  Knows(r)'
<1>1. Knows(r)
  BY DEF CallInv, CallsKnowTheirRow
<1> QED BY <1>1 DEF Knows

LEMMA CallsKnow ==
  CallInv /\ [Next]_vars => CallsKnowTheirRow'
<1> SUFFICES ASSUME CallInv, [Next]_vars PROVE CallsKnowTheirRow'
  OBVIOUS
<1> USE DEF CallInv, TypeInv
<1>0. \A r \in Request : call[r].b \in Booking
  BY CallFields
<1>1. ASSUME NEW r \in Request, Progress(r), NEW q \in Request, InFlight(q)'
      PROVE  Knows(q)'
  <2>1. Stepped(r) /\ \A p \in Request \ {r} : call'[p] = call[p]
    BY <1>1, ProgressSteps
  <2>2. CASE q = r
    BY <1>1, <2>1, <2>2, KnowsAfterStep DEF InFlight
  <2>3. CASE q # r
    <3>1. UNCHANGED call[q] /\ InFlight(q)
      BY <1>1, <2>1, <2>3 DEF InFlight
    <3>2. call'[r].at # "idle" => call[r].at # "idle" /\ call'[r].b = call[r].b
      BY <2>1, StepEntities
    <3>3. Knows(q)
      BY <3>1 DEF CallsKnowTheirRow
    <3>4. row[call[q].b].status = "absent" => CallsOn(call[q].b) = {q}
      BY <3>3 DEF Knows
    <3>5. CallsOn(call[q].b)' \subseteq CallsOn(call[q].b) /\ q \in CallsOn(call[q].b)'
      BY <2>1, <3>1, <3>2 DEF CallsOn, InFlight
    <3>6. CASE call[r].b # call[q].b \/ row'[call[r].b] = row[call[r].b]
      <4>1. row'[call[q].b] = row[call[q].b]
        BY <1>0, <2>1, <3>6, RowsWritten
      <4> QED BY <3>1, <3>4, <3>5, <4>1, KnowsStill
    <3>7. CASE call[r].b = call[q].b /\ row'[call[r].b] # row[call[r].b]
      <4>1. /\ row'[call[r].b].status # "absent" /\ row'[call[r].b].tool = call[r].ent.tool
            /\ call[r].at # "idle"
        BY <1>0, <2>1, <3>7, RowsWritten
      <4>2. r \in CallsOn(call[q].b)
        BY <3>7, <4>1 DEF CallsOn, InFlight
      <4>3. row[call[q].b].status # "absent"
        BY <2>3, <3>4, <4>2
      <4>4. Knows(r)
        BY <4>1 DEF CallsKnowTheirRow, InFlight
      <4>5. row[call[r].b].tool = call[r].ent.tool
        BY <3>7, <4>3, <4>4 DEF Knows
      <4> QED BY <3>1, <3>7, <4>1, <4>3, <4>5, KnowsStill
    <3> QED BY <3>6, <3>7
  <2> QED BY <2>2, <2>3
<1>2. ASSUME NEW r \in Request, Starts(r), NEW q \in Request, InFlight(q)'
      PROVE  Knows(q)'
  <2>1. Begun(r) /\ \A p \in Request \ {r} : call'[p] = call[p]
    BY <1>2, BeginSteps
  <2>2. UNCHANGED row /\ ~InFlight(r)
    BY <2>1 DEF Begun
  <2>3. CASE q = r
    <3>1. CASE /\ call'[r].op \in {"create", "createPaid"} /\ call'[r].at = "tool"
               /\ row[call'[r].b].status = "absent" /\ CallsOn(call'[r].b) = {}
      <4>1. PICK b \in Booking : b = call'[r].b
        BY <2>1, BeginSteps, <1>2 DEF CallRecord
      <4>2. CallsOn(b)' = {r}
        BY <1>2, <2>1, <2>3, <3>1, <4>1 DEF CallsOn, InFlight
      <4>3. call'[r].op # "update" /\ call'[r].at \notin Created
        BY <3>1 DEF Created
      <4> QED BY <2>2, <2>3, <3>1, <4>1, <4>2, <4>3 DEF Knows
    <3>2. CASE /\ call'[r].op = "update" /\ call'[r].at = "conflicts" /\ Exists(call'[r].b)
               /\ call'[r].ent.tool = row[call'[r].b].tool
      <4>1. row[call'[r].b].status # "absent" /\ call'[r].at \notin Created
        BY <3>2 DEF Exists, Status, Created
      <4> QED BY <2>2, <2>3, <3>2, <4>1 DEF Knows
    <3>3. CASE /\ call'[r].op = "accept" /\ call'[r].at = "accept"
               /\ row[call'[r].b].status = "PENDING" /\ call'[r].ent.tool = row[call'[r].b].tool
      BY <2>2, <2>3, <3>3 DEF Knows, Created
    <3> QED BY <2>1, <3>1, <3>2, <3>3 DEF Begun
  <2>4. CASE q # r
    <3>1. UNCHANGED call[q] /\ InFlight(q)
      BY <1>2, <2>1, <2>4 DEF InFlight
    <3>2. row[call[q].b].status = "absent" => CallsOn(call[q].b) = {q}
      BY <3>1 DEF CallsKnowTheirRow, Knows
    <3>3. row[call[q].b].status = "absent" => call'[r].b # call[q].b
      <4>1. call'[r].b = call[q].b => CallsOn(call'[r].b) # {}
        BY <3>1 DEF CallsOn
      <4> QED BY <2>1, <4>1 DEF Begun, Exists, Status
    <3>4. row[call[q].b].status = "absent" => CallsOn(call[q].b)' = {q}
      BY <2>1, <2>2, <3>1, <3>2, <3>3 DEF CallsOn, InFlight
    <3> QED BY <2>2, <3>1, <3>4, KnowsStill
  <2> QED BY <2>3, <2>4
<1>3. CASE Moves \/ Erases
  <2>1. Thinned
    BY <1>3, RowSteps
  <2>2. ASSUME NEW q \in Request, InFlight(q)'
        PROVE  Knows(q)'
    <3>1. UNCHANGED call[q] /\ InFlight(q) /\ \A b : CallsOn(b)' = CallsOn(b)
      BY <2>1, <2>2 DEF Thinned, InFlight, CallsOn
    <3>2. row[call[q].b].status = "absent" => CallsOn(call[q].b) = {q}
      BY <3>1 DEF CallsKnowTheirRow, Knows
    <3>3. /\ row'[call[q].b].status = "absent" <=> row[call[q].b].status = "absent"
          /\ row'[call[q].b].tool = row[call[q].b].tool
      BY <1>0, <2>1 DEF Thinned, Exists, Status
    <3> QED BY <3>1, <3>2, <3>3, KnowsStill
  <2> QED BY <2>2 DEF CallsKnowTheirRow
<1>4. CASE UNCHANGED vars
  BY <1>4 DEF vars, CallsKnowTheirRow, Knows, InFlight, CallsOn
<1> QED BY <1>1, <1>2, <1>3, <1>4, NextIs DEF CallsKnowTheirRow

LEMMA NextCalls == CallInv /\ [Next]_vars => CallInv'
BY NextTyped, CallsMet, CallsKnow DEF CallInv

(***************************************************************************)
(* The calendar                                                            *)
(***************************************************************************)

\* The days of its tool that a row or an entity names.
Slots(v) == {v.tool} \X Days(v.dates)

\* No booking but b has any of the slots, or it met a call on b.
Clear(b, S) == \A d \in Booking \ {b} : Booked[d] \cap S = {} \/ {b, d} \in rivals

(* A call that has looked for conflicts found none, and whatever took one   *)
(* of its days since then had a call in flight with it; the booking it will *)
(* save again is as free, although other calls may have moved it.  So are   *)
(* the days of a booking that is being accepted.                            *)
Checked == {"insert", "pay", "attach", "save", "accept"}
Rewrites == {"pay", "attach", "accept"}
CheckedIsClear ==
  \A r \in Request :
    /\ call[r].at \in Checked => Clear(call[r].b, Slots(call[r].ent))
    /\ call[r].at \in Rewrites => Clear(call[r].b, Slots(row[call[r].b]))

\* The calendar is kept in every state.
BookedIsClear == \A b \in Booking : Clear(b, Booked[b])

CalendarInv == CallInv /\ CheckedIsClear /\ BookedIsClear

\* The query for conflicts finds every booking that has one of the days.
LEMMA NoConflictIsClear ==
  ASSUME TypeOK, NEW b \in Booking, NEW v \in Row, Conflicts(b, v.tool, v.dates) = {}
  PROVE  Clear(b, Slots(v))
<1> SUFFICES ASSUME NEW d \in Booking \ {b}, NEW x \in Booked[d], x \in Slots(v)
             PROVE  FALSE
  BY DEF Clear
<1>1. /\ row[d].status \in {"PENDING", "ACCEPTED"}
      /\ x \in {row[d].tool} \X Days(row[d].dates)
  BY DEF Booked
<1>2. row[d].tool = v.tool
  BY <1>1 DEF Slots
<1>3. PICK k \in Days(v.dates) : k \in Days(row[d].dates)
  BY <1>1 DEF Slots
<1>4. row[d].dates \in Day \X Day /\ v.dates \in Day \X Day
  BY RowFields DEF TypeOK
<1>5. Overlaps(row[d].dates, v.dates)
  BY <1>3, <1>4 DEF Days, Day, Overlaps
<1> QED BY <1>1, <1>2, <1>5 DEF Conflicts, Meeting

\* What is clear stays so, if only bookings that it met take other days.
LEMMA ClearStays ==
  ASSUME NEW b \in Booking, NEW S, Clear(b, S), rivals \subseteq rivals',
         \A d \in Booking \ {b} : Booked'[d] \subseteq Booked[d] \/ {b, d} \in rivals'
  PROVE  Clear(b, S)'
BY DEF Clear

LEMMA BookedIs ==
  ASSUME NEW d \in Booking
  PROVE  /\ Booked[d] = IF row[d].status \in {"PENDING", "ACCEPTED"} THEN Slots(row[d]) ELSE {}
         /\ Booked'[d] = IF row'[d].status \in {"PENDING", "ACCEPTED"} THEN Slots(row'[d]) ELSE {}
BY DEF Booked, Slots

LEMMA BookedThinned ==
  ASSUME Thinned, NEW d \in Booking
  PROVE  /\ Slots(row'[d]) = Slots(row[d])
         /\ Booked'[d] = Booked[d] \/ Booked'[d] = {}
<1>1. Slots(row'[d]) = Slots(row[d])
  BY DEF Thinned, Slots
<1> QED BY <1>1, BookedIs DEF Thinned

\* A step of one call changes the booking of no other, unless they have met.
LEMMA OthersBooked ==
  ASSUME CallInv, NEW r \in Request, Stepped(r), NEW q \in Request, InFlight(q),
         NEW d \in Booking \ {call[q].b}
  PROVE  Booked'[d] = Booked[d] \/ {call[q].b, d} \in rivals
<1>1. CASE row'[d] = row[d]
  BY <1>1, BookedIs
<1>2. CASE row'[d] # row[d]
  <2>1. d = call[r].b /\ InFlight(r) /\ r # q
    BY <1>2, RowsWritten DEF InFlight
  <2> QED BY <2>1 DEF CallInv, CallsHaveMet
<1> QED BY <1>1, <1>2

\* The row a call writes has clear days, or it is removed and keeps its days.
LEMMA WrittenIsClear ==
  ASSUME CalendarInv, NEW r \in Request, Stepped(r), row'[call[r].b] # row[call[r].b]
  PROVE  /\ InFlight(r)
         /\ LET b == call[r].b
                v == row'[call[r].b]
            IN  \/ v.status = "removed" /\ Slots(v) = Slots(row[b])
                \/ Clear(b, Slots(v))
<1> DEFINE c == call[r]
           b == call[r].b
           v == row'[call[r].b]
<1> USE DEF CalendarInv, CallInv, TypeInv
<1>1. /\ c.ent \in Row /\ b \in Booking /\ row[b] \in Row
      /\ c.at # "idle" => c.ent.status \in Status /\ Knows(r)
  BY CallFields DEF TypeOK, InFlight, CallsKnowTheirRow
<1>2. {{"pay"}, {"dates"}, {"status"}} \subseteq SUBSET Column
  BY DEF Column
<1>3. CASE c.at = "insert"
  <2>1. v = c.ent
    BY <1>1, <1>3, WritesTyped DEF Stepped, Leaves
  <2> QED BY <1>3, <2>1 DEF CheckedIsClear, Checked, InFlight
<1>4. CASE c.at = "attach"
  <2>1. PICK w \in Saved(b, c.ent, {"pay"}) : Writes(r, w)
    BY <1>4 DEF Stepped
  <2>2. w \in Row /\ v = w
    BY <1>1, <1>2, <2>1, SavedFields, WritesTyped
  <2>3. Exists(b) => w.tool = row[b].tool /\ w.dates \in {c.ent.dates, row[b].dates}
    BY <1>1, <1>2, SavedFields
  <2>4. ~Exists(b) => w = c.ent
    BY <1>1, <1>2, SavedFields
  <2>5. Exists(b) => row[b].tool = c.ent.tool
    BY <1>1, <1>4 DEF Knows, Exists, Status
  <2>6. Slots(v) = Slots(c.ent) \/ Slots(v) = Slots(row[b])
    BY <2>2, <2>3, <2>4, <2>5 DEF Slots
  <2> QED BY <1>4, <2>6 DEF CheckedIsClear, Checked, Rewrites, InFlight
<1>5. CASE c.at = "save"
  <2>1. PICK w \in Saved(b, c.ent, {"dates"}) : Writes(r, w)
    BY <1>5 DEF Stepped
  <2>2. w \in Row /\ v = w
    BY <1>1, <1>2, <2>1, SavedFields, WritesTyped
  <2>3. Exists(b) => w.tool = row[b].tool /\ w.dates = c.ent.dates
    BY <1>1, <1>2, SavedFields
  <2>4. ~Exists(b) => w = c.ent
    BY <1>1, <1>2, SavedFields
  <2>5. Exists(b) => row[b].tool = c.ent.tool
    BY <1>1, <1>5 DEF Knows, Exists, Status
  <2>6. Slots(v) = Slots(c.ent)
    BY <2>2, <2>3, <2>4, <2>5 DEF Slots
  <2> QED BY <1>5, <2>6 DEF CheckedIsClear, Checked, InFlight
<1>6. CASE c.at = "undo"
  <2> DEFINE w == [row[b] EXCEPT !.status = "removed"]
  <2>1. w \in Row /\ w.status = "removed" /\ w.tool = row[b].tool /\ w.dates = row[b].dates
    BY <1>1, RemovedTyped
  <2>2. Writes(r, w)
    BY <1>6 DEF Stepped
  <2> HIDE DEF w
  <2>3. v = w
    BY <2>1, <2>2, WritesTyped
  <2> QED BY <1>6, <2>1, <2>3 DEF Slots, InFlight
<1>7. CASE c.at = "accept"
  <2>1. PICK w \in Saved(b, c.ent, {"status"}) : Writes(r, w)
    BY <1>7 DEF Stepped
  <2>2. w \in Row /\ v = w
    BY <1>1, <1>2, <2>1, SavedFields, WritesTyped
  <2>3. Exists(b) => w.tool = row[b].tool /\ w.dates \in {c.ent.dates, row[b].dates}
    BY <1>1, <1>2, SavedFields
  <2>4. ~Exists(b) => w = c.ent
    BY <1>1, <1>2, SavedFields
  <2>5. Exists(b) => row[b].tool = c.ent.tool
    BY <1>1, <1>7 DEF Knows, Exists, Status
  <2>6. Slots(v) = Slots(c.ent) \/ Slots(v) = Slots(row[b])
    BY <2>2, <2>3, <2>4, <2>5 DEF Slots
  <2> QED BY <1>7, <2>6 DEF CheckedIsClear, Checked, Rewrites, InFlight
<1> QED BY <1>3, <1>4, <1>5, <1>6, <1>7, RowsWritten

LEMMA InitCalendar == Init => CalendarInv
<1> SUFFICES ASSUME Init PROVE CalendarInv
  OBVIOUS
<1>1. \A b \in Booking : Booked[b] = {}
  BY UnbornTyped DEF Init, Booked
<1> QED BY <1>1, InitCalls, NoCallTyped
        DEF CalendarInv, CheckedIsClear, Checked, Rewrites, BookedIsClear, Clear, Init

\* One booking that takes clear days leaves the calendar kept.
LEMMA TakenIsClear ==
  ASSUME BookedIsClear, UNCHANGED rivals, NEW b \in Booking, Clear(b, Booked'[b]),
         \A d \in Booking \ {b} : Booked'[d] = Booked[d]
  PROVE  BookedIsClear'
<1> SUFFICES ASSUME NEW x \in Booking, NEW d \in Booking \ {x}, {x, d} \notin rivals
             PROVE  Booked'[d] \cap Booked'[x] = {}
  BY DEF BookedIsClear, Clear
<1>1. CASE x = b
  BY <1>1 DEF Clear
<1>2. CASE d = b
  <2>1. {b, x} = {x, d}
    BY <1>2
  <2> QED BY <1>2, <2>1 DEF Clear
<1>3. CASE x # b /\ d # b
  BY <1>3 DEF BookedIsClear, Clear
<1> QED BY <1>1, <1>2, <1>3

\* What a step may do to the calendar.
LEMMA NextBooked == CalendarInv /\ [Next]_vars => BookedIsClear'
<1> SUFFICES ASSUME CalendarInv, [Next]_vars PROVE BookedIsClear'
  OBVIOUS
<1> USE DEF CalendarInv, CallInv, TypeInv
<1>1. ASSUME NEW r \in Request, Progress(r)
      PROVE  BookedIsClear'
  <2>1. Stepped(r) /\ UNCHANGED rivals /\ call[r].b \in Booking
    BY <1>1, ProgressSteps, CallFields
  <2>2. PICK b \in Booking : b = call[r].b
    BY <2>1
  <2>3. \A d \in Booking \ {b} : Booked'[d] = Booked[d]
    BY <2>1, <2>2, RowsWritten, BookedIs
  <2>4. CASE row'[b] = row[b]
    BY <2>1, <2>3, <2>4, BookedIs, TakenIsClear DEF BookedIsClear
  <2>5. CASE row'[b] # row[b]
    <3>1. \/ row'[b].status = "removed"
          \/ Clear(b, Slots(row'[b]))
      BY <2>1, <2>2, <2>5, WrittenIsClear
    <3>2. Clear(b, Booked'[b])
      BY <3>1, BookedIs DEF Clear
    <3> QED BY <2>1, <2>3, <3>2, TakenIsClear
  <2> QED BY <2>4, <2>5
<1>2. ASSUME NEW r \in Request, Starts(r)
      PROVE  BookedIsClear'
  <2>1. UNCHANGED row /\ rivals \subseteq rivals'
    BY <1>2, BeginSteps DEF Begun
  <2>2. \A d \in Booking : Booked'[d] = Booked[d]
    BY <2>1, BookedIs
  <2> QED BY <2>1, <2>2 DEF BookedIsClear, Clear
<1>3. CASE Moves \/ Erases
  <2>1. Thinned /\ UNCHANGED rivals
    BY <1>3, RowSteps DEF Thinned
  <2>2. \A d \in Booking : Booked'[d] \subseteq Booked[d]
    BY <2>1, BookedThinned
  <2> QED BY <2>1, <2>2 DEF BookedIsClear, Clear
<1>4. CASE UNCHANGED vars
  <2>1. \A d \in Booking : Booked'[d] = Booked[d]
    BY <1>4, BookedIs DEF vars
  <2> QED BY <1>4, <2>1 DEF vars, BookedIsClear, Clear
<1> QED BY <1>1, <1>2, <1>3, <1>4, NextIs

LEMMA NextCalendar == CalendarInv /\ [Next]_vars => CalendarInv'
<1> SUFFICES ASSUME CalendarInv, [Next]_vars PROVE CheckedIsClear'
  BY NextCalls, NextBooked DEF CalendarInv
<1> USE DEF CalendarInv, CallInv, TypeInv
<1>0. \A q \in Request : call[q].b \in Booking /\ call[q].ent \in Row /\ row[call[q].b] \in Row
  BY CallFields DEF TypeOK
<1>1. ASSUME NEW r \in Request, Progress(r), NEW q \in Request
      PROVE  /\ call'[q].at \in Checked => Clear(call[q].b, Slots(call[q].ent))'
             /\ call'[q].at \in Rewrites => Clear(call[q].b, Slots(row[call[q].b]))'
  <2>1. Stepped(r) /\ UNCHANGED rivals /\ \A p \in Request \ {r} : call'[p] = call[p]
    BY <1>1, ProgressSteps
  <2> SUFFICES ASSUME call'[q].at \in Checked
               PROVE  /\ Clear(call[q].b, Slots(call[q].ent))'
                      /\ call'[q].at \in Rewrites => Clear(call[q].b, Slots(row[call[q].b]))'
    BY DEF Checked, Rewrites
  <2> DEFINE b == call[q].b
  <2>2. /\ InFlight(q) /\ call'[q].b = b
        /\ call'[q].ent.tool = call[q].ent.tool /\ call'[q].ent.dates = call[q].ent.dates
    BY <2>1, StepEntities DEF InFlight, Checked
  <2>3. Slots(call'[q].ent) = Slots(call[q].ent)
    BY <2>2 DEF Slots
  <2>4. \A d \in Booking \ {b} : Booked'[d] \subseteq Booked[d] \/ {b, d} \in rivals'
    BY <2>1, <2>2, OthersBooked
  <2>5. ASSUME NEW x \in Booking, x = b, NEW S, Clear(x, S)
        PROVE  Clear(x, S)'
    BY <2>1, <2>4, <2>5, ClearStays
  <2>6. Clear(b, Slots(call[q].ent))
    <3>1. CASE call[q].at \in Checked
      BY <3>1 DEF CheckedIsClear
    <3>2. CASE call[q].at \notin Checked
      <4>1. q = r
        BY <2>1, <3>2
      <4>2. call'[r].at \in Checked /\ call[r].at \notin Checked
        BY <3>2, <4>1
      <4>3. call[r].at = "conflicts"
        BY <2>1, <4>2 DEF Stepped, Goes, Checked
      <4>4. Conflicts(b, call[q].ent.tool, call[q].ent.dates) = {}
        BY <2>1, <4>1, <4>2, <4>3 DEF Stepped, Checked
      <4> QED BY <1>0, <4>4, NoConflictIsClear
    <3> QED BY <3>1, <3>2
  <2>7. ASSUME NEW x \in Booking, x = b, NEW S, S = Slots(call[q].ent)
        PROVE  Clear(x, S)'
    BY <2>5, <2>6, <2>7
  <2>8. Clear(call[q].b, Slots(call[q].ent))'
    BY <1>0, <2>2, <2>3, <2>7
  <2>9. ASSUME call'[q].at \in Rewrites
        PROVE  Clear(call[q].b, Slots(row[call[q].b]))'
    <3>1. CASE row'[b] = row[b] /\ call[q].at \in Rewrites
      <4>1. Clear(b, Slots(row[b]))
        BY <3>1 DEF CheckedIsClear
      <4>2. ASSUME NEW x \in Booking, x = b, NEW S, S = Slots(row[b])
            PROVE  Clear(x, S)'
        BY <2>5, <4>1, <4>2
      <4> QED BY <1>0, <2>2, <3>1, <4>2
    <3>2. CASE row'[b] = row[b] /\ call[q].at \notin Rewrites
      <4>1. q = r /\ call[r].at = "insert" /\ Writes(r, call[r].ent)
        BY <2>1, <2>9, <3>2 DEF Stepped, Leaves, Goes, Rewrites
      <4>2. row'[b] = call[r].ent
        BY <1>0, <4>1, WritesTyped
      <4> QED BY <1>0, <2>2, <2>7, <4>1, <4>2
    <3>3. CASE row'[b] # row[b]
      <4>1. call[r].b = b
        BY <1>0, <2>1, <3>3, RowsWritten
      <4>2. \/ row'[b].status = "removed" /\ Slots(row'[b]) = Slots(row[b])
            \/ Clear(b, Slots(row'[b]))
        BY <2>1, <3>3, <4>1, WrittenIsClear
      <4>3. Clear(b, Slots(row'[b]))
        <5>1. CASE call[q].at \in Rewrites
          BY <4>2, <5>1 DEF CheckedIsClear
        <5>2. CASE call[q].at \notin Rewrites
          <6>1. q = r /\ call[r].at = "insert" /\ Writes(r, call[r].ent)
            BY <2>1, <2>9, <5>2 DEF Stepped, Leaves, Goes, Rewrites
          <6>2. row'[b] = call[r].ent
            BY <1>0, <6>1, WritesTyped
          <6> QED BY <2>6, <6>1, <6>2
        <5> QED BY <5>1, <5>2
      <4>4. ASSUME NEW x \in Booking, x = b, NEW S, S = Slots(row'[b])
            PROVE  Clear(x, S)'
        BY <2>5, <4>3, <4>4
      <4> QED BY <1>0, <2>2, <4>4
    <3> QED BY <3>1, <3>2, <3>3
  <2> QED BY <2>8, <2>9
<1>2. ASSUME NEW r \in Request, Starts(r)
      PROVE  CheckedIsClear'
  <2>1. Begun(r) /\ \A q \in Request \ {r} : call'[q] = call[q]
    BY <1>2, BeginSteps
  <2>2. UNCHANGED row /\ rivals \subseteq rivals'
    BY <2>1 DEF Begun
  <2>3. \A d \in Booking : Booked'[d] = Booked[d]
    BY <2>2, BookedIs
  <2>4. ASSUME NEW b \in Booking, NEW S, Clear(b, S)
        PROVE  Clear(b, S)'
    BY <2>2, <2>3, <2>4, ClearStays
  <2>5. ASSUME NEW q \in Request, q # r
        PROVE  /\ call'[q].at \in Checked => Clear(call[q].b, Slots(call[q].ent))'
               /\ call'[q].at \in Rewrites => Clear(call[q].b, Slots(row[call[q].b]))'
    BY <1>0, <2>1, <2>2, <2>3, <2>5 DEF CheckedIsClear, Clear
  <2>6. /\ call'[r].at \in Checked => Clear(call[r].b, Slots(call[r].ent))'
        /\ call'[r].at \in Rewrites => Clear(call[r].b, Slots(row[call[r].b]))'
    <3>1. CASE call'[r].at # "accept"
      BY <2>1, <3>1 DEF Begun, Checked, Rewrites
    <3>2. CASE call'[r].at = "accept"
      <4>1. PICK b \in Booking : b = call'[r].b
        BY <1>2, BeginSteps DEF CallRecord
      <4>2. row[b].status = "PENDING" /\ Slots(call'[r].ent) = Slots(row[b])
        BY <2>1, <3>2, <4>1 DEF Begun, Slots
      <4>3. Booked[b] = Slots(row[b])
        BY <4>2, BookedIs
      <4>4. PICK S : S = Slots(row[b])
        OBVIOUS
      <4>5. Clear(b, S)
        BY <4>3, <4>4 DEF BookedIsClear
      <4>6. Clear(b, S)'
        BY <2>4, <4>5
      <4> QED BY <2>2, <4>1, <4>2, <4>4, <4>6
    <3> QED BY <3>1, <3>2
  <2> QED BY <2>5, <2>6 DEF CheckedIsClear
<1>3. CASE Moves \/ Erases
  <2>1. Thinned /\ UNCHANGED <<call, rivals>>
    BY <1>3, RowSteps DEF Thinned
  <2>2. \A d \in Booking : Booked'[d] \subseteq Booked[d] /\ Slots(row'[d]) = Slots(row[d])
    BY <2>1, BookedThinned
  <2> QED BY <1>0, <2>1, <2>2 DEF CheckedIsClear, Clear
<1>4. CASE UNCHANGED vars
  <2>1. \A d \in Booking : Booked'[d] = Booked[d]
    BY <1>4, BookedIs DEF vars
  <2> QED BY <1>0, <1>4, <2>1 DEF vars, CheckedIsClear, Clear
<1> QED BY <1>1, <1>2, <1>3, <1>4, NextIs DEF CheckedIsClear

LEMMA SlotsTyped == ASSUME NEW v \in Row PROVE Slots(v) \in SUBSET (Tool \X Day)
<1>1. v.tool \in Tool /\ v.dates \in Day \X Day
  BY RowFields
<1>2. Days(v.dates) \subseteq Day
  BY <1>1 DEF Days, Day
<1> QED BY <1>1, <1>2 DEF Slots

\* One booking takes clear days, or gives back those it has.
LEMMA OneTakes ==
  ASSUME NEW b \in Booking, NEW v \in Row, UNCHANGED rivals, row'[b] = v,
         \A d \in Booking \ {b} : row'[d] = row[d],
         v.status \in {"PENDING", "ACCEPTED"} => Clear(b, Slots(v))
  PROVE  Promise!Next
<1> DEFINE S == IF v.status \in {"PENDING", "ACCEPTED"} THEN Slots(v) ELSE {}
<1>1. \A d \in Booking : Booked'[d] = IF d = b THEN S ELSE Booked[d]
  BY BookedIs
<1>2. S \in SUBSET (Tool \X Day)
  BY SlotsTyped
<1>3. Promise!Apart(b, S)
  BY DEF Promise!Apart, Clear
<1> HIDE DEF S
<1>4. Booked' = [Booked EXCEPT ![b] = S]
  <2>1. Booked = [d \in Booking |-> Booked[d]] /\ Booked' = [d \in Booking |-> Booked'[d]]
    BY DEF Booked
  <2> QED BY <1>1, <2>1
<1>5. Promise!Take(b)
  BY <1>2, <1>3, <1>4 DEF Promise!Take
<1> QED BY <1>5 DEF Promise!Next

LEMMA AllGiveBack ==
  ASSUME Thinned
  PROVE  Promise!Next
<1> DEFINE C == {d \in Booking : Booked'[d] # Booked[d]}
<1>1. \A d \in Booking : Booked'[d] = IF d \in C THEN {} ELSE Booked[d]
  BY BookedThinned
<1>2. C \in SUBSET Booking
  OBVIOUS
<1> HIDE DEF C
<1>3. Booked' = [d \in Booking |-> IF d \in C THEN {} ELSE Booked[d]]
  <2>1. Booked' = [d \in Booking |-> Booked'[d]]
    BY DEF Booked
  <2> QED BY <1>1, <2>1
<1>4. UNCHANGED rivals
  BY DEF Thinned
<1>5. Promise!GiveBack(C)
  BY <1>3, <1>4 DEF Promise!GiveBack
<1> QED BY <1>2, <1>5 DEF Promise!Next

LEMMA BookedSame ==
  ASSUME UNCHANGED row
  PROVE  UNCHANGED Booked
BY DEF Booked

LEMMA PromiseInit == Init => Promise!Init
BY UnbornTyped DEF Init, Promise!Init, Booked

LEMMA PromiseStep == CalendarInv /\ [Next]_vars => [Promise!Next]_Promise!vars
<1> SUFFICES ASSUME CalendarInv, [Next]_vars PROVE Promise!Next \/ UNCHANGED <<Booked, rivals>>
  BY DEF Promise!vars
<1> USE DEF CalendarInv, CallInv, TypeInv
<1>1. ASSUME NEW r \in Request, Progress(r)
      PROVE  Promise!Next \/ UNCHANGED <<Booked, rivals>>
  <2> DEFINE b == call[r].b
  <2>1. Stepped(r) /\ UNCHANGED rivals
    BY <1>1, ProgressSteps
  <2>2. b \in Booking /\ row[b] \in Row /\ row \in [Booking -> Row] /\ row' \in [Booking -> Row]
    BY <2>1, CallFields, StepTyped DEF TypeOK
  <2>3. CASE row'[b] = row[b]
    <3>1. \A d \in Booking : row'[d] = row[d]
      BY <2>1, <2>3, RowsWritten
    <3>2. row' = row
      BY <2>2, <3>1
    <3> QED BY <2>1, <3>2, BookedSame
  <2>4. CASE row'[b] # row[b]
    <3>1. \A d \in Booking \ {b} : row'[d] = row[d]
      BY <2>1, RowsWritten
    <3>2. row'[b].status \in {"PENDING", "ACCEPTED"} => Clear(b, Slots(row'[b]))
      BY <2>1, <2>4, WrittenIsClear
    <3>3. PICK x \in Booking, v \in Row : x = b /\ v = row'[b]
      BY <2>2
    <3>4. /\ row'[x] = v /\ \A d \in Booking \ {x} : row'[d] = row[d]
          /\ v.status \in {"PENDING", "ACCEPTED"} => Clear(x, Slots(v))
      BY <3>1, <3>2, <3>3
    <3> QED BY <2>1, <3>4, OneTakes
  <2> QED BY <2>3, <2>4
<1>2. ASSUME NEW r \in Request, Starts(r)
      PROVE  Promise!Next
  <2>1. UNCHANGED row /\ rivals \subseteq rivals'
    BY <1>2, BeginSteps DEF Begun
  <2> QED BY <2>1, BookedSame DEF Promise!Next, Promise!Meet
<1>3. CASE Moves \/ Erases
  BY <1>3, RowSteps, AllGiveBack
<1>4. CASE UNCHANGED vars
  BY <1>4, BookedSame DEF vars
<1> QED BY <1>1, <1>2, <1>3, <1>4, NextIs

(* Creating, changing, saving, moving on and deleting bookings implements   *)
(* the calendar: for any number of bookings, tools, calls and days, no day  *)
(* of a tool is ever given to two pending or accepted bookings that had no  *)
(* calls in flight together.  The query for conflicts and the insert are    *)
(* awaits apart, and a later save writes a loaded booking back.             *)
THEOREM CalendarKept == Spec => KeepsCalendar
<1>1. Spec => []CalendarInv
  BY InitCalendar, NextCalendar, PTL DEF Spec
<1>2. CalendarInv /\ [Next]_vars => [Promise!Next]_Promise!vars
  BY PromiseStep
<1>3. Init => Promise!Init
  BY PromiseInit
<1>4. Spec => Promise!Spec
  BY <1>1, <1>2, <1>3, PTL DEF Spec, Promise!Spec
<1> QED BY <1>4 DEF KeepsCalendar

(***************************************************************************)
(* The unpaid bookings                                                     *)
(***************************************************************************)

(* Unless two calls on it have met: a booking that waits for its payment    *)
(* intent is in the hands of the call that inserted it, no other entity     *)
(* would write it back as waiting, and what is attached has been paid for.  *)
Alone(b) ==
  /\ Exists(b) /\ row[b].pay = "due" => \E r \in CallsOn(b) : call[r].at \in Created
  /\ \A r \in CallsOn(b) :
       /\ call[r].op \in {"create", "update", "accept"} => call[r].ent.pay # "due"
       /\ call[r].at = "attach" => call[r].ent.pay = "set"
DueIsInHand == \A b \in Booking : {b} \in rivals \/ Alone(b)

DueInv == CallInv /\ DueIsInHand

LEMMA InitDue == Init => DueInv
<1> SUFFICES ASSUME Init PROVE DueInv
  OBVIOUS
<1>1. \A r \in Request : ~InFlight(r)
  BY NoCallTyped DEF Init, InFlight
<1>2. \A b \in Booking : ~Exists(b)
  BY UnbornTyped DEF Init, Exists, Status
<1> QED BY <1>1, <1>2, InitCalls DEF DueInv, DueIsInHand, Alone, CallsOn

\* The own step of the only call on a booking.
LEMMA AloneAfterStep ==
  ASSUME DueInv, NEW r \in Request, Stepped(r), InFlight(r), NEW b \in Booking, b = call[r].b,
         CallsOn(b) = {r}, Alone(b), \A q \in Request \ {r} : call'[q] = call[q]
  PROVE  Alone(b)'
<1> USE DEF DueInv, CallInv, TypeInv
<1> DEFINE c == call[r]
<1>1. /\ c.ent \in Row /\ row[b] \in Row /\ c.ent.status \in Status /\ Knows(r) /\ TypeOK
      /\ row \in [Booking -> Row]
  BY CallFields DEF TypeOK, InFlight, CallsKnowTheirRow
<1>2. {{"pay"}, {"dates"}, {"status"}} \subseteq SUBSET Column /\ "removed" \notin Status
  BY DEF Column, Status
<1>3. /\ Exists(b) /\ row[b].pay = "due" => c.at \in Created
      /\ c.op \in {"create", "update", "accept"} => c.ent.pay # "due"
      /\ c.at = "attach" => c.ent.pay = "set"
  BY DEF Alone, CallsOn
<1>4. call'[r].at # "idle" => call'[r].op = c.op /\ call'[r].b = b
  BY StepEntities
<1>5. /\ CallsOn(b)' \subseteq {r}
      /\ call'[r].at # "idle" => r \in CallsOn(b)'
  BY <1>4 DEF CallsOn, InFlight
<1>6. /\ row'[b].status \in Status /\ row'[b].pay = "due" =>
           call'[r].at \in Created
      /\ call'[r].at # "idle" /\ c.op \in {"create", "update", "accept"} => call'[r].ent.pay # "due"
      /\ call'[r].at = "attach" => call'[r].ent.pay = "set"
  <2>1. CASE c.at = "tool"
    BY <1>3, <2>1 DEF Stepped, Goes, Same, Created, Exists
  <2>2. CASE c.at = "conflicts"
    BY <1>3, <2>2 DEF Stepped, Goes, Same, Created, Exists
  <2>3. CASE c.at = "insert" /\ UNCHANGED row /\ call'[r].at = "idle"
    BY <1>3, <2>3 DEF Created, Exists
  <2>4. CASE /\ c.at = "insert" /\ Writes(r, c.ent)
             /\ IF c.op = "createPaid" THEN Goes(r, "pay") ELSE call'[r].at = "idle"
    <3>1. row'[b] = c.ent
      BY <1>1, <2>4, WritesTyped
    <3>2. c.op \in {"create", "createPaid"}
      BY <1>1, <2>4, CallFields DEF Knows, Op
    <3> QED BY <1>3, <2>4, <3>1, <3>2 DEF Goes, Same, Created
  <2>5. CASE c.at = "pay"
    <3>1. [c.ent EXCEPT !.pay = "set"].pay = "set"
      BY <1>1 DEF Row
    <3>2. c.op = "createPaid"
      BY <1>1, <2>5 DEF Knows, Created
    <3> QED BY <1>3, <2>5, <3>1, <3>2 DEF Stepped, Goes, Same, Created, Exists
  <2>6. CASE c.at = "attach" /\ UNCHANGED row /\ Goes(r, "undo")
    BY <1>3, <2>6 DEF Goes, Same, Created, Exists
  <2>7. CASE /\ c.at = "attach" /\ call'[r].at = "idle"
             /\ \E v \in Saved(b, c.ent, {"pay"}) : Writes(r, v)
    <3>1. PICK v \in Saved(b, c.ent, {"pay"}) : Writes(r, v)
      BY <2>7
    <3>2. v \in Row /\ v.pay = c.ent.pay
      BY <1>1, <1>2, <3>1, SavedFields
    <3>3. row'[b] = v
      BY <1>1, <3>1, <3>2, WritesTyped
    <3> QED BY <1>3, <2>7, <3>2, <3>3 DEF Created
  <2>8. CASE c.at = "undo"
    <3> DEFINE w == [row[b] EXCEPT !.status = "removed"]
    <3>1. w \in Row /\ w.status = "removed"
      BY <1>1, RemovedTyped
    <3>2. call'[r].at = "idle" /\ IF Exists(b) THEN Writes(r, w) ELSE UNCHANGED row
      BY <2>8 DEF Stepped
    <3> HIDE DEF w
    <3>3. Exists(b) => row'[b] = w
      BY <1>1, <3>1, <3>2, WritesTyped
    <3> QED BY <1>2, <3>1, <3>2, <3>3 DEF Exists
  <2>9. CASE c.at = "save" /\ UNCHANGED row /\ call'[r].at = "idle"
    BY <1>3, <2>9 DEF Created, Exists
  <2>10. CASE /\ c.at = "save" /\ call'[r].at = "idle"
              /\ \E v \in Saved(b, c.ent, {"dates"}) : Writes(r, v)
    <3>1. PICK v \in Saved(b, c.ent, {"dates"}) : Writes(r, v)
      BY <2>10
    <3>2. v \in Row /\ (Exists(b) => v.pay \in {c.ent.pay, row[b].pay}) /\ (~Exists(b) => v = c.ent)
      BY <1>1, <1>2, <3>1, SavedFields
    <3>3. row'[b] = v
      BY <1>1, <3>1, <3>2, WritesTyped
    <3>4. c.op = "update"
      BY <1>1, <2>10 DEF Knows
    <3> QED BY <1>3, <2>10, <3>2, <3>3, <3>4 DEF Created
  <2>11. CASE c.at = "accept" /\ UNCHANGED row /\ call'[r].at = "idle"
    BY <1>3, <2>11 DEF Created, Exists
  <2>12. CASE /\ c.at = "accept" /\ call'[r].at = "idle"
              /\ \E v \in Saved(b, c.ent, {"status"}) : Writes(r, v)
    <3>1. PICK v \in Saved(b, c.ent, {"status"}) : Writes(r, v)
      BY <2>12
    <3>2. v \in Row /\ (Exists(b) => v.pay \in {c.ent.pay, row[b].pay}) /\ (~Exists(b) => v = c.ent)
      BY <1>1, <1>2, <3>1, SavedFields
    <3>3. row'[b] = v
      BY <1>1, <3>1, <3>2, WritesTyped
    <3>4. c.op = "accept"
      BY <1>1, <2>12 DEF Knows
    <3> QED BY <1>3, <2>12, <3>2, <3>3, <3>4 DEF Created
  <2> QED BY <2>1, <2>2, <2>3, <2>4, <2>5, <2>6, <2>7, <2>8, <2>9, <2>10, <2>11, <2>12
          DEF Stepped, Leaves
<1>7. "idle" \notin Created
  BY DEF Created
<1> QED BY <1>4, <1>5, <1>6, <1>7 DEF Alone, Exists, CallsOn, InFlight

LEMMA NextDue == DueInv /\ [Next]_vars => DueInv'
<1> SUFFICES ASSUME DueInv, [Next]_vars PROVE DueIsInHand'
  BY NextCalls DEF DueInv
<1> USE DEF DueInv, CallInv, TypeInv
<1>1. ASSUME NEW r \in Request, Progress(r), NEW b \in Booking, {b} \notin rivals'
      PROVE  Alone(b)'
  <2>1. Stepped(r) /\ UNCHANGED rivals /\ \A q \in Request \ {r} : call'[q] = call[q]
    BY <1>1, ProgressSteps
  <2>2. Alone(b)
    BY <1>1, <2>1 DEF DueIsInHand
  <2>3. call'[r].at # "idle" => call[r].at # "idle" /\ call'[r].b = call[r].b
    BY <2>1, StepEntities
  <2>4. CASE InFlight(r) /\ call[r].b = b
    <3>1. \A q \in CallsOn(b) : q = r
      <4>1. \A q \in CallsOn(b) : q # r => {call[r].b, call[q].b} \in rivals
        BY <2>4 DEF CallsOn, CallsHaveMet
      <4>2. \A q \in CallsOn(b) : {call[r].b, call[q].b} = {b}
        BY <2>4 DEF CallsOn
      <4> QED BY <1>1, <2>1, <4>1, <4>2
    <3>2. CallsOn(b) = {r}
      BY <2>4, <3>1 DEF CallsOn
    <3> QED BY <2>1, <2>2, <2>4, <3>2, AloneAfterStep
  <2>5. CASE ~(InFlight(r) /\ call[r].b = b)
    <3>1. row'[b] = row[b]
      BY <2>1, <2>5, RowsWritten DEF InFlight
    <3>2. CallsOn(b)' = CallsOn(b) /\ r \notin CallsOn(b)
      BY <2>1, <2>3, <2>5 DEF CallsOn, InFlight
    <3>3. \A q \in CallsOn(b) : call'[q] = call[q]
      BY <2>1, <3>2 DEF CallsOn
    <3> QED BY <2>2, <3>1, <3>2, <3>3 DEF Alone, Exists
  <2> QED BY <2>4, <2>5
<1>2. ASSUME NEW r \in Request, Starts(r), NEW b \in Booking, {b} \notin rivals'
      PROVE  Alone(b)'
  <2>1. Begun(r) /\ \A q \in Request \ {r} : call'[q] = call[q]
    BY <1>2, BeginSteps
  <2>2. UNCHANGED row /\ rivals \subseteq rivals' /\ ~InFlight(r)
    BY <2>1 DEF Begun
  <2>3. Alone(b)
    BY <1>2, <2>2 DEF DueIsInHand
  <2>4. CASE call'[r].b # b
    <3>1. CallsOn(b)' = CallsOn(b) /\ r \notin CallsOn(b)
      BY <2>1, <2>2, <2>4 DEF CallsOn, InFlight
    <3>2. \A q \in CallsOn(b) : call'[q] = call[q]
      BY <2>1, <3>1 DEF CallsOn
    <3> QED BY <2>2, <2>3, <3>1, <3>2 DEF Alone, Exists
  <2>5. CASE call'[r].b = b
    <3>1. CallsOn(b) = {}
      <4>1. \A q \in CallsOn(b) : {call'[r].b, call[q].b} \in rivals'
        BY <2>1 DEF Begun, CallsOn
      <4>2. \A q \in CallsOn(b) : {call'[r].b, call[q].b} = {b}
        BY <2>5 DEF CallsOn
      <4> QED BY <1>2, <4>1, <4>2
    <3>2. CallsOn(b)' \subseteq {r}
      BY <2>1, <2>2, <3>1 DEF CallsOn, InFlight
    <3>3. ~(Exists(b) /\ row[b].pay = "due")
      BY <2>3, <3>1 DEF Alone
    <3>4. /\ call'[r].op \in {"create", "update", "accept"} => call'[r].ent.pay # "due"
          /\ call'[r].at # "attach"
      BY <2>1, <2>5, <3>3 DEF Begun, Exists, Status
    <3> QED BY <2>2, <3>2, <3>3, <3>4 DEF Alone, Exists
  <2> QED BY <2>4, <2>5
<1>3. CASE Moves \/ Erases
  <2>1. Thinned /\ UNCHANGED <<call, rivals>>
    BY <1>3, RowSteps DEF Thinned
  <2>2. ASSUME NEW b \in Booking, Alone(b)
        PROVE  Alone(b)'
    <3>1. CallsOn(b)' = CallsOn(b)
      BY <2>1 DEF CallsOn, InFlight
    <3>2. row'[b].pay = row[b].pay /\ (row'[b].status \in Status => Exists(b))
      BY <2>1 DEF Thinned, Exists
    <3> QED BY <2>1, <2>2, <3>1, <3>2 DEF Alone, Exists
  <2> QED BY <2>1, <2>2 DEF DueIsInHand
<1>4. CASE UNCHANGED vars
  BY <1>4 DEF vars, DueIsInHand, Alone, Exists, CallsOn, InFlight
<1> QED BY <1>1, <1>2, <1>3, <1>4, NextIs DEF DueIsInHand

(* When Stripe refuses, createBookingWithPayment leaves no booking behind   *)
(* that blocks the dates without ever being paid: one that waits for its    *)
(* payment intent has a call in flight, unless two calls on it had met.     *)
THEOREM UnpaidHeld == Spec => []UnpaidIsInFlight
<1>1. Spec => []DueInv
  BY InitDue, NextDue, PTL DEF Spec
<1>2. DueInv => UnpaidIsInFlight
  BY DEF DueInv, DueIsInHand, Alone, UnpaidIsInFlight
<1> QED BY <1>1, <1>2, PTL

(* The two availability checks never promise what create would refuse: in   *)
(* every table, each looks at all the bookings the query for conflicts      *)
(* looks at.                                                                *)
THEOREM AnswersKept == Spec => []AnswersAgree
<1>1. AnswersAgree
  BY DEF AnswersAgree, SaysAvailable, ToolSaysAvailable, Conflicts, Meeting
<1> QED BY <1>1, PTL
=============================================================================
