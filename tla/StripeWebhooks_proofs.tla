------------------------ MODULE StripeWebhooks_proofs ------------------------
(***************************************************************************)
(* Theorems about StripeWebhooks, for any number of events, of deliveries  *)
(* in flight and of faults.                                                *)
(***************************************************************************)
EXTENDS StripeWebhooks, TLAPS

LEMMA NoCallTyped == NoCall \in [e : Event, at : Label] /\ NoCall.at = "idle"
<1>1. (CHOOSE e \in Event : TRUE) \in Event
  BY EventAssumption
<1>2. QED
  BY <1>1 DEF NoCall, Label

\* Moving a delivery on touches no other, and leaves it typed.
LEMMA Moved ==
  ASSUME TypeOK, NEW d \in Delivery, NEW l \in Label, Goto(d, l)
  PROVE  /\ call' \in [Delivery -> [e : Event, at : Label]]
         /\ \A q \in Delivery : q # d => call'[q] = call[q]
         /\ call'[d].at = l
         /\ l # "idle" => call'[d].e = call[d].e
<1>1. CASE l = "idle"
  BY <1>1, NoCallTyped DEF Goto, TypeOK
<1>2. CASE l # "idle"
  <2>1. [call[d] EXCEPT !.at = l] \in [e : Event, at : Label]
    BY DEF TypeOK
  <2>2. call' = [call EXCEPT ![d] = [@ EXCEPT !.at = l]]
    BY <1>2 DEF Goto
  <2>3. QED
    BY <1>2, <2>1, <2>2 DEF TypeOK
<1>3. QED
  BY <1>1, <1>2

LEMMA MarkedTyped ==
  ASSUME TypeOK, NEW e \in Event, NEW mark \in Record
  PROVE  Marked(e, mark) \in [Event -> Record]
BY DEF Marked, TypeOK
-----------------------------------------------------------------------------
(* The table, the deliveries and the list of the retry cron keep their     *)
(* shape whatever is delivered, repeated or lost.                          *)
LEMMA InitTyped == Init => TypeOK
BY NoCallTyped, EventAssumption DEF Init, TypeOK, Age, Record

LEMMA ProgressTyped ==
  ASSUME TypeOK, NEW d \in Delivery, Progress(d)
  PROVE  TypeOK'
<1>1. call[d] \in [e : Event, at : Label]
  BY DEF TypeOK
<1>2. CASE Check(d)
  BY <1>2, Moved DEF Check, TypeOK, Label
<1>3. CASE Store(d)
  <2>1. call' \in [Delivery -> [e : Event, at : Label]]
    BY <1>3, Moved DEF Store, Label
  <2>2. QED
    BY <1>1, <1>3, <2>1 DEF Store, TypeOK, Record
<1>4. CASE StoreRefused(d)
  BY <1>4, Moved DEF StoreRefused, TypeOK, Label
<1>5. CASE Begin(d)
  <2>1. call' \in [Delivery -> [e : Event, at : Label]]
    BY <1>5, Moved DEF Begin, Label
  <2>2. QED
    BY <1>1, <1>5, <2>1 DEF Begin, TypeOK
<1>6. CASE Finish(d)
  <2>1. call' \in [Delivery -> [e : Event, at : Label]]
    BY <1>6, Moved DEF Finish, Label
  <2>2. QED
    BY <1>1, <1>6, <2>1 DEF Finish, TypeOK
<1>7. CASE Mark(d)
  <2>1. call' \in [Delivery -> [e : Event, at : Label]]
    BY <1>7, Moved DEF Mark, Label
  <2>2. record' \in [Event -> Record]
    BY <1>1, <1>7, MarkedTyped DEF Mark, Record
  <2>3. QED
    BY <1>7, <2>1, <2>2 DEF Mark, TypeOK
<1>8. QED
  BY <1>2, <1>3, <1>4, <1>5, <1>6, <1>7 DEF Progress

LEMMA FaultTyped ==
  ASSUME TypeOK, NEW d \in Delivery, CheckFails(d) \/ Throws(d) \/ MarkFails(d)
  PROVE  TypeOK'
<1>1. call' \in [Delivery -> [e : Event, at : Label]]
  BY Moved DEF CheckFails, Throws, MarkFails, Label
<1>2. QED
  BY <1>1 DEF CheckFails, Throws, MarkFails, Fault, TypeOK

LEMMA StepTyped == TypeOK /\ [Next]_vars => TypeOK'
<1> SUFFICES ASSUME TypeOK, [Next]_vars PROVE TypeOK'
  OBVIOUS
<1>1. ASSUME NEW d \in Delivery, NEW e \in Event, Deliver(d, e)
      PROVE  TypeOK'
  BY <1>1 DEF Deliver, TypeOK, Label
<1>2. ASSUME NEW d \in Delivery, Progress(d)
      PROVE  TypeOK'
  BY <1>2, ProgressTyped
<1>3. ASSUME NEW d \in Delivery, CheckFails(d) \/ Throws(d) \/ MarkFails(d)
      PROVE  TypeOK'
  BY <1>3, FaultTyped
<1>4. CASE Select
  BY <1>4 DEF Select, Unprocessed, TypeOK
<1>5. CASE CleanupOldEvents
  BY <1>5 DEF CleanupOldEvents, TypeOK, Record
<1>6. CASE Crash
  BY <1>6, NoCallTyped DEF Crash, Fault, TypeOK
<1>7. ASSUME NEW e \in Event, Retry(e)
      PROVE  TypeOK'
  BY <1>7, MarkedTyped DEF Retry, TypeOK, Record
<1>8. ASSUME NEW e \in Event, RetryFails(e) \/ GrowStale(e) \/ GrowOld(e)
      PROVE  TypeOK'
  BY <1>8 DEF RetryFails, GrowStale, GrowOld, Fault, TypeOK, Age
<1>9. CASE UNCHANGED vars
  BY <1>9 DEF vars, TypeOK
<1>10. QED
  BY <1>1, <1>2, <1>3, <1>4, <1>5, <1>6, <1>7, <1>8, <1>9 DEF Next

THEOREM WebhooksTyped == Spec => []TypeOK
BY InitTyped, StepTyped, PTL DEF Spec
-----------------------------------------------------------------------------
(* The invariant behind HandledOnce.  A second run of a handler needs a     *)
(* delivery that finds no row; the row is only deleted when the event is    *)
(* old, and then no delivery is accepted any more.                          *)
Working == {"handle", "handling", "mark"}
RowOutlivesRun ==
  \A e \in Event : runs[e] > 0 /\ record[e] = "absent" => age[e] = "old"
NoDeliveryWhenOld ==
  \A d \in Delivery : InFlight(d) => age[call[d].e] # "old"
OneWorker ==
  \A d, q \in Delivery :
    call[d].at \in Working /\ call[q].at \in Working /\ call[d].e = call[q].e => d = q
RunsCounted ==
  /\ \A d \in Delivery :
       /\ call[d].at = "handle" => runs[call[d].e] = 0
       /\ call[d].at = "handling" => runs[call[d].e] = 1 /\ call[d].e \notin done
  /\ \A e \in done : runs[e] > 0

OnceInv ==
  /\ TypeOK
  /\ HandlerOwnsRow
  /\ RowOutlivesRun
  /\ NoDeliveryWhenOld
  /\ OneWorker
  /\ RunsCounted

LEMMA InitOnce == Init => OnceInv
<1> SUFFICES ASSUME Init PROVE OnceInv
  OBVIOUS
<1>1. \A d \in Delivery : call[d].at = "idle"
  BY NoCallTyped DEF Init
<1>2. QED
  BY <1>1, InitTyped
     DEF Init, OnceInv, HandlerOwnsRow, RowOutlivesRun, NoDeliveryWhenOld,
         OneWorker, RunsCounted, Working, InFlight

\* A delivery that stops working, or moves between labels that do not.
LEMMA OnceKept ==
  ASSUME OnceInv, TypeOK', UNCHANGED <<age, runs, done>>,
         \A e \in Event : record'[e] = "absent" <=> record[e] = "absent",
         NEW d \in Delivery, NEW l \in {"idle", "store", "markFailed"},
         Goto(d, l), InFlight(d)
  PROVE  OnceInv'
<1>1. /\ \A q \in Delivery : q # d => call'[q] = call[q]
      /\ call'[d].at = l
      /\ l # "idle" => call'[d].e = call[d].e
  BY Moved DEF OnceInv, Label
<1>2. \A q \in Delivery : call[q].e \in Event /\ call'[q].e \in Event
  BY DEF OnceInv, TypeOK
<1>3. HandlerOwnsRow'
  BY <1>1, <1>2 DEF OnceInv, HandlerOwnsRow, IsStored
<1>4. RowOutlivesRun' /\ NoDeliveryWhenOld'
  BY <1>1, <1>2 DEF OnceInv, RowOutlivesRun, NoDeliveryWhenOld, InFlight
<1>5. OneWorker' /\ RunsCounted'
  BY <1>1, <1>2 DEF OnceInv, OneWorker, RunsCounted, Working
<1>6. QED
  BY <1>3, <1>4, <1>5 DEF OnceInv

\* A step that touches no delivery, and no row but to mark it.
LEMMA OnceUntouched ==
  ASSUME OnceInv, TypeOK', UNCHANGED <<age, call, runs, done>>,
         \A e \in Event : record'[e] = "absent" <=> record[e] = "absent"
  PROVE  OnceInv'
<1>1. \A q \in Delivery : call[q].e \in Event
  BY DEF OnceInv, TypeOK
<1>2. QED
  BY <1>1 DEF OnceInv, HandlerOwnsRow, RowOutlivesRun, NoDeliveryWhenOld, InFlight,
              OneWorker, RunsCounted, IsStored

LEMMA MarkedKeepsRows ==
  ASSUME TypeOK, NEW e \in Event, NEW mark \in {"succeeded", "failed"},
         record' = Marked(e, mark)
  PROVE  \A f \in Event : record'[f] = "absent" <=> record[f] = "absent"
BY DEF Marked, TypeOK

LEMMA StepOnce == OnceInv /\ [Next]_vars => OnceInv'
<1> SUFFICES ASSUME OnceInv, [Next]_vars PROVE OnceInv'
  OBVIOUS
<1>0. TypeOK /\ TypeOK' /\ \A q \in Delivery : call[q].e \in Event
  BY StepTyped DEF OnceInv, TypeOK
<1>1. ASSUME NEW d \in Delivery, NEW e \in Event, Deliver(d, e)
      PROVE  OnceInv'
  <2>1. /\ call'[d].at = "check" /\ call'[d].e = e /\ age[e] = "fresh"
        /\ \A q \in Delivery : q # d => call'[q] = call[q]
    BY <1>0, <1>1 DEF Deliver, Consistent, TypeOK
  <2>2. QED
    BY <1>0, <1>1, <2>1
       DEF Deliver, OnceInv, HandlerOwnsRow, RowOutlivesRun, NoDeliveryWhenOld,
           InFlight, OneWorker, RunsCounted, Working, IsStored
<1>2. ASSUME NEW d \in Delivery, Check(d) \/ CheckFails(d)
      PROVE  OnceInv'
  <2>1. PICK l \in {"idle", "store"} : Goto(d, l)
    BY <1>2 DEF Check, CheckFails
  <2>2. QED
    BY <1>0, <1>2, <2>1, OnceKept DEF Check, CheckFails, InFlight
<1>3. ASSUME NEW d \in Delivery, StoreRefused(d) \/ Throws(d)
      PROVE  OnceInv'
  BY <1>0, <1>3, OnceKept DEF StoreRefused, Throws, InFlight
<1>4. ASSUME NEW d \in Delivery, Mark(d) \/ MarkFails(d)
      PROVE  OnceInv'
  <2>1. \A f \in Event : record'[f] = "absent" <=> record[f] = "absent"
    BY <1>0, <1>4, MarkedKeepsRows DEF Mark, MarkFails
  <2>2. QED
    BY <1>0, <1>4, <2>1, OnceKept DEF Mark, MarkFails, InFlight
<1>5. ASSUME NEW d \in Delivery, Store(d)
      PROVE  OnceInv'
  <2> DEFINE e == call[d].e
  <2>1. /\ \A q \in Delivery : q # d => call'[q] = call[q]
        /\ call'[d].at = "handle" /\ call'[d].e = e
    BY <1>0, <1>5, Moved DEF Store, Label
  <2>2. record[e] = "absent" /\ record'[e] = "stored"
        /\ \A f \in Event : f # e => record'[f] = record[f]
    BY <1>0, <1>5 DEF Store, IsStored, TypeOK
  <2>3. age[e] # "old"
    BY <1>5 DEF Store, OnceInv, NoDeliveryWhenOld, InFlight
  <2>4. runs[e] = 0
    BY <1>0, <2>2, <2>3 DEF OnceInv, RowOutlivesRun, TypeOK
  <2>5. \A q \in Delivery : call[q].at \in Working => call[q].e # e
    BY <2>2 DEF OnceInv, HandlerOwnsRow, IsStored, Working
  <2>6. HandlerOwnsRow' /\ RowOutlivesRun'
    BY <1>0, <1>5, <2>1, <2>2
       DEF Store, OnceInv, HandlerOwnsRow, RowOutlivesRun, IsStored
  <2>7. NoDeliveryWhenOld'
    BY <1>5, <2>1, <2>3 DEF Store, OnceInv, NoDeliveryWhenOld, InFlight
  <2>8. OneWorker'
    BY <2>1, <2>5 DEF OnceInv, OneWorker, Working
  <2>9. RunsCounted'
    BY <1>5, <2>1, <2>4 DEF Store, OnceInv, RunsCounted
  <2>10. QED
    BY <1>0, <2>6, <2>7, <2>8, <2>9 DEF OnceInv
<1>6. ASSUME NEW d \in Delivery, Begin(d) \/ Finish(d)
      PROVE  OnceInv'
  <2> DEFINE e == call[d].e
  <2>1. PICK l \in {"handling", "mark"} :
          /\ call'[d].at = l /\ call'[d].e = e
          /\ \A q \in Delivery : q # d => call'[q] = call[q]
    BY <1>0, <1>6, Moved DEF Begin, Finish, Label
  <2>2. call[d].at \in Working /\ UNCHANGED <<age, record>>
    BY <1>6 DEF Begin, Finish, Working
  <2>3. record[e] # "absent"
    BY <2>2 DEF OnceInv, HandlerOwnsRow, IsStored, Working
  <2>4. \A q \in Delivery : call[q].at \in Working /\ q # d => call[q].e # e
    BY <2>2 DEF OnceInv, OneWorker
  <2>5. HandlerOwnsRow' /\ NoDeliveryWhenOld' /\ OneWorker'
    BY <2>1, <2>2, <2>3
       DEF OnceInv, HandlerOwnsRow, NoDeliveryWhenOld, OneWorker, InFlight,
           IsStored, Working
  <2>6. RowOutlivesRun'
    BY <1>0, <1>6, <2>2, <2>3 DEF Begin, Finish, OnceInv, RowOutlivesRun, TypeOK
  <2>7. CASE Begin(d)
    <3>1. runs[e] = 0 /\ runs' = [runs EXCEPT ![e] = 1] /\ call'[d].at = "handling"
      <4>1. runs[e] = 0
        BY <2>7 DEF Begin, OnceInv, RunsCounted
      <4>2. runs' = [runs EXCEPT ![e] = 1]
        BY <2>7, <4>1 DEF Begin
      <4>3. call'[d].at = "handling"
        BY <1>0, <2>7, Moved DEF Begin, Label
      <4>4. QED
        BY <4>1, <4>2, <4>3
    <3>2. e \notin done /\ done' = done
      BY <1>0, <2>7, <3>1 DEF Begin, OnceInv, RunsCounted, TypeOK
    <3>3. RunsCounted'
      BY <1>0, <2>1, <2>4, <3>1, <3>2 DEF OnceInv, RunsCounted, TypeOK, Working
    <3>4. QED
      BY <1>0, <2>5, <2>6, <3>3 DEF OnceInv
  <2>8. CASE Finish(d)
    <3>1. runs[e] = 1 /\ done' = done \cup {e} /\ runs' = runs /\ call'[d].at = "mark"
      BY <1>0, <2>8, Moved DEF Finish, OnceInv, RunsCounted, Label
    <3>2. RunsCounted'
      BY <1>0, <2>1, <2>4, <3>1 DEF OnceInv, RunsCounted, Working
    <3>3. QED
      BY <1>0, <2>5, <2>6, <3>2 DEF OnceInv
  <2>9. QED
    BY <1>6, <2>7, <2>8
<1>7. CASE CleanupOldEvents
  <2>1. \A e \in Event : record'[e] # record[e] => age[e] = "old"
    BY <1>0, <1>7 DEF CleanupOldEvents, TypeOK
  <2>2. HandlerOwnsRow'
    BY <1>0, <1>7, <2>1
       DEF CleanupOldEvents, OnceInv, HandlerOwnsRow, NoDeliveryWhenOld, InFlight, IsStored
  <2>3. QED
    BY <1>0, <1>7, <2>1, <2>2
       DEF CleanupOldEvents, OnceInv, RowOutlivesRun, NoDeliveryWhenOld, InFlight,
           OneWorker, RunsCounted
<1>8. ASSUME NEW e \in Event, GrowStale(e) \/ GrowOld(e)
      PROVE  OnceInv'
  <2>1. /\ \A f \in Event : age[f] = "old" => age'[f] = "old"
        /\ \A d \in Delivery : InFlight(d) /\ age[call[d].e] # "old" => age'[call[d].e] # "old"
    BY <1>0, <1>8 DEF GrowStale, GrowOld, InFlightOn, TypeOK
  <2>2. UNCHANGED <<record, call, runs, done>>
    BY <1>8 DEF GrowStale, GrowOld
  <2>3. QED
    BY <1>0, <2>1, <2>2
       DEF OnceInv, HandlerOwnsRow, RowOutlivesRun, NoDeliveryWhenOld, InFlight,
           OneWorker, RunsCounted, IsStored
<1>9. CASE Crash
  <2>1. \A d \in Delivery : call'[d].at = "idle"
    BY <1>9, NoCallTyped DEF Crash
  <2>2. QED
    BY <1>0, <1>9, <2>1
       DEF Crash, OnceInv, HandlerOwnsRow, RowOutlivesRun, NoDeliveryWhenOld, InFlight,
           OneWorker, RunsCounted, Working
<1>10. ASSUME NEW e \in Event, Retry(e)
      PROVE  OnceInv'
  BY <1>0, <1>10, MarkedKeepsRows, OnceUntouched DEF Retry
<1>11. CASE Select \/ (\E e \in Event : RetryFails(e)) \/ UNCHANGED vars
  BY <1>0, <1>11, OnceUntouched DEF Select, RetryFails, vars
<1>12. QED
  BY <1>1, <1>2, <1>3, <1>4, <1>5, <1>6, <1>7, <1>8, <1>9, <1>10, <1>11 DEF Next, Progress

(* A handler never works without the row that marks its event as known,     *)
(* whatever the retries and the cleanup do to the table meanwhile.          *)
THEOREM RowOwned == Spec => []HandlerOwnsRow
<1>1. OnceInv => HandlerOwnsRow
  BY DEF OnceInv
<1>2. QED
  BY InitOnce, StepOnce, <1>1, PTL DEF Spec

(* The endpoint implements EventOnce: no event's handler runs twice.        *)
THEOREM DeliveredOnce == Spec => HandledOnce
<1>1. Init => Once!Init
  BY DEF Init, Once!Init
<1>2. OnceInv /\ [Next]_vars => [Once!Next]_<<runs, done>>
  <2> SUFFICES ASSUME OnceInv, [Next]_vars
               PROVE  Once!Next \/ UNCHANGED <<runs, done>>
    OBVIOUS
  <2>0. TypeOK /\ \A q \in Delivery : call[q].e \in Event
    BY DEF OnceInv, TypeOK
  <2>1. ASSUME NEW d \in Delivery, Begin(d)
        PROVE  Once!Next
    <3>1. runs[call[d].e] = 0
      BY <2>1 DEF Begin, OnceInv, RunsCounted
    <3>2. Once!Begin(call[d].e)
      BY <2>1, <3>1 DEF Begin, Once!Begin
    <3>3. QED
      BY <2>0, <3>2 DEF Once!Next
  <2>2. ASSUME NEW d \in Delivery, Finish(d)
        PROVE  Once!Next
    <3>1. runs[call[d].e] = 1 /\ call[d].e \notin done
      BY <2>2 DEF Finish, OnceInv, RunsCounted
    <3>2. Once!Finish(call[d].e)
      BY <2>2, <3>1 DEF Finish, Once!Finish
    <3>3. QED
      BY <2>0, <3>2 DEF Once!Next
  <2>3. QED
    BY <2>1, <2>2
       DEF Next, Progress, vars, Deliver, Check, CheckFails, Store, StoreRefused,
           Throws, Mark, MarkFails, Select, Retry, RetryFails, CleanupOldEvents,
           GrowStale, GrowOld, Crash
<1>3. QED
  BY InitOnce, StepOnce, <1>1, <1>2, PTL DEF Spec, Once!Spec, HandledOnce
=============================================================================
