--------------------------- MODULE StripeWebhooks ---------------------------
(***************************************************************************)
(* The enhanced Stripe endpoint: enhanced-stripe-webhook.controller.ts and *)
(* .service.ts, the event table of webhook-event.service.ts, the retries of *)
(* webhook-retry.service.ts and their crons.  Stripe delivers an event any *)
(* number of times, deliveries of one event may overlap, and the process   *)
(* may die in the middle of any of them.                                   *)
(***************************************************************************)
EXTENDS Naturals

CONSTANTS
  Event,      \* the events of Stripe; their ids are what the table is keyed by
  Delivery,   \* the slots of deliveries in flight
  MaxFaults   \* bound: failed queries, throwing handlers, crashes

ASSUME EventAssumption == Event # {} /\ MaxFaults \in Nat

VARIABLES
  age,      \* of an event: deliverable, too old to be accepted, or so old
            \* that its row is cleaned up
  record,   \* stripe_webhook_events: the row of an event
  call,     \* the deliveries in flight
  sweep,    \* the events the retry cron selected and has still to process
  runs,     \* history: how often the handler of an event was entered
  done,     \* history: the events whose handler came to its end
  faults    \* failures so far

vars == <<age, record, call, sweep, runs, done, faults>>

Age == {"fresh", "stale", "old"}
\* "stored" is processed = false, "failed" is processed with an error.
Record == {"absent", "stored", "succeeded", "failed"}
Label == {"idle", "check", "store", "handle", "handling", "mark", "markFailed"}
NoCall == [e |-> CHOOSE e \in Event : TRUE, at |-> "idle"]

TypeOK ==
  /\ age \in [Event -> Age]
  /\ record \in [Event -> Record]
  /\ call \in [Delivery -> [e : Event, at : Label]]
  /\ sweep \subseteq Event
  /\ runs \in [Event -> Nat]
  /\ done \subseteq Event
  /\ faults \in Nat

Init ==
  /\ age = [e \in Event |-> "fresh"]
  /\ record = [e \in Event |-> "absent"]
  /\ call = [d \in Delivery |-> NoCall]
  /\ sweep = {}
  /\ runs = [e \in Event |-> 0]
  /\ done = {}
  /\ faults = 0

InFlight(d) == call[d].at # "idle"
InFlightOn(e) == \E d \in Delivery : InFlight(d) /\ call[d].e = e
Goto(d, l) ==
  call' = [call EXCEPT ![d] = IF l = "idle" THEN NoCall ELSE [@ EXCEPT !.at = l]]
Fault == faults < MaxFaults /\ faults' = faults + 1

\* A mutant: the timestamp of an event is not looked at.
ConsistentAtAnyAge(e) == TRUE

\* validateEventConsistency: created within the last five minutes.
Consistent(e) == age[e] = "fresh"

\* findOne by event id, and the unique index on it.
IsStored(e) == record[e] # "absent"

\* UPDATE ... WHERE event_id: without a row it updates nothing.
Marked(e, mark) ==
  [record EXCEPT ![e] = IF @ = "absent" THEN @ ELSE mark]

Deliver(d, e) ==
  /\ ~InFlight(d)
  /\ Consistent(e)
  /\ call' = [call EXCEPT ![d] = [e |-> e, at |-> "check"]]
  /\ UNCHANGED <<age, record, sweep, runs, done, faults>>

(* isEventProcessed; a known event is acknowledged as a duplicate, and so   *)
(* is one that cannot be looked up.                                         *)
Check(d) ==
  /\ call[d].at = "check"
  /\ Goto(d, IF IsStored(call[d].e) THEN "idle" ELSE "store")
  /\ UNCHANGED <<age, record, sweep, runs, done, faults>>

CheckFails(d) ==
  /\ call[d].at = "check"
  /\ Fault
  /\ Goto(d, "idle")
  /\ UNCHANGED <<age, record, sweep, runs, done>>

\* A mutant: the stored event is marked without being processed.
StoreOnly(d) ==
  LET e == call[d].e
  IN  /\ call[d].at = "store"
      /\ ~IsStored(e)
      /\ record' = [record EXCEPT ![e] = "stored"]
      /\ Goto(d, "mark")
      /\ UNCHANGED <<age, sweep, runs, done, faults>>

Store(d) ==
  LET e == call[d].e
  IN  /\ call[d].at = "store"
      /\ ~IsStored(e)
      /\ record' = [record EXCEPT ![e] = "stored"]
      /\ Goto(d, "handle")
      /\ UNCHANGED <<age, sweep, runs, done, faults>>

\* The insert is refused: another delivery stored the event first.
StoreRefused(d) ==
  /\ call[d].at = "store"
  /\ IsStored(call[d].e)
  /\ Goto(d, "markFailed")
  /\ UNCHANGED <<age, record, sweep, runs, done, faults>>

\* processWebhookEvent: its first write, and its end.
Begin(d) ==
  /\ call[d].at = "handle"
  /\ runs' = [runs EXCEPT ![call[d].e] = @ + 1]
  /\ Goto(d, "handling")
  /\ UNCHANGED <<age, record, sweep, done, faults>>

Finish(d) ==
  /\ call[d].at = "handling"
  /\ done' = done \cup {call[d].e}
  /\ Goto(d, "mark")
  /\ UNCHANGED <<age, record, sweep, runs, faults>>

\* The insert, or the handler before or after its first writes, throws.
Throws(d) ==
  /\ call[d].at \in {"store", "handle", "handling"}
  /\ Fault
  /\ Goto(d, "markFailed")
  /\ UNCHANGED <<age, record, sweep, runs, done>>

\* markEventAsProcessed, after the handler and in the catch block.
Mark(d) ==
  /\ call[d].at \in {"mark", "markFailed"}
  /\ record' = Marked(call[d].e, IF call[d].at = "mark" THEN "succeeded" ELSE "failed")
  /\ Goto(d, "idle")
  /\ UNCHANGED <<age, sweep, runs, done, faults>>

\* The update fails; markEventAsProcessed swallows what it throws.
MarkFails(d) ==
  /\ call[d].at \in {"mark", "markFailed"}
  /\ Fault
  /\ Goto(d, "idle")
  /\ UNCHANGED <<age, record, sweep, runs, done>>

Unprocessed == {e \in Event : record[e] = "stored"}

\* A mutant: the retries select the events whose processing failed.
SelectFailed ==
  LET found == {e \in Event : record[e] = "failed"}
  IN  /\ ~(found \subseteq sweep)
      /\ sweep' = sweep \cup found
      /\ UNCHANGED <<age, record, call, runs, done, faults>>

(* handleWebhookRetries, every five minutes: the rows found unprocessed now *)
(* are worked through one by one, whatever becomes of them meanwhile.  A    *)
(* tick does not wait for the one before it.                                *)
Select ==
  /\ ~(Unprocessed \subseteq sweep)
  /\ sweep' = sweep \cup Unprocessed
  /\ UNCHANGED <<age, record, call, runs, done, faults>>

(* processEventWithRetry: processStripeEvent logs the event and returns, so *)
(* the catch block with its delays and counts is never entered.             *)
Retry(e) ==
  /\ e \in sweep
  /\ sweep' = sweep \ {e}
  /\ record' = Marked(e, "succeeded")
  /\ UNCHANGED <<age, call, runs, done, faults>>

RetryFails(e) ==
  /\ e \in sweep
  /\ Fault
  /\ sweep' = sweep \ {e}
  /\ UNCHANGED <<age, record, call, runs, done>>

\* A mutant: processed rows are deleted whatever their age.
DeleteProcessed ==
  /\ \E e \in Event : record[e] \in {"succeeded", "failed"}
  /\ record' = [e \in Event |->
       IF record[e] \in {"succeeded", "failed"} THEN "absent" ELSE record[e]]
  /\ UNCHANGED <<age, call, sweep, runs, done, faults>>

\* cleanupOldEvents, daily: processed rows older than thirty days.
CleanupOldEvents ==
  /\ \E e \in Event : age[e] = "old" /\ record[e] \in {"succeeded", "failed"}
  /\ record' = [e \in Event |->
       IF age[e] = "old" /\ record[e] \in {"succeeded", "failed"}
         THEN "absent" ELSE record[e]]
  /\ UNCHANGED <<age, call, sweep, runs, done, faults>>

\* Five minutes go by, which a delivery may take; thirty days it does not.
GrowStale(e) ==
  /\ age[e] = "fresh"
  /\ age' = [age EXCEPT ![e] = "stale"]
  /\ UNCHANGED <<record, call, sweep, runs, done, faults>>

GrowOld(e) ==
  /\ age[e] = "stale" /\ ~InFlightOn(e) /\ e \notin sweep
  /\ age' = [age EXCEPT ![e] = "old"]
  /\ UNCHANGED <<record, call, sweep, runs, done, faults>>

\* The process dies, and with it what it had in memory.
Crash ==
  /\ Fault
  /\ sweep # {} \/ \E d \in Delivery : InFlight(d)
  /\ call' = [d \in Delivery |-> NoCall]
  /\ sweep' = {}
  /\ UNCHANGED <<age, record, runs, done>>

Progress(d) ==
  Check(d) \/ Store(d) \/ StoreRefused(d) \/ Begin(d) \/ Finish(d) \/ Mark(d)

Next ==
  \/ \E d \in Delivery :
       \/ \E e \in Event : Deliver(d, e)
       \/ Progress(d)
       \/ CheckFails(d) \/ Throws(d) \/ MarkFails(d)
  \/ Select \/ CleanupOldEvents \/ Crash
  \/ \E e \in Event : Retry(e) \/ RetryFails(e) \/ GrowStale(e) \/ GrowOld(e)

Spec == Init /\ [][Next]_vars

(* A delivery in flight goes on, the retry cron keeps firing and works      *)
(* through what it selected.  Stripe need not deliver anything, time may    *)
(* stand still for an event, and nothing has to fail.                       *)
FairSpec ==
  /\ Spec
  /\ \A d \in Delivery : WF_vars(Progress(d))
  /\ WF_vars(Select)
  /\ \A e \in Event : WF_vars(Retry(e))
-----------------------------------------------------------------------------
(* The handler of an event is entered at most once, and what is done was    *)
(* begun: however deliveries overlap and are repeated, whatever fails or    *)
(* crashes, and although the rows that record the deliveries are deleted.   *)
Once == INSTANCE EventOnce WITH Event <- Event, runs <- runs, done <- done
HandledOnce == Once!Spec

(* The row of an event outlives the handler that works for it, whatever the *)
(* retries mark and the cleanup deletes meanwhile: it is what makes a       *)
(* redelivery a duplicate.                                                  *)
HandlerOwnsRow ==
  \A d \in Delivery :
    call[d].at \in {"handle", "handling", "mark"} => IsStored(call[d].e)

(* No row stays unprocessed: what a crash or a failed update leaves behind, *)
(* the retry cron marks.                                                    *)
RowsSettle == \A e \in Event : record[e] = "stored" ~> record[e] # "stored"

(* An event that arrives is handled to the end, unless something failed.    *)
ArrivalsHandled ==
  \A e \in Event : InFlightOn(e) ~> (e \in done \/ faults > 0)
=============================================================================
