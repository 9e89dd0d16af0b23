----------------------------- MODULE EventOnce -----------------------------
(***************************************************************************)
(* What the delivery of webhooks promises: the handler of an event is      *)
(* entered at most once, and nothing finishes that was not begun.          *)
(***************************************************************************)
EXTENDS Naturals

CONSTANT Event

VARIABLES
  runs,     \* how often the handler of an event was entered
  done      \* the events whose handler came to its end

Init ==
  /\ runs = [e \in Event |-> 0]
  /\ done = {}

Begin(e) ==
  /\ runs[e] = 0
  /\ runs' = [runs EXCEPT ![e] = 1]
  /\ UNCHANGED done

Finish(e) ==
  /\ runs[e] = 1 /\ e \notin done
  /\ done' = done \cup {e}
  /\ UNCHANGED runs

Next == \E e \in Event : Begin(e) \/ Finish(e)

Spec == Init /\ [][Next]_<<runs, done>>
============================================================================
