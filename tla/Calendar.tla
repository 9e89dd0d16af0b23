------------------------------ MODULE Calendar ------------------------------
(***************************************************************************)
(* What the reservation of tools amounts to: no day of a tool is given to   *)
(* two bookings, except to two that were asked for at the same time.        *)
(***************************************************************************)
CONSTANTS
  Claimant,   \* the bookings
  Slot        \* the days of the tools

VARIABLES
  held,       \* held[c]: the slots given to c
  rivals      \* the sets of claimants that were asked for at the same time

vars == <<held, rivals>>

Init == held = [c \in Claimant |-> {}] /\ rivals = {}

Apart(c, S) ==
  \A d \in Claimant \ {c} : held[d] \cap S = {} \/ {c, d} \in rivals

\* c gives back what it has and takes other slots.
Take(c) ==
  \E S \in SUBSET Slot :
    /\ Apart(c, S)
    /\ held' = [held EXCEPT ![c] = S]
    /\ UNCHANGED rivals

GiveBack(C) ==
  /\ held' = [c \in Claimant |-> IF c \in C THEN {} ELSE held[c]]
  /\ UNCHANGED rivals

Meet == rivals \subseteq rivals' /\ UNCHANGED held

Next ==
  \/ \E c \in Claimant : Take(c)
  \/ \E C \in SUBSET Claimant : GiveBack(C)
  \/ Meet

Spec == Init /\ [][Next]_vars
=============================================================================
