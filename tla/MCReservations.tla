--------------------------- MODULE MCReservations ---------------------------
(* Model checking of Reservations: the slots of calls are interchangeable. *)
EXTENDS Reservations, TLC

\* Dates that meet those of a new booking, and dates that do not meet.
AskedDates == {<<1, 1>>, <<2, 2>>}

RequestSymmetry == Permutations(Request)
=============================================================================
