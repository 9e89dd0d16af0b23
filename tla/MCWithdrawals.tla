--------------------------- MODULE MCWithdrawals ---------------------------
(* Model checking of Withdrawals: the slots of calls are interchangeable.  *)
EXTENDS Withdrawals, TLC

RequestSymmetry == Permutations(Request)
=============================================================================
