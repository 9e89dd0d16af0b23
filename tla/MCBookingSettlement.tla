------------------------ MODULE MCBookingSettlement ------------------------
(***************************************************************************)
(* Instances of BookingSettlement for TLC: what the clients ask for in     *)
(* each run, and the amounts.                                              *)
(***************************************************************************)
EXTENDS BookingSettlement

CONSTANTS b1, b2

\* The owner's revenue of b1 and b2, and the larger part of the gross price
\* that a forced cancellation takes back.
AmountShare == [b \in Booking |-> IF b = b1 THEN 2 ELSE 3]
AmountGross == [b \in Booking |-> AmountShare[b] + 1]

\* The full price, as the webhook credits it.
AmountPrice == [b \in Booking |-> AmountShare[b] + 3]

\* Any client, any cron, any status.
OfferedAlways == Op \X Status

\* The calls that move money, and wait for locks, on behalf of users.
OfferedAroundMoney ==
  {"accept", "validate", "renterCancel", "ownerCancel"} \X Status

(* The calls of the screens: an owner refuses or cancels what is pending or *)
(* accepted, an administrator pays a booking out once, before its tool is   *)
(* handed over, and does not force a cancellation.                          *)
OfferedOnScreens ==
  ((Op \ {"ownerCancel", "adminCancel", "payout"}) \X Status)
    \cup {<<"ownerCancel", "PENDING">>, <<"ownerCancel", "ACCEPTED">>,
          <<"payout", "ACCEPTED">>}
============================================================================
