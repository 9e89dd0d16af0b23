----------------------------- MODULE WebhookLimits -----------------------------
(***************************************************************************)
(* The rate limits of the Stripe endpoint: webhook-rate-limit.service.ts   *)
(* as enhanced-stripe-webhook.controller.ts asks it.  A delivery is        *)
(* counted under three keys, one after the other: all deliveries, those of *)
(* its address and those of its event type.  A level that refuses leaves   *)
(* the counts of the levels before it.                                     *)
(***************************************************************************)
EXTENDS Integers, Functions

CONSTANTS Address, EventType,
          Period,       \* windowMs, in ticks
          GlobalMax, AddressMax, EventMax,   \* maxRequests of each level
          LastMinute    \* bound: time ends there

VARIABLES minute,   \* Date.now()
          entry,    \* rateLimits, by key
          through   \* history: the deliveries let through in the last Period
                    \* ticks, by key and age

vars == <<minute, entry, through>>

\* 'global' is one key for all.
Key == {"global"} \cup Address \cup EventType
Limit == [k \in Key |-> IF k = "global" THEN GlobalMax
                        ELSE IF k \in Address THEN AddressMax ELSE EventMax]
Ago == 0 .. Period - 1
NoEntry == [count |-> 0, reset |-> 0]

TypeOK ==
  /\ minute \in 0 .. LastMinute
  /\ entry \in [Key -> [count : Nat, reset : 0 .. LastMinute + Period]]
  /\ \A k \in Key : entry[k].count <= Limit[k]
  /\ through \in [Key -> [Ago -> Nat]]

Init ==
  /\ minute = 0
  /\ entry = [k \in Key |-> NoEntry]
  /\ through = [k \in Key |-> [a \in Ago |-> 0]]
-----------------------------------------------------------------------------
Expired(k) == minute >= entry[k].reset
Full(k) == ~Expired(k) /\ entry[k].count >= Limit[k]

\* A mutant: a delivery under a full key starts a new window.
CountedAnew(k) ==
  IF Expired(k) \/ Full(k) THEN [count |-> 1, reset |-> minute + Period]
  ELSE [entry[k] EXCEPT !.count = @ + 1]

\* checkRateLimit; an absent entry is one that has expired.
Counted(k) ==
  IF Expired(k) THEN [count |-> 1, reset |-> minute + Period]
  ELSE IF Full(k) THEN entry[k]
  ELSE [entry[k] EXCEPT !.count = @ + 1]

\* isWithinRateLimits, which does not await anything: the keys are asked in
\* turn until one is full.
Deliver(address, type) ==
  LET levels == <<"global", address, type>>
      asked == {i \in 1..3 : \A j \in 1 .. i - 1 : ~Full(levels[j])}
      keys == {levels[i] : i \in asked}
      allowed == \A k \in keys : ~Full(k)
  IN /\ entry' = [k \in Key |-> IF k \in keys THEN Counted(k) ELSE entry[k]]
     /\ through' = [k \in Key |-> IF allowed /\ k \in keys THEN [through[k] EXCEPT ![0] = @ + 1]
                                  ELSE through[k]]
     /\ UNCHANGED minute

\* cleanupExpiredEntries; absent and expired entries are the same to a check.
CleanUp ==
  /\ \E k \in Key : Expired(k) /\ entry[k] # NoEntry
  /\ entry' = [k \in Key |-> IF Expired(k) THEN NoEntry ELSE entry[k]]
  /\ UNCHANGED <<minute, through>>

Pass ==
  /\ minute < LastMinute
  /\ minute' = minute + 1
  /\ through' = [k \in Key |-> [a \in Ago |-> IF a = 0 THEN 0 ELSE through[k][a - 1]]]
  /\ UNCHANGED entry

Next ==
  \/ \E address \in Address, type \in EventType : Deliver(address, type)
  \/ CleanUp \/ Pass
-----------------------------------------------------------------------------
Lately(k) == SumFunctionOnSet(through[k], Ago)

(* In a stretch of time as long as a window, at most two windows' worth of *)
(* deliveries gets through under each key (webhook-rate-limit.service.ts). *)
DeliveriesWithinLimits == \A k \in Key : Lately(k) <= 2 * Limit[k]
=============================================================================
