---------------------------- MODULE RequestLimits ----------------------------
(***************************************************************************)
(* The rate limit of the administration's routes:                          *)
(* common/middleware/rate-limit.middleware.ts.  A record per address and   *)
(* path counts the requests of a window; reads and writes have limits and  *)
(* blocks of their own and share the record of their path.  The records of *)
(* two keys share nothing: this is one key.                                *)
(***************************************************************************)
EXTENDS Integers, FiniteSets, FiniteSetsExt

CONSTANTS Window,     \* windowMs, in ticks
          ReadLimit,  \* maxRequests of GET
          WriteLimit, \* maxRequests of POST, PUT and DELETE
          ReadBlock,  \* blockDuration of GET
          WriteBlock, \* blockDuration of POST, PUT and DELETE
          LastTick    \* bound: time ends there

VARIABLES clock,      \* Date.now()
          record,     \* the entry of requestCounts
          passed,     \* history: the requests let through in the last Window ticks,
                     \* by age and kind
          barred      \* history: until when the last block was to last

vars == <<clock, record, passed, barred>>

Kind == {"read", "write"}
Tick == 0 .. LastTick
Age == 0 .. Window - 1
Limit == [read |-> ReadLimit, write |-> WriteLimit]
Block == [read |-> ReadBlock, write |-> WriteBlock]

NoRecord == [kept |-> FALSE, count |-> 0, reset |-> 0, until |-> 0]
Fresh == [kept |-> TRUE, count |-> 0, reset |-> clock + Window, until |-> 0]

TypeOK ==
  /\ clock \in Tick
  /\ record \in [kept : BOOLEAN, count : 0 .. ReadLimit + 1,
                 reset : 0 .. LastTick + Window,
                 until : 0 .. LastTick + WriteBlock + ReadBlock]
  /\ passed \in [Age -> [Kind -> Nat]]
  /\ barred \in 0 .. LastTick + WriteBlock + ReadBlock

Init ==
  /\ clock = 0
  /\ record = NoRecord
  /\ passed = [a \in Age |-> [k \in Kind |-> 0]]
  /\ barred = 0
-----------------------------------------------------------------------------
Blocked == record.kept /\ clock < record.until

(* The record the request counts in: a new one, or one whose window is     *)
(* over and starts again, or the one that is there.                        *)
Current == IF record.kept /\ clock <= record.reset THEN record ELSE Fresh

\* A blocked key is refused, and nothing is counted.
Refuse(kind) == Blocked /\ UNCHANGED vars

\* The request is counted, and its method's limit decides.
Admit(kind) ==
  /\ ~Blocked
  /\ Current.count < Limit[kind]
  /\ record' = [Current EXCEPT !.count = @ + 1]
  /\ passed' = [passed EXCEPT ![0][kind] = @ + 1]
  /\ UNCHANGED <<clock, barred>>

\* handleRateLimitViolation only writes to the security log.
Violate(kind) ==
  /\ ~Blocked
  /\ Current.count >= Limit[kind]
  /\ record' = [Current EXCEPT !.count = Min({@ + 1, ReadLimit + 1}),
                               !.until = clock + Block[kind]]
  /\ barred' = clock + Block[kind]
  /\ UNCHANGED <<clock, passed>>

\* A mutant: the cleanup looks at the window only.
CleanupByWindow ==
  /\ record.kept /\ clock > record.reset
  /\ record' = NoRecord
  /\ UNCHANGED <<clock, passed, barred>>

\* Every five minutes.
Cleanup ==
  /\ record.kept /\ clock > record.reset /\ (record.until = 0 \/ clock > record.until)
  /\ record' = NoRecord
  /\ UNCHANGED <<clock, passed, barred>>

Advance ==
  /\ clock < LastTick
  /\ clock' = clock + 1
  /\ passed' = [a \in Age |-> IF a = 0 THEN [k \in Kind |-> 0] ELSE passed[a - 1]]
  /\ UNCHANGED <<record, barred>>

Next ==
  \/ \E kind \in Kind : Refuse(kind) \/ Admit(kind) \/ Violate(kind)
  \/ Cleanup \/ Advance
-----------------------------------------------------------------------------
\* What was let through in the last Window ticks.
Lately(kinds) == SumFunctionOnSet([a \in Age |-> SumFunctionOnSet(passed[a], kinds)], Age)

(* What is let through is within limits: no request passes while its key   *)
(* is blocked, and no stretch of time as long as a window sees more than   *)
(* two windows' worth, of writes and altogether.                           *)
AdmittedStep ==
  clock' = clock /\ passed' # passed =>
    /\ clock >= barred
    /\ Lately({"write"})' <= 2 * WriteLimit
    /\ Lately(Kind)' <= 2 * ReadLimit

AdmittedWithinLimits == [][AdmittedStep]_vars
=============================================================================
