------------------------- MODULE BookingSettlement -------------------------
(***************************************************************************)
(* The handlers that move a booking through its life and its money with    *)
(* it: bookings.service.ts, bookings-cancellation.service.ts, the booking  *)
(* side of wallets.service.ts, the auto-completion cron, and what the      *)
(* webhooks do to a booking and to its owner's wallet when Stripe reports  *)
(* a payment intent that names it.                                         *)
(*                                                                         *)
(* A request is one HTTP call (or one booking of a cron tick).  It loads   *)
(* the booking into an in-memory entity, checks that entity, and then      *)
(* works through the awaits of its handler, one step of this module each:  *)
(* other requests run in between.  A wallet call is two steps, the read    *)
(* and the save of what was computed from the read; it goes through the    *)
(* repository's own connection, so it is outside the database transaction  *)
(* the handler has open.  What a transaction writes appears at its commit. *)
(***************************************************************************)
EXTENDS Integers, FiniteSetsExt

CONSTANTS
  Booking,      \* the bookings; one owner, so one owner wallet for them all
  Request,      \* the slots of calls in flight
  NoRequest,    \* nobody holds the row lock of a booking
  Share,        \* Share[b]: what acceptBooking credits to a wallet for b
  Gross,        \* Gross[b]: what the forced cancellation takes from it
  Price,        \* Price[b]: the amount of the payment intents that name b
  Offered,      \* <<operation, status>>: what clients and crons do ask for
  Payments,     \* how bookings are paid when they are created
  Overlap,      \* may two requests be in flight on the same booking?
  ForeignKeys,  \* does the schema have the foreign keys the entities declare?
  MaxIncome,    \* bound: revenue records a booking may have before an accept
  MaxCredited,  \* bound: what was credited for a booking before another credit
  MaxFaults     \* bound: exceptions and crashes in a behaviour

Status == {"PENDING", "ACCEPTED", "REJECTED", "ONGOING", "CANCELLED", "COMPLETED"}
Op == {"accept", "confirm", "validate", "complete", "autoComplete",
       "return", "pickup", "report", "claim", "depositCancel", "payout",
       "renterCancel", "ownerCancel", "adminCancel", "credit", "notice"}
Party == {"owner", "admin"}
Money == {"none", "held", "captured", "released", "refunded"}

ASSUME SlotAssumption == NoRequest \notin Request
ASSUME AmountAssumption ==
  /\ Share \in [Booking -> Nat \ {0}]
  /\ Gross \in [Booking -> Nat \ {0}]
  /\ Price \in [Booking -> Nat \ {0}]
  /\ Booking # {}
ASSUME BoundAssumption ==
  /\ Offered \subseteq Op \X Status
  /\ Payments \subseteq {"none", "held", "captured"}
  /\ Overlap \in BOOLEAN
  /\ ForeignKeys \in BOOLEAN
  /\ MaxIncome \in Nat
  /\ MaxCredited \in Nat
  /\ MaxFaults \in Nat

VARIABLES
  row,      \* the bookings table: the columns the handlers decide on
  money,    \* Stripe: what became of the payment intent of a booking
  income,   \* transactions table: pairs of RENTAL_INCOME rows of a booking
  wallet,   \* the wallets table, the owner's row and the platform's
  settled,  \* history: the wallets a booking's revenue became available in
  credited, \* history: what the webhook made available to the owner for it
  lock,     \* the InnoDB row lock of a booking, held by an open transaction
  req,      \* the calls in flight
  faults    \* exceptions and crashes so far

vars == <<row, money, income, wallet, settled, credited, lock, req, faults>>

Row == [status : Status, code : BOOLEAN, returned : BOOLEAN,
        pickup : BOOLEAN, claim : BOOLEAN]
Column == {"status", "code", "returned", "pickup", "claim"}
Purse == [pending : Int, available : Int]
WalletRead == {"owner", "admin"}
WalletSave == {"ownerSave", "adminSave"}
Label == WalletRead \cup WalletSave
           \cup {"idle", "lock", "refund", "commit", "cleanup"}

NewRow == [status |-> "PENDING", code |-> FALSE, returned |-> FALSE,
           pickup |-> FALSE, claim |-> FALSE]
EmptyPurse == [pending |-> 0, available |-> 0]
NoCall == [op |-> "accept", b |-> CHOOSE b \in Booking : TRUE, at |-> "idle",
           ent |-> NewRow, cols |-> {}, buf |-> EmptyPurse, due |-> FALSE,
           pin |-> FALSE]
\* pin: the call's open transaction holds a refund row, hence shared locks on
\* the owner's wallet and on the booking it references.
Call == [op : Op, b : Booking, at : Label, ent : Row, cols : SUBSET Column,
         buf : Purse, due : BOOLEAN, pin : BOOLEAN]
----------------------------------------------------------------------------
(* What each handler asks of the entity it loaded, and what it makes of it. *)

Cancels == {"renterCancel", "ownerCancel", "adminCancel"}

MayAccept(e) == e.status = "PENDING"
MayConfirm(e) == e.status = "PENDING"

\* A mutant: the code is compared, but its absence is no longer refused.
MayValidateNoCode(e) == e.status = "ACCEPTED"

MayValidate(e) == e.status = "ACCEPTED" /\ e.code

MayComplete(e) == e.status = "ACCEPTED"
MayAutoComplete(e) == e.status = "ACCEPTED"
MayReturn(e) == e.status = "ONGOING" /\ ~e.returned

\* A mutant: the owner may take the tool back before the renter returned it.
MayPickUpEarly(e) == e.status = "ONGOING"

MayPickUp(e) == e.status = "ONGOING" /\ e.returned
MayReport(e) == e.status = "ONGOING" /\ e.returned
MayDepositCancel(e) == e.status \notin {"CANCELLED", "COMPLETED"}

\* A mutant: a renter may still cancel once the tool is in their hands.
MayRenterCancelLate(e) == e.status \in {"PENDING", "ACCEPTED", "ONGOING"}

MayRenterCancel(e) == e.status \in {"PENDING", "ACCEPTED"}
MayAdminCancel(e) == e.status \notin {"CANCELLED", "COMPLETED"}
MayPayOut(e) == e.status \in {"ACCEPTED", "ONGOING", "COMPLETED"}

\* A dispute, the owner's cancellation and the webhooks look at no status.
Guard(op, e) ==
  CASE op = "accept" -> MayAccept(e)
    [] op = "confirm" -> MayConfirm(e)
    [] op = "validate" -> MayValidate(e)
    [] op = "complete" -> MayComplete(e)
    [] op = "autoComplete" -> MayAutoComplete(e)
    [] op = "return" -> MayReturn(e)
    [] op = "pickup" -> MayPickUp(e)
    [] op = "report" -> MayReport(e)
    [] op = "depositCancel" -> MayDepositCancel(e)
    [] op = "renterCancel" -> MayRenterCancel(e)
    [] op = "adminCancel" -> MayAdminCancel(e)
    [] op = "payout" -> MayPayOut(e)
    [] OTHER -> TRUE

Accepted(e) == [e EXCEPT !.status = "ACCEPTED", !.code = TRUE]
Validated(e) == [e EXCEPT !.status = "ONGOING", !.claim = FALSE]
Returned(e) == [e EXCEPT !.returned = TRUE]
PickedUp(e) == [e EXCEPT !.status = "COMPLETED", !.pickup = TRUE]
Reported(e) == [e EXCEPT !.pickup = TRUE]
Claimed(e) == [e EXCEPT !.claim = TRUE]
RefusedByOwner(e) ==
  [e EXCEPT !.status = IF @ = "PENDING" THEN "REJECTED" ELSE "CANCELLED"]

\* The entity a handler saves.
Assign(op, e) ==
  CASE op = "accept" -> Accepted(e)
    [] op = "confirm" -> [e EXCEPT !.status = "ACCEPTED"]
    [] op = "validate" -> Validated(e)
    [] op \in {"complete", "autoComplete", "payout"} -> [e EXCEPT !.status = "COMPLETED"]
    [] op = "return" -> Returned(e)
    [] op = "pickup" -> PickedUp(e)
    [] op = "report" -> Reported(e)
    [] op = "claim" -> Claimed(e)
    [] op = "ownerCancel" -> RefusedByOwner(e)
    [] op \in {"credit", "notice"} -> e
    [] OTHER -> [e EXCEPT !.status = "CANCELLED"]

\* The columns in which two versions of a booking differ, and those a
\* handler writes; the payout updates the status whatever it was.
Differ(e, f) == {c \in Column : e[c] # f[c]}
Assigned(op, e) ==
  Differ(e, Assign(op, e)) \cup (IF op = "payout" THEN {"status"} ELSE {})

(* repository.save(entity) compares the entity with the row it selects now *)
(* and updates the columns that differ: every column the handler assigned, *)
(* and any column another request changed since the load, unless that      *)
(* change slips in between the SELECT and the UPDATE.                      *)
Merge(old, ent, written) ==
  [status   |-> IF "status"   \in written THEN ent.status   ELSE old.status,
   code     |-> IF "code"     \in written THEN ent.code     ELSE old.code,
   returned |-> IF "returned" \in written THEN ent.returned ELSE old.returned,
   pickup   |-> IF "pickup"   \in written THEN ent.pickup   ELSE old.pickup,
   claim    |-> IF "claim"    \in written THEN ent.claim    ELSE old.claim]

(* The webhooks set a payment status, a column no handler here decides on, *)
(* and save the whole booking they loaded: "credit" is the enhanced        *)
(* endpoint's payment_intent.succeeded, which goes on to the owner's       *)
(* wallet, "notice" every other event of either endpoint.                  *)
Notices == {"credit", "notice"}

\* These save the booking first, and then go on to the wallets.
SavesFirst == {"validate", "credit"}

\* The awaits of each handler, in order; "idle" is the end of the call.
First(op) ==
  CASE op \in {"accept", "payout"} -> "owner"
    [] op \in {"ownerCancel", "adminCancel"} -> "lock"
    [] op = "renterCancel" -> "refund"
    [] OTHER -> "commit"

Following(op, l) ==
  CASE l = "lock" -> "refund"
    [] l = "refund" -> IF op = "adminCancel" THEN "commit" ELSE "owner"
    [] l \in {"owner", "ownerSave"} -> IF op = "credit" THEN "idle" ELSE "admin"
    [] l \in {"admin", "adminSave"} -> IF op \in SavesFirst THEN "idle" ELSE "commit"
    [] l = "commit" ->
         IF op \in {"renterCancel", "ownerCancel"} THEN "cleanup"
         ELSE IF op \in SavesFirst THEN "owner" ELSE "idle"
    [] OTHER -> "idle"

\* Where a handler goes on when a step throws: its inner try/catch blocks
\* swallow what the wallet calls throw, the outer one rolls back.
Recovery(op, l) ==
  IF op \in {"renterCancel", "ownerCancel"} /\ l \in WalletRead \cup WalletSave
    THEN "commit" ELSE "idle"
----------------------------------------------------------------------------
(* The wallet calls: what is computed from the row just read.              *)

AddPending(p, share) == [p EXCEPT !.pending = @ + share]

\* A mutant: what is transferred is no longer limited to what is pending.
TransferUnbounded(p, total) ==
  [pending |-> p.pending - total, available |-> p.available + total]

Transfer(p, total) ==
  LET moved == IF p.pending < total THEN p.pending ELSE total
  IN  IF moved <= 0 THEN p
      ELSE [pending |-> p.pending - moved, available |-> p.available + moved]

\* A mutant: the funds are taken back even where fewer are pending.
WithdrawUnchecked(p, total) == [p EXCEPT !.pending = @ - total]

Withdraw(p, total) ==
  IF p.pending < total THEN p ELSE [p EXCEPT !.pending = @ - total]

\* addAvailableFunds: at once, whatever became of the booking.
AddAvailable(p, amount) == [p EXCEPT !.available = @ + amount]

\* What a call adds to a wallet, where it adds.
Added(op, b) == IF op = "credit" THEN Price[b] ELSE Share[b]

WalletCall(op, p, added, total) ==
  CASE op = "accept" -> AddPending(p, added)
    [] op = "credit" -> AddAvailable(p, added)
    [] op \in {"validate", "payout"} -> Transfer(p, total)
    [] OTHER -> Withdraw(p, total)

Transfers == {"validate", "payout"}
----------------------------------------------------------------------------
TypeOK ==
  /\ row \in [Booking -> Row]
  /\ money \in [Booking -> Money]
  /\ income \in [Booking -> Nat]
  /\ wallet \in [Party -> Purse]
  /\ settled \in [Booking -> SUBSET Party]
  /\ credited \in [Booking -> Nat]
  /\ lock \in [Booking -> Request \cup {NoRequest}]
  /\ req \in [Request -> Call]
  /\ faults \in Nat

(* A booking starts PENDING; its payment is absent (created without        *)
(* payment), an authorised hold, or a payment already captured.            *)
Init ==
  /\ row = [b \in Booking |-> NewRow]
  /\ money \in [Booking -> Payments]
  /\ income = [b \in Booking |-> 0]
  /\ wallet = [w \in Party |-> EmptyPurse]
  /\ settled = [b \in Booking |-> {}]
  /\ credited = [b \in Booking |-> 0]
  /\ lock = [b \in Booking |-> NoRequest]
  /\ req = [r \in Request |-> NoCall]
  /\ faults = 0

InFlight(r) == req[r].at # "idle"
Goto(r, l) ==
  req' = [req EXCEPT ![r] = IF l = "idle" THEN NoCall
                            ELSE [@ EXCEPT !.at = l, !.buf = EmptyPurse]]
Proceed(r) == Goto(r, Following(req[r].op, req[r].at))

\* A mutant: the transaction is left open when the call ends.
KeepLock(r) == lock

\* The finally block: the call is over and its transaction with it.
Unlock(r) == [b \in Booking |-> IF lock[b] = r THEN NoRequest ELSE lock[b]]
Abort(r) ==
  /\ Goto(r, "idle")
  /\ lock' = Unlock(r)

(* findOne and the checks on what it returned.  A refund is due on every   *)
(* cancellation, except a renter's of an accepted booking later than 24    *)
(* hours before the pickup.  An event may name any booking: intents of     *)
(* deposits carry the booking's id as those of its price do.               *)
Load(r, op, b) ==
  /\ ~InFlight(r)
  /\ Overlap \/ \A q \in Request : InFlight(q) => req[q].b # b
  /\ <<op, row[b].status>> \in Offered
  /\ Guard(op, row[b])
  /\ op = "accept" => income[b] < MaxIncome
  /\ op = "credit" => credited[b] < MaxCredited
  /\ \E early \in BOOLEAN :
       req' = [req EXCEPT ![r] =
         [op |-> op, b |-> b, at |-> First(op), ent |-> Assign(op, row[b]),
          cols |-> Assigned(op, row[b]), buf |-> EmptyPurse,
          due |-> IF op = "renterCancel" /\ row[b].status = "ACCEPTED"
                    THEN early ELSE op \in Cancels,
          pin |-> FALSE]]
  /\ UNCHANGED <<row, money, income, wallet, settled, credited, lock, faults>>

\* The first half of a wallet call; it returns early where nothing changes.
ReadWallet(r, w) ==
  LET c == req[r]
      new == WalletCall(c.op, wallet[w], Added(c.op, c.b), income[c.b] * Share[c.b])
  IN  /\ c.at = w
      /\ IF new = wallet[w]
           THEN Proceed(r)
           ELSE req' = [req EXCEPT ![r] =
                  [@ EXCEPT !.at = IF w = "owner" THEN "ownerSave" ELSE "adminSave",
                            !.buf = new]]
      /\ UNCHANGED <<row, money, income, wallet, settled, credited, lock, faults>>

(* The second half: the save writes what the call changed, and may write   *)
(* back a stale balance that it did not change and that another call did   *)
(* in between.  The owner's wallet cannot be updated while a refund row in *)
(* an open transaction references it.                                      *)
SaveWallet(r, w) ==
  LET c == req[r]
  IN  /\ c.at = IF w = "owner" THEN "ownerSave" ELSE "adminSave"
      /\ w = "owner" => \A q \in Request : ~req[q].pin
      /\ \E p \in {c.buf.pending} \cup
                  (IF c.op = "credit" THEN {wallet[w].pending} ELSE {}),
            a \in {c.buf.available} \cup
                  (IF c.op \in Transfers \cup {"credit"} THEN {} ELSE {wallet[w].available}) :
           wallet' = [wallet EXCEPT ![w] = [pending |-> p, available |-> a]]
      /\ settled' = IF c.op \in Transfers
                      THEN [settled EXCEPT ![c.b] = @ \cup {w}] ELSE settled
      /\ credited' = IF c.op = "credit"
                       THEN [credited EXCEPT ![c.b] = @ + Price[c.b]] ELSE credited
      /\ Proceed(r)
      /\ UNCHANGED <<row, money, income, lock, faults>>

(* A cancellation whose own open transaction references the owner's wallet *)
(* updates that wallet on another connection: it waits for itself, until   *)
(* the lock wait times out and the error is swallowed.                     *)
WalletTimeout(r) ==
  /\ req[r].at = "ownerSave" /\ req[r].pin
  /\ Goto(r, Recovery(req[r].op, "ownerSave"))
  /\ UNCHANGED <<row, money, income, wallet, settled, credited, lock, faults>>

\* No other open transaction has written the booking or references it.
RowFree(r) ==
  LET b == req[r].b
  IN  /\ lock[b] \in {NoRequest, r}
      /\ \A q \in Request \ {r} : req[q].pin => req[q].b # b

\* The owner's and the admin's cancellation save the booking first: the row
\* stays locked until their transaction ends.
LockRow(r) ==
  LET b == req[r].b
  IN  /\ req[r].at = "lock"
      /\ RowFree(r)
      /\ lock' = [lock EXCEPT ![b] = r]
      /\ Proceed(r)
      /\ UNCHANGED <<row, money, income, wallet, settled, credited, faults>>

\* An authorised payment is released at Stripe, whoever cancels and when.
ReleaseHold(r) ==
  LET b == req[r].b
  IN  /\ req[r].at = "refund" /\ money[b] = "held"
      /\ money' = [money EXCEPT ![b] = "released"]
      /\ Proceed(r)
      /\ UNCHANGED <<row, income, wallet, settled, credited, lock, faults>>

(* A payment without a transaction row of its own is refunded at Stripe    *)
(* directly, and the refund row is inserted in the open transaction.       *)
RecordRefund(r, inserts) ==
  \E pin \in BOOLEAN :
    /\ pin => ForeignKeys /\ inserts /\ RowFree(r)
    /\ req' = [req EXCEPT ![r] =
                [@ EXCEPT !.at = Following(req[r].op, "refund"), !.pin = pin]]

RefundCaptured(r) ==
  LET b == req[r].b
  IN  /\ req[r].at = "refund" /\ money[b] = "captured" /\ req[r].due
      /\ money' = [money EXCEPT ![b] = "refunded"]
      /\ RecordRefund(r, req[r].op # "adminCancel")
      /\ UNCHANGED <<row, income, wallet, settled, credited, lock, faults>>

(* No payment, no hold left, a late cancellation, or a payment refunded    *)
(* before: Stripe's "already been refunded" is taken for success (only the *)
(* owner's cancellation inserts a refund row again), and the admin's       *)
(* cancellation does not even ask again.                                   *)
NothingToRefund(r) ==
  LET b == req[r].b
  IN  /\ req[r].at = "refund"
      /\ \/ money[b] \in {"none", "released", "refunded"}
         \/ money[b] = "captured" /\ ~req[r].due
      /\ RecordRefund(r, req[r].op = "ownerCancel" /\ money[b] = "refunded")
      /\ UNCHANGED <<row, money, income, wallet, settled, credited, lock, faults>>

(* A payment that has a transaction row is refunded through RefundsService, *)
(* which refuses the amount it is given, or a payment refunded before: the  *)
(* cancellation is rolled back.                                             *)
RefundRefused(r) ==
  /\ req[r].at = "refund" /\ req[r].due
  /\ money[req[r].b] \in {"captured", "refunded"}
  /\ Abort(r)
  /\ UNCHANGED <<row, money, income, wallet, settled, credited, faults>>

SaveRow(r) ==
  LET c == req[r]
      b == c.b
  IN  /\ RowFree(r)
      /\ \E stale \in IF c.op = "payout" THEN {{}} ELSE SUBSET Differ(row[b], c.ent) :
           row' = [row EXCEPT ![b] = Merge(row[b], c.ent, c.cols \cup stale)]

\* acceptBooking: the revenue rows and the booking are one transaction.
CommitAccept(r) ==
  LET b == req[r].b
  IN  /\ req[r].at = "commit" /\ req[r].op = "accept"
      /\ SaveRow(r)
      /\ income' = [income EXCEPT ![b] = @ + 1]
      /\ Proceed(r)
      /\ UNCHANGED <<money, wallet, settled, credited, lock, faults>>

(* The forced cancellation debits the wallets in its own transaction, by   *)
(* shares of the price and whatever the booking's past; what a debit       *)
(* throws is swallowed, with the debits that would have followed.          *)
CommitAdminCancel(r) ==
  LET b == req[r].b
  IN  /\ req[r].at = "commit" /\ req[r].op = "adminCancel"
      /\ SaveRow(r)
      /\ \A q \in Request : ~req[q].pin
      /\ \E debited \in {Party, {"owner"}, {}} :
           /\ debited = Party \/ faults < MaxFaults
           /\ faults' = IF debited = Party THEN faults ELSE faults + 1
           /\ wallet' = [w \in Party |-> IF w \in debited
                THEN [wallet[w] EXCEPT !.pending = @ - Gross[b]] ELSE wallet[w]]
      /\ Abort(r)
      /\ UNCHANGED <<money, income, settled, credited>>

\* The single save of the other handlers, or the commit of their transaction.
Commit(r) ==
  /\ req[r].at = "commit" /\ req[r].op \notin {"accept", "adminCancel"}
  /\ SaveRow(r)
  /\ lock' = Unlock(r)
  /\ Proceed(r)
  /\ UNCHANGED <<money, income, wallet, settled, credited, faults>>

(* The webhooks' payment statuses are not among those the column is        *)
(* declared with: a MySQL in strict mode refuses the save, and the handler *)
(* ends there; one that is not stores the empty string.                    *)
EnumRefused(r) ==
  /\ req[r].at = "commit" /\ req[r].op \in Notices
  /\ Abort(r)
  /\ UNCHANGED <<row, money, income, wallet, settled, credited, faults>>

\* A mutant: the revenue rows of a cancelled booking are kept.
CleanupNothing(r) ==
  /\ req[r].at = "cleanup"
  /\ Proceed(r)
  /\ UNCHANGED <<row, money, income, wallet, settled, credited, lock, faults>>

\* cleanupBookingTransactions, after the commit and on another connection.
Cleanup(r) ==
  /\ req[r].at = "cleanup"
  /\ income' = [income EXCEPT ![req[r].b] = 0]
  /\ Proceed(r)
  /\ UNCHANGED <<row, money, wallet, settled, credited, lock, faults>>

\* A query, a call to Stripe or a lock wait fails: the step has no effect.
Fail(r) ==
  LET next == Recovery(req[r].op, req[r].at)
  IN  /\ InFlight(r)
      /\ faults < MaxFaults
      /\ faults' = faults + 1
      /\ IF next = "idle" THEN Abort(r) ELSE Goto(r, next) /\ UNCHANGED lock
      /\ UNCHANGED <<row, money, income, wallet, settled, credited>>

\* The process dies: every call ends where it is, MySQL rolls back.
Crash ==
  /\ faults < MaxFaults
  /\ \E r \in Request : InFlight(r)
  /\ faults' = faults + 1
  /\ req' = [r \in Request |-> NoCall]
  /\ lock' = [b \in Booking |-> NoRequest]
  /\ UNCHANGED <<row, money, income, wallet, settled, credited>>

\* POST /payments/intent/:id/capture, which does not look at the booking.
Capture(b) ==
  /\ money[b] = "held"
  /\ money' = [money EXCEPT ![b] = "captured"]
  /\ UNCHANGED <<row, income, wallet, settled, credited, lock, req, faults>>

\* What a call in flight does next, when nothing goes wrong.
Progress(r) ==
  \/ \E w \in Party : ReadWallet(r, w) \/ SaveWallet(r, w)
  \/ WalletTimeout(r)
  \/ LockRow(r)
  \/ ReleaseHold(r) \/ RefundCaptured(r) \/ NothingToRefund(r) \/ RefundRefused(r)
  \/ CommitAccept(r) \/ CommitAdminCancel(r) \/ Commit(r) \/ EnumRefused(r)
  \/ Cleanup(r)

Next ==
  \/ \E r \in Request :
       \/ \E op \in Op, b \in Booking : Load(r, op, b)
       \/ Progress(r)
       \/ Fail(r)
  \/ Crash
  \/ \E b \in Booking : Capture(b)

Spec == Init /\ [][Next]_vars

(* A handler that can go on does: Node runs its continuations, MySQL grants *)
(* a row lock in the order it was asked for, so no waiter is passed over    *)
(* for ever.  Nothing forces a client to call or a fault to happen.         *)
FairSpec == Spec /\ \A r \in Request : SF_vars(Progress(r))
----------------------------------------------------------------------------
(* The rental only starts on revenue the owner is owed: whatever mix of    *)
(* accept, bulk confirm, code validation and cancellations was called, an  *)
(* ONGOING booking was accepted with a code and its revenue rows exist.    *)
OngoingEarned ==
  \A b \in Booking :
    row[b].status = "ONGOING" => row[b].code /\ income[b] > 0

(* The tool goes back before it is picked up: a booking whose owner has    *)
(* the tool again was handed out against a code and returned by the renter *)
(* (confirmToolReturn, confirmToolPickup, reportToolPickup).               *)
HandoverOrder ==
  \A b \in Booking : row[b].pickup => row[b].returned /\ row[b].code

(* No interleaving of accepting, validating, paying out and cancelling     *)
(* takes more out of a wallet's pending funds than it holds, although each *)
(* of these calls saves what it computed from a row read earlier.          *)
PendingNeverNegative == \A w \in Party : wallet[w].pending >= 0

(* The revenue of a booking whose payment was returned to the renter was   *)
(* never settled: no cancellation refunds what validateBookingCode or the  *)
(* payout made available from the pending funds.  It says nothing of what  *)
(* the webhook credits, which no cancellation takes back.                  *)
RefundedNotSettled ==
  \A b \in Booking : money[b] = "refunded" => settled[b] = {}

(* The wallets agree with the records of the bookings: while no call is in *)
(* flight, what is pending in a wallet is the revenue recorded and not yet *)
(* settled, and what is available is the revenue settled and, in the       *)
(* owner's, whatever handlePaymentIntentSucceeded credited beside it.      *)
LedgerBalanced ==
  (\A r \in Request : ~InFlight(r)) =>
    \A w \in Party :
      LET paid == {b \in Booking : w \in settled[b]}
          owed == {b \in Booking : income[b] > 0} \ paid
      IN  /\ wallet[w].pending = MapThenSumSet(LAMBDA b : Share[b], owed)
          /\ wallet[w].available =
               MapThenSumSet(LAMBDA b : Share[b], paid)
                 + (IF w = "owner" THEN MapThenSumSet(LAMBDA b : credited[b], Booking)
                                   ELSE 0)

(* Every call ends: a handler that waits for a booking's row lock gets it. *)
CallsEnd == \A r \in Request : InFlight(r) ~> ~InFlight(r)
============================================================================
