------------------------------ MODULE Refunds -------------------------------
(***************************************************************************)
(* Refund requests and their processing: refunds/refunds.service.ts with   *)
(* its controller, over the payments of module Payments.                   *)
(*                                                                         *)
(* createRefundRequest and processRefund each run in one database          *)
(* transaction; what they ask of Stripe, of the wallets service and of the *)
(* notifications happens outside it and is not undone by a rollback.       *)
(* processRefundViaWise and updateRefundStatus run without one.  A refund  *)
(* row that a transaction has written stays locked until it ends.          *)
(*                                                                         *)
(* The MySQL driver hands DECIMAL columns over as strings, which have no   *)
(* toFixed: a request that leaves the amount out, and a processed refund   *)
(* once everything else is done, end in a TypeError and a rollback.        *)
(*                                                                         *)
(* Beside the payments there are the other transactions a request may      *)
(* name: withdrawals, which pass the validation too, and the revenues and  *)
(* refunds booked to an owner, which do not.  No service creates a DEPOSIT *)
(* transaction.                                                            *)
(***************************************************************************)
EXTENDS Payments

CONSTANTS
    Refund,     \* slots for rows of the refunds table
    Withdrawal, \* withdrawals paid out, under the number of a transfer
    Income,     \* revenues and refunds booked, each with a reference
    Paid,       \* amount of every transaction
    Balance     \* balance of every wallet at the start

Transaction == Payment \cup Withdrawal \cup Income

ASSUME RefundAssumption ==
    /\ Paid \in Nat /\ Balance \in Nat
    /\ Income \cap (Payment \cup Withdrawal) = {}

VARIABLES
    refunds,    \* Refund -> row, or Absent
    holder,     \* Refund -> the call whose database transaction has written the row
    returned,   \* Transaction -> amount Stripe has refunded
    balance     \* Transaction -> balance of the wallet it names

refundVars == <<refunds, holder, returned, balance>>
vars == <<paymentVars, calls, refundVars>>

\* COMPLETED, CONFIRMED, CANCELLED and REJECTED, which only an administrator's
\* hand leaves behind, are like FAILED to every handler.
RefundStatus == {"PENDING", "PROCESSING", "FAILED"}
Absent == [of |-> "none", amount |-> 0, status |-> "none"]

Init ==
    /\ PaymentsInit
    /\ refunds = [r \in Refund |-> Absent]
    /\ holder = [r \in Refund |-> NoCall]
    /\ returned = [t \in Transaction |-> 0]
    /\ balance = [t \in Transaction |-> Balance]

Rows == {r \in Refund : refunds[r] # Absent}
Active == {"PENDING", "PROCESSING"}
ActiveFor(t) == {r \in Rows : refunds[r].of = t /\ refunds[r].status \in Active}

SetRefund(r, status) == refunds' = [refunds EXCEPT ![r].status = status]
Unlocked(r) == holder[r] = NoCall
Lock(c, r) == Unlocked(r) /\ holder' = [holder EXCEPT ![r] = c]
Unlock(r) == holder' = [holder EXCEPT ![r] = NoCall]

\* Stripe refunds what a paid intent still has to give, and no more; it knows
\* no intent by the reference of another transaction.
Refundable(t, amount) ==
    t \in Payment /\ intent[t] = "succeeded" /\ returned[t] + amount <= Paid
GiveBack(t, amount) == returned' = [returned EXCEPT ![t] = @ + amount]

-----------------------------------------------------------------------------
(* createRefundRequest                                                     *)

Type(t) ==
    CASE t \in Payment    -> "PAYMENT"
      [] t \in Withdrawal -> "WITHDRAWAL"
      [] OTHER            -> "RENTAL_INCOME"
StatusOf(t) == IF t \in Payment THEN row[t] ELSE "COMPLETED"

\* A mutant: the revenues of an owner may be refunded.
AnyType == {"PAYMENT", "DEPOSIT", "WITHDRAWAL", "RENTAL_INCOME"}

RefundableTypes == {"PAYMENT", "DEPOSIT", "WITHDRAWAL"}

\* A mutant: the status of the transaction is not looked at.
MayRefundAny(t, amount) ==
    StatusOf(t) # "none" /\ Type(t) \in RefundableTypes /\ amount \in 1..Paid

\* validateTransactionForRefund: the requested amount is compared with the
\* whole transaction, whatever was refunded before.
MayRefund(t, amount) ==
    /\ StatusOf(t) = "COMPLETED"
    /\ Type(t) \in RefundableTypes
    /\ amount \in 1..Paid

\* The checks see the snapshot of the database transaction.
Request(c, t, amount) ==
    /\ FreeCall(c)
    /\ MayRefund(t, amount)
    /\ ActiveFor(t) = {}
    /\ Do(c, [op |-> "insert", of |-> t, amount |-> amount])
    /\ UNCHANGED <<paymentVars, refundVars>>

\* The insert and the commit; a notification that fails rolls back.
InsertRefund(c) ==
    LET w == calls[c] IN
    /\ w.op = "insert"
    /\ \/ UNCHANGED refunds
       \/ \E r \in Refund \ Rows :
            /\ r = CHOOSE q \in Refund \ Rows : TRUE
            /\ refunds' = [refunds EXCEPT ![r] =
                    [of |-> w.of, amount |-> w.amount, status |-> "PENDING"]]
    /\ Return(c)
    /\ UNCHANGED <<paymentVars, holder, returned, balance>>

-----------------------------------------------------------------------------
(* processRefund                                                           *)

Process(c, r) ==
    /\ FreeCall(c) /\ r \in Rows
    /\ refunds[r].status = "PENDING"
    /\ Do(c, [op |-> "lock", refund |-> r])
    /\ UNCHANGED <<paymentVars, refundVars>>

\* Saving PROCESSING takes the row; another transaction waits here, and does
\* not look at the status again when it goes on.
TakeRefund(c) ==
    /\ calls[c].op = "lock"
    /\ Lock(c, calls[c].refund)
    /\ Do(c, [op |-> "pay", refund |-> calls[c].refund])
    /\ UNCHANGED <<paymentVars, refunds, returned, balance>>

\* stripe.refunds.create, without an idempotency key.
PayRefund(c) ==
    LET r == calls[c].refund
        w == refunds[r] IN
    /\ calls[c].op = "pay"
    /\ Refundable(w.of, w.amount)
    /\ GiveBack(w.of, w.amount)
    /\ Do(c, [op |-> "deduct", refund |-> r])
    /\ UNCHANGED <<paymentVars, refunds, holder, balance>>

\* A mutant: processing goes on when Stripe has refused.
RefundFailsUnnoticed(c) ==
    /\ calls[c].op = "pay"
    /\ Do(c, [op |-> "deduct", refund |-> calls[c].refund])
    /\ UNCHANGED <<paymentVars, refundVars>>

\* An error of the call is taken for a refusal: the refund is FAILED and the
\* database transaction commits.  Stripe may have refunded all the same.
RefundFails(c) ==
    LET r == calls[c].refund
        w == refunds[r] IN
    /\ calls[c].op = "pay"
    /\ \/ UNCHANGED returned
       \/ Refundable(w.of, w.amount) /\ GiveBack(w.of, w.amount)
    /\ SetRefund(r, "FAILED")
    /\ Unlock(r) /\ Return(c)
    /\ UNCHANGED <<paymentVars, balance>>

\* walletsService.deductFunds reads the wallet on a connection of its own ...
ReadWallet(c) ==
    LET r == calls[c].refund
        w == refunds[r] IN
    /\ calls[c].op = "deduct"
    /\ balance[w.of] >= w.amount
    /\ Do(c, [op |-> "save wallet", refund |-> r, left |-> balance[w.of] - w.amount])
    /\ UNCHANGED <<paymentVars, refundVars>>

\* A mutant: the database transaction is not ended when the wallet throws.
WalletRefusesAndHolds(c) ==
    /\ calls[c].op = "deduct"
    /\ balance[refunds[calls[c].refund].of] < refunds[calls[c].refund].amount
    /\ Return(c)
    /\ UNCHANGED <<paymentVars, refundVars>>

\* ... or throws, and the refund is rolled back to PENDING.
WalletRefuses(c) ==
    /\ calls[c].op = "deduct"
    /\ balance[refunds[calls[c].refund].of] < refunds[calls[c].refund].amount
    /\ Unlock(calls[c].refund) /\ Return(c)
    /\ UNCHANGED <<paymentVars, refunds, returned, balance>>

SaveWallet(c) ==
    LET w == calls[c] IN
    /\ w.op = "save wallet"
    /\ balance' = [balance EXCEPT ![refunds[w.refund].of] = w.left]
    /\ Do(c, [op |-> "notify", refund |-> w.refund])
    /\ UNCHANGED <<paymentVars, refunds, holder, returned>>

\* The booking is saved and the notification formats the amount: the
\* TypeError rolls back the refund, its transaction and the booking, and the
\* refund reads PENDING.
FormatFails(c) ==
    /\ calls[c].op = "notify"
    /\ Unlock(calls[c].refund) /\ Return(c)
    /\ UNCHANGED <<paymentVars, refunds, returned, balance>>

-----------------------------------------------------------------------------
(* The other ways to move a refund                                         *)

\* processRefundViaWise reads the refund, has Wise quote, create and fund a
\* transfer, any of which may fail, and saves PROCESSING last.
ViaWise(c, r) ==
    /\ FreeCall(c) /\ r \in Rows
    /\ refunds[r].status = "PENDING"
    /\ Do(c, [op |-> "wise", refund |-> r])
    /\ UNCHANGED <<paymentVars, refundVars>>

WireRefund(c) ==
    LET r == calls[c].refund IN
    /\ calls[c].op = "wise"
    /\ Do(c, [op |-> "mark", refund |-> r]) \/ Return(c)
    /\ UNCHANGED <<paymentVars, refunds, holder, returned, balance>>

MarkProcessing(c) ==
    LET r == calls[c].refund IN
    /\ calls[c].op = "mark"
    /\ Unlocked(r) /\ SetRefund(r, "PROCESSING")
    /\ Return(c)
    /\ UNCHANGED <<paymentVars, holder, returned, balance>>

\* updateRefundStatus: an administrator sets any status at any time.
UpdateRefundStatus(r, status) ==
    /\ r \in Rows /\ Unlocked(r)
    /\ SetRefund(r, status)
    /\ UNCHANGED <<paymentVars, calls, holder, returned, balance>>

\* PaymentService.createRefund (payments/refund and the cancellations): money
\* goes back and no refund row is involved.
RefundDirectly(p, amount) ==
    /\ Refundable(p, amount) /\ GiveBack(p, amount)
    /\ UNCHANGED <<paymentVars, calls, refunds, holder, balance>>

-----------------------------------------------------------------------------
Progress(c) ==
    \/ PaymentProgress(c) /\ UNCHANGED refundVars
    \/ InsertRefund(c)
    \/ TakeRefund(c) \/ PayRefund(c) \/ RefundFails(c)
    \/ ReadWallet(c) \/ WalletRefuses(c) \/ SaveWallet(c) \/ FormatFails(c)
    \/ WireRefund(c) \/ MarkProcessing(c)

RefundStep ==
    \/ \E r \in Refund, s \in RefundStatus : UpdateRefundStatus(r, s)
    \/ \E p \in Payment, a \in 1..Paid : RefundDirectly(p, a)
    \/ /\ SomeFree
       /\ \E c \in Call :
            \/ \E t \in Transaction, a \in 1..Paid : Request(c, t, a)
            \/ \E r \in Refund : Process(c, r) \/ ViaWise(c, r)

Next ==
    \/ PaymentStep /\ UNCHANGED refundVars
    \/ RefundStep
    \/ \E c \in Call : Progress(c)

Spec == Init /\ [][Next]_vars

-----------------------------------------------------------------------------
RefundRow == {Absent} \cup
    [of : Transaction, amount : 1..Paid, status : RefundStatus]

Work == {Idle}
    \cup [op : {"hold"}, of : Payment]
    \cup [op : {"write"}, of : Payment, status : Stored \ {"none"}, event : Kind \cup {"none"}]
    \cup [op : {"insert"}, of : Transaction, amount : 1..Paid]
    \cup [op : {"lock", "pay", "deduct", "notify", "wise", "mark"}, refund : Refund]
    \cup [op : {"save wallet"}, refund : Refund, left : 0..Balance]

\* Every variable holds what the code can put there; the wallet never goes
\* below zero and Stripe never gives back more than it was paid.
TypeOK ==
    /\ intent \in [Payment -> {"none", "open", "processing", "succeeded", "canceled"}]
    /\ posted \in [Payment -> 0..MaxEvents]
    /\ events \subseteq [of : Payment, kind : Kind]
    /\ row \in [Payment -> Stored]
    /\ calls \in [Call -> Work]
    /\ refunds \in [Refund -> RefundRow]
    /\ holder \in [Refund -> Call \cup {NoCall}]
    /\ returned \in [Transaction -> 0..Paid]
    /\ balance \in [Transaction -> 0..Balance]

\* What a refund may be asked for: no revenue or refund of an owner, and no
\* payment that Stripe has not received.
Receivable(t) == t \notin Income /\ (t \in Payment => intent[t] = "succeeded")

\* A refund is only ever requested for a payment Stripe has received or for a
\* withdrawal, though the request looks at nothing but the transaction that
\* events, cancellations and releases keep in whatever order they come.
OnlyPaidIsRefunded ==
    \A r \in Rows : Receivable(refunds[r].of)

\* The wallet a transaction names never loses more to refunds than Stripe has
\* given back for that transaction, however refunds, retries and failures
\* interleave; the refund of a withdrawal, which the validation lets pass, takes
\* nothing from the wallet it was paid out of.
NeverDeductedAhead ==
    \A t \in Transaction : Balance - balance[t] <= returned[t]

\* A refund's row is locked only by a call that is at work on that refund: no
\* way out of processRefund leaves the row locked behind it.
LocksAreHeld ==
    \A r \in Refund : holder[r] # NoCall =>
        /\ calls[holder[r]].op \in {"pay", "deduct", "save wallet", "notify"}
        /\ calls[holder[r]].refund = r
=============================================================================
