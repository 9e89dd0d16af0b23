---------------------------- MODULE Withdrawals ----------------------------
(***************************************************************************)
(* The withdrawals of one user: createWithdrawal of wallets.service.ts,    *)
(* processWithdrawal, cancelWithdrawal and completeWithdrawal of           *)
(* withdrawal-processing.service.ts, and the reports of Wise handled by    *)
(* wise-webhook-enhanced.service.ts.                                       *)
(*                                                                         *)
(* As in BookingSettlement a call goes through its awaits one step at a    *)
(* time and saves what it loaded.  Wise and Stripe are modelled by what    *)
(* the code expects of them: a Wise transfer is unique to the id of its    *)
(* withdrawal, a Stripe transfer is a new one each time it is asked for.   *)
(***************************************************************************)
EXTENDS Integers, FiniteSetsExt

CONSTANTS
  Withdrawal,   \* rows of the transactions table of type WITHDRAWAL
  Request,      \* the slots of calls in flight
  Funds,        \* what is available in the wallet to begin with
  Amounts,      \* what is asked for
  Minimum,      \* the least that may be asked for (50)
  Threshold,    \* above this an administrator has to approve (500)
  AutoFund,     \* WISE_AUTO_FUND is on and Wise funds transfers on request
  Methods,      \* how withdrawals are paid
  Finals,       \* the reports by which Wise says that the money was sent
  Orderly,      \* Wise reports in order, administrators heed what Wise does
  MaxFaults     \* bound: lost answers and crashes

ASSUME WithdrawalAssumption == Withdrawal # {}
ASSUME AmountAssumption ==
  /\ Funds \in Nat /\ Amounts \subseteq Nat /\ Minimum \in Nat /\ Threshold \in Nat
ASSUME SettingAssumption ==
  /\ AutoFund \in BOOLEAN /\ Orderly \in BOOLEAN /\ MaxFaults \in Nat
  /\ Methods \subseteq {"wise", "stripe", "connect"}
  /\ Finals \subseteq {"sent", "completed"}

VARIABLES
  tx,         \* transactions: status and wizeStatus of a withdrawal, its amount
  balance,    \* wallets.reserved_balance, what the user may withdraw
  transfer,   \* Wise: the state of the transfer of a withdrawal
  seen,       \* Wise: the states it went through, each may be reported
  stripe,     \* Stripe: how many transfers or payouts a withdrawal caused
  debited,    \* history: how often the wallet was debited for a withdrawal
  call,       \* the calls in flight
  faults      \* lost answers and crashes so far

vars == <<tx, balance, transfer, seen, stripe, debited, call, faults>>

Status == {"absent", "PENDING", "PROCESSING", "COMPLETED", "FAILED", "CANCELLED"}
Transfer == {"none", "waiting", "processing", "sent", "completed", "returned"}
WiseStatus == Transfer \cup {"problem"}
Row == [status : Status, wise : WiseStatus, amount : Nat]
Label == {"idle", "active", "balance", "insert", "load", "send", "wallet", "debit", "save"}
Op == {"create", "process", "cancel", "complete", "webhook"}

\* ent is the transaction as loaded and assigned, own the columns assigned.
Call == [op : Op, w : Withdrawal, at : Label, ent : Row,
         own : SUBSET {"status", "wise"}, method : {"wise", "stripe", "connect"},
         wallet : Int]
NoRow == [status |-> "absent", wise |-> "none", amount |-> 0]
NoWallet == 0
NoCall == [op |-> "create", w |-> CHOOSE w \in Withdrawal : TRUE, at |-> "idle",
           ent |-> NoRow, own |-> {}, method |-> "wise", wallet |-> NoWallet]

\* The ways of payment on which a Wise transfer is funded as it is created.
AutoFunded == {"connect"} \cup (IF AutoFund THEN {"wise"} ELSE {})

\* The states that keep a user from asking again.
Active == {"PENDING", "PROCESSING"}

\* Bound: the histories count up to Several, which stands for two or more.
Several == 2
OneMore(n) == IF n < Several THEN n + 1 ELSE n

TypeOK ==
  /\ tx \in [Withdrawal -> Row]
  /\ balance \in Nat
  /\ transfer \in [Withdrawal -> Transfer]
  /\ seen \in [Withdrawal -> SUBSET Transfer]
  /\ stripe \in [Withdrawal -> 0..Several]
  /\ debited \in [Withdrawal -> 0..Several]
  /\ call \in [Request -> Call]
  /\ faults \in Nat

Init ==
  /\ tx = [w \in Withdrawal |-> NoRow]
  /\ balance = Funds
  /\ transfer = [w \in Withdrawal |-> "none"]
  /\ seen = [w \in Withdrawal |-> {}]
  /\ stripe = [w \in Withdrawal |-> 0]
  /\ debited = [w \in Withdrawal |-> 0]
  /\ call = [r \in Request |-> NoCall]
  /\ faults = 0

InFlight(r) == call[r].at # "idle"
Fault == faults < MaxFaults /\ faults' = faults + 1
Goto(r, l) ==
  call' = [call EXCEPT ![r] = IF l = "idle" THEN NoCall ELSE [@ EXCEPT !.at = l]]

\* The call goes on to save its row with these columns assigned.
Assigning(r, status, wise, own) ==
  call' = [call EXCEPT ![r] =
    [@ EXCEPT !.at = "save", !.ent.status = status, !.ent.wise = wise, !.own = own]]
Begins(r, op, w, l, ent, own, method) ==
  /\ ~InFlight(r)
  /\ call' = [call EXCEPT ![r] =
       [op |-> op, w |-> w, at |-> l, ent |-> ent, own |-> own,
        method |-> method, wallet |-> IF l = "debit" THEN balance ELSE NoWallet]]
----------------------------------------------------------------------------
(* createWithdrawal                                                        *)

Create(r, w, amount, method) ==
  /\ amount >= Minimum
  /\ tx[w].status = "absent" /\ \A q \in Request : InFlight(q) => call[q].w # w
  /\ Begins(r, "create", w, "active",
            [status |-> "PENDING", wise |-> "none", amount |-> amount], {}, method)
  /\ UNCHANGED <<tx, balance, transfer, seen, stripe, debited, faults>>

\* A mutant: a withdrawal Wise is working on no longer counts as active.
CheckPending(r) ==
  /\ call[r].at = "active"
  /\ Goto(r, IF \E w \in Withdrawal : tx[w].status = "PENDING"
               THEN "idle" ELSE "balance")
  /\ UNCHANGED <<tx, balance, transfer, seen, stripe, debited, faults>>

CheckActive(r) ==
  /\ call[r].at = "active"
  /\ Goto(r, IF \E w \in Withdrawal : tx[w].status \in Active
               THEN "idle" ELSE "balance")
  /\ UNCHANGED <<tx, balance, transfer, seen, stripe, debited, faults>>

\* A mutant: the balance is not looked at.
CheckNothing(r) ==
  /\ call[r].at = "balance"
  /\ Goto(r, "insert")
  /\ UNCHANGED <<tx, balance, transfer, seen, stripe, debited, faults>>

CheckBalance(r) ==
  /\ call[r].at = "balance"
  /\ Goto(r, IF balance < call[r].ent.amount THEN "idle" ELSE "insert")
  /\ UNCHANGED <<tx, balance, transfer, seen, stripe, debited, faults>>

\* Small amounts are processed at once, by the same call.
Insert(r) ==
  LET c == call[r]
  IN  /\ c.at = "insert"
      /\ tx' = [tx EXCEPT ![c.w] = c.ent]
      /\ Goto(r, IF c.ent.amount <= Threshold THEN "load" ELSE "idle")
      /\ UNCHANGED <<balance, transfer, seen, stripe, debited, faults>>
----------------------------------------------------------------------------
(* processWithdrawal, for createWithdrawal or for an administrator         *)

\* A heedful administrator leaves alone what already waits at Wise.
Approve(r, w, method) ==
  /\ tx[w].status # "absent"
  /\ Orderly => transfer[w] = "none"
  /\ Begins(r, "process", w, "load", tx[w], {}, method)
  /\ UNCHANGED <<tx, balance, transfer, seen, stripe, debited, faults>>

LoadPending(r) ==
  LET w == call[r].w
  IN  /\ call[r].at = "load"
      /\ call' = [call EXCEPT ![r] =
           IF tx[w].status = "PENDING"
             THEN [@ EXCEPT !.at = "send", !.ent = tx[w]] ELSE NoCall]
      /\ UNCHANGED <<tx, balance, transfer, seen, stripe, debited, faults>>

\* Wise moves the transfer of w to a state.
Moves(w, state) ==
  /\ transfer' = [transfer EXCEPT ![w] = state]
  /\ seen' = [seen EXCEPT ![w] = @ \cup {state}]

\* Wise makes the transfer, but refuses its funds and whatever comes next.
CreatedInVain(c) ==
  c.method \in AutoFunded /\ transfer[c.w] = "none" /\ Moves(c.w, "waiting")

\* createAndFundTransfer: the answer still carries the state at creation.
FundedAtOnce(r) ==
  LET c == call[r]
  IN  /\ c.at = "send"
      /\ c.method \in AutoFunded
      /\ transfer[c.w] \in {"none", "waiting"}
      /\ Moves(c.w, "processing")
      /\ Assigning(r, "COMPLETED", "waiting", {"status", "wise"})
      /\ UNCHANGED <<tx, balance, stripe, debited, faults>>

\* A mutant: what has to be funded by hand is taken for done.
CompletedByHand(r) ==
  LET c == call[r]
      state == IF transfer[c.w] = "none" THEN "waiting" ELSE transfer[c.w]
  IN  /\ c.at = "send" /\ c.method = "wise"
      /\ Moves(c.w, state)
      /\ Assigning(r, "COMPLETED", state, {"status", "wise"})
      /\ UNCHANGED <<tx, balance, stripe, debited, faults>>

\* The transfer is created and waits for its funds, because automatic
\* funding is off or was refused.
FundedByHand(r) ==
  LET c == call[r]
      state == IF transfer[c.w] = "none" THEN "waiting" ELSE transfer[c.w]
  IN  /\ c.at = "send" /\ c.method = "wise"
      /\ Moves(c.w, state)
      /\ Assigning(r, "PENDING", state, {"status", "wise"})
      /\ UNCHANGED <<tx, balance, stripe, debited, faults>>

\* Wise funds the transfer but the answer is lost: the transfer is taken for
\* one to be funded by hand, or for a reason to turn to Stripe.
FundingUnanswered(r) ==
  LET c == call[r]
  IN  /\ c.at = "send"
      /\ c.method \in AutoFunded
      /\ transfer[c.w] \in {"none", "waiting"}
      /\ Fault
      /\ Moves(c.w, "processing")
      /\ IF c.method = "wise"
           THEN /\ Assigning(r, "PENDING", "waiting", {"status", "wise"})
                /\ UNCHANGED stripe
           ELSE /\ Assigning(r, "COMPLETED", c.ent.wise, {"status"})
                /\ stripe' = [stripe EXCEPT ![c.w] = OneMore(@)]
      /\ UNCHANGED <<tx, balance, debited>>

\* createStripeConnectTransfer or createStripePayout; on the way of a
\* connected account a Wise transfer may have been created before.
PaidByStripe(r) ==
  LET c == call[r]
  IN  /\ c.at = "send" /\ c.method \in {"stripe", "connect"}
      /\ stripe' = [stripe EXCEPT ![c.w] = OneMore(@)]
      /\ UNCHANGED <<transfer, seen>> \/ CreatedInVain(c)
      /\ Assigning(r, "COMPLETED", c.ent.wise, {"status"})
      /\ UNCHANGED <<tx, balance, debited, faults>>

\* A mutant: the failure is swallowed.
RefusedCompleted(r) ==
  /\ call[r].at = "send"
  /\ UNCHANGED <<transfer, seen>> \/ CreatedInVain(call[r])
  /\ Assigning(r, "COMPLETED", call[r].ent.wise, {"status"})
  /\ UNCHANGED <<tx, balance, stripe, debited, faults>>

\* The provider refuses, or the bank details are not valid.
PaymentRefused(r) ==
  /\ call[r].at = "send"
  /\ UNCHANGED <<transfer, seen>> \/ CreatedInVain(call[r])
  /\ Assigning(r, "FAILED", call[r].ent.wise, {"status"})
  /\ UNCHANGED <<tx, balance, stripe, debited, faults>>

StripeUnanswered(r) ==
  LET c == call[r]
  IN  /\ c.at = "send" /\ c.method \in {"stripe", "connect"}
      /\ Fault
      /\ stripe' = [stripe EXCEPT ![c.w] = OneMore(@)]
      /\ Assigning(r, "FAILED", c.ent.wise, {"status"})
      /\ UNCHANGED <<tx, balance, transfer, seen, debited>>
----------------------------------------------------------------------------
(* cancelWithdrawal and completeWithdrawal                                 *)

\* A heedful administrator cancels the transfer at Wise first.
Cancel(r, w) ==
  /\ tx[w].status = "PENDING"
  /\ Orderly => transfer[w] \in {"none", "returned"}
  /\ Begins(r, "cancel", w, "save", [tx[w] EXCEPT !.status = "CANCELLED"],
            {"status"}, "wise")
  /\ UNCHANGED <<tx, balance, transfer, seen, stripe, debited, faults>>

\* A heedful administrator completes what Wise has paid, or never got.
Complete(r, w) ==
  /\ tx[w].status \in Active
  /\ Orderly => transfer[w] \in {"none"} \cup Finals
  /\ Begins(r, "complete", w, "wallet",
            [tx[w] EXCEPT !.status = "COMPLETED",
                          !.wise = IF @ = "none" THEN @ ELSE "completed"],
            {"status"} \cup (IF tx[w].wise = "none" THEN {} ELSE {"wise"}), "wise")
  /\ UNCHANGED <<tx, balance, transfer, seen, stripe, debited, faults>>

ReadWallet(r) ==
  /\ call[r].at = "wallet"
  /\ call' = [call EXCEPT ![r] = [@ EXCEPT !.at = "debit", !.wallet = balance]]
  /\ UNCHANGED <<tx, balance, transfer, seen, stripe, debited, faults>>

\* Math.max(0, reservedBalance - amount), from the wallet read earlier.
Debit(r) ==
  LET c == call[r]
  IN  /\ c.at = "debit"
      /\ balance' = IF c.wallet > c.ent.amount THEN c.wallet - c.ent.amount ELSE 0
      /\ debited' = [debited EXCEPT ![c.w] = OneMore(@)]
      /\ call' = [call EXCEPT ![r] = [@ EXCEPT !.at = "save", !.wallet = NoWallet]]
      /\ UNCHANGED <<tx, transfer, seen, stripe, faults>>

\* The save writes the columns assigned and, unless they change while it
\* does, the others as they were loaded.
Save(r) ==
  LET c == call[r]
  IN  /\ c.at = "save"
      /\ \E wise \in {c.ent.wise} \cup (IF "wise" \in c.own THEN {} ELSE {tx[c.w].wise}) :
           tx' = [tx EXCEPT ![c.w] = [@ EXCEPT !.status = c.ent.status, !.wise = wise]]
      /\ Goto(r, "idle")
      /\ UNCHANGED <<balance, transfer, seen, stripe, debited, faults>>
----------------------------------------------------------------------------
(* The reports of Wise                                                     *)

\* A mutant: a completed withdrawal is finalized again.
FinalizedNever(e) == FALSE

\* A mutant: a transfer that got its funds counts as finalized.
FinalizedOnceFunded(e) == e.wise # "waiting"

\* alreadyFinalized
Finalized(e) == e.wise = "completed"

Known(w) == tx[w].wise # "none"
Reportable(w) == (IF Orderly THEN {transfer[w]} ELSE seen[w]) \ {"none"}

(* handleTransferStatusChange: the transaction and its wallet are loaded   *)
(* with one query; a transfer no transaction knows yet is ignored.         *)
ReportProgress(r, w) ==
  /\ Known(w)
  /\ \E state \in Reportable(w) \cap {"waiting", "processing"} :
       Begins(r, "webhook", w, "save",
              [tx[w] EXCEPT !.status = "PROCESSING", !.wise = state],
              {"status", "wise"}, "wise")
  /\ UNCHANGED <<tx, balance, transfer, seen, stripe, debited, faults>>

ReportSent(r, w) ==
  /\ Known(w)
  /\ \E state \in Reportable(w) \cap Finals :
       Begins(r, "webhook", w, IF Finalized(tx[w]) THEN "save" ELSE "debit",
              [tx[w] EXCEPT !.status = "COMPLETED", !.wise = state],
              {"status", "wise"}, "wise")
  /\ UNCHANGED <<tx, balance, transfer, seen, stripe, debited, faults>>

ReportReturned(r, w) ==
  /\ Known(w)
  /\ "returned" \in Reportable(w)
  /\ Begins(r, "webhook", w, "save",
            [tx[w] EXCEPT !.status = "FAILED", !.wise = "returned"],
            {"status", "wise"}, "wise")
  /\ UNCHANGED <<tx, balance, transfer, seen, stripe, debited, faults>>

\* handleTransferProblem: active cases, while the transfer is processed.
ReportProblem(r, w) ==
  /\ Known(w)
  /\ "processing" \in Reportable(w)
  /\ Begins(r, "webhook", w, "save",
            [tx[w] EXCEPT !.status = "PROCESSING", !.wise = "problem"],
            {"status", "wise"}, "wise")
  /\ UNCHANGED <<tx, balance, transfer, seen, stripe, debited, faults>>
----------------------------------------------------------------------------
(* What happens at Wise                                                    *)

\* A heedful administrator funds what is still to be paid.
FundByHand(w) ==
  /\ transfer[w] = "waiting"
  /\ Orderly => Known(w) /\ tx[w].status \in Active
                  /\ \A r \in Request : InFlight(r) => call[r].w # w
  /\ Moves(w, "processing")
  /\ UNCHANGED <<tx, balance, stripe, debited, call, faults>>

Send(w) ==
  /\ transfer[w] \in {"processing", "sent"}
  /\ \E state \in Finals \ {transfer[w]} : Moves(w, state)
  /\ UNCHANGED <<tx, balance, stripe, debited, call, faults>>

\* Cancelled, refunded, or sent back by the bank.
Return(w) ==
  /\ transfer[w] \in {"waiting", "processing"} \cup Finals
  /\ Moves(w, "returned")
  /\ UNCHANGED <<tx, balance, stripe, debited, call, faults>>

\* The process dies; wallet and transaction are saved one after the other.
Crash ==
  /\ Fault
  /\ \E r \in Request : InFlight(r)
  /\ call' = [r \in Request |-> NoCall]
  /\ UNCHANGED <<tx, balance, transfer, seen, stripe, debited>>

Sending(r) ==
  FundedAtOnce(r) \/ FundedByHand(r) \/ PaidByStripe(r) \/ PaymentRefused(r)

Progress(r) ==
  \/ CheckActive(r) \/ CheckBalance(r) \/ Insert(r) \/ LoadPending(r)
  \/ Sending(r) \/ ReadWallet(r) \/ Debit(r) \/ Save(r)

Report(r, w) ==
  ReportProgress(r, w) \/ ReportSent(r, w) \/ ReportReturned(r, w) \/ ReportProblem(r, w)

Next ==
  \/ \E r \in Request, w \in Withdrawal :
       \/ \E m \in Methods : Approve(r, w, m) \/ \E a \in Amounts : Create(r, w, a, m)
       \/ Cancel(r, w) \/ Complete(r, w) \/ Report(r, w)
  \/ \E r \in Request : Progress(r) \/ FundingUnanswered(r) \/ StripeUnanswered(r)
  \/ \E w \in Withdrawal : FundByHand(w) \/ Send(w) \/ Return(w)
  \/ Crash

Spec == Init /\ [][Next]_vars

(* A call in flight goes on; Wise repeats the report that the money was    *)
(* sent until it is acknowledged.                                          *)
FairSpec ==
  /\ Spec
  /\ \A r \in Request : WF_vars(Progress(r))
  /\ \A w \in Withdrawal : SF_vars(\E r \in Request : ReportSent(r, w))
----------------------------------------------------------------------------
\* What left for the user's bank account.
Paid(w) == stripe[w] + IF transfer[w] \in {"sent", "completed"} THEN 1 ELSE 0

(* The user is never paid more than was in the wallet, over all of his     *)
(* withdrawals: the balance is only debited when Wise reports, so what     *)
(* keeps him from asking again until then is that a withdrawal is active.  *)
NeverOverpaid ==
  MapThenSumSet(LAMBDA w : Paid(w) * tx[w].amount, Withdrawal) <= Funds

(* wise-webhook-enhanced.service.ts: "Finalize a successful withdrawal     *)
(* exactly once" - the wallet is debited once for a withdrawal.  That does *)
(* not hold: alreadyFinalized knows a transfer that completed, not one that*)
(* is sent.                                                                *)
DebitedOnce == \A w \in Withdrawal : debited[w] <= 1

(* Only a transfer that Wise also has as sent may debit the wallet again:  *)
(* neither a repeated report that it completed nor an administrator does.  *)
DebitedAgainOnlySent ==
  \A w \in Withdrawal : debited[w] > 1 => "sent" \in seen[w]

\* The amounts of the withdrawals for which the wallet was debited, each once.
Withdrawn ==
  MapThenSumSet(LAMBDA w : IF debited[w] > 0 THEN tx[w].amount ELSE 0, Withdrawal)

(* The wallet never holds what was withdrawn: no first debit is cut off at *)
(* zero.  While no withdrawal is debited again nothing else is missing.    *)
BalanceAccounted ==
  (\A r \in Request : ~InFlight(r)) =>
    /\ balance + Withdrawn <= Funds
    /\ DebitedOnce => balance + Withdrawn = Funds

\* createWithdrawal: "Un retrait est deja en cours de traitement".
OneActive ==
  \A v, w \in Withdrawal :
    tx[v].status \in Active /\ tx[w].status \in Active => v = w

(* A completed withdrawal was debited, or handed to Wise or to Stripe:     *)
(* processWithdrawal completes it before either of them has sent anything. *)
CompletedIsBacked ==
  \A w \in Withdrawal :
    tx[w].status = "COMPLETED" =>
      debited[w] > 0 \/ transfer[w] # "none" \/ stripe[w] > 0

(* A withdrawal Wise has paid ends as completed and debited, unless the    *)
(* bank sends the money back.                                              *)
PaidIsRecorded ==
  \A w \in Withdrawal :
    transfer[w] \in {"sent", "completed"} ~>
      \/ tx[w].status = "COMPLETED" /\ debited[w] > 0
      \/ transfer[w] = "returned"
=============================================================================
