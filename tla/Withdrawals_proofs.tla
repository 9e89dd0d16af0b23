------------------------- MODULE Withdrawals_proofs -------------------------
(***************************************************************************)
(* Theorems about Withdrawals.  The types and CompletedIsBacked hold for   *)
(* any number of withdrawals and of calls in flight, any amounts and       *)
(* settings, reports in any order and any number of lost answers and       *)
(* crashes.  What is said of the money (the last part) holds for any       *)
(* finite number of withdrawals and any amounts, under ByHand: transfers   *)
(* are funded by hand at Wise, reported in order, and calls are made one   *)
(* at a time.                                                              *)
(***************************************************************************)
EXTENDS Withdrawals, Sums, TLAPS

LEMMA NoWalletTyped == NoWallet \in Int
BY DEF NoWallet

LEMMA NoCallTyped == NoCall \in Call /\ NoCall.at = "idle"
<1>1. (CHOOSE w \in Withdrawal : TRUE) \in Withdrawal
  BY WithdrawalAssumption
<1>2. QED
  BY <1>1, NoWalletTyped DEF NoCall, NoRow, Call, Op, Label, Row, Status, WiseStatus, Transfer

\* What every step proof starts from.
LEMMA CallTyped ==
  ASSUME TypeOK, NEW r \in Request
  PROVE  /\ call[r] \in Call
         /\ call[r].w \in Withdrawal
         /\ call[r].ent \in Row
         /\ call[r].ent.status \in Status
         /\ call[r].ent.wise \in WiseStatus
         /\ call[r].ent.amount \in Nat
         /\ call[r].wallet \in Int
         /\ tx[call[r].w] \in Row
BY DEF TypeOK, Call, Row

\* How a call goes on, in whichever way, it stays a call.
LEMMA GotoTyped ==
  ASSUME TypeOK, NEW r \in Request, NEW l \in Label, Goto(r, l)
  PROVE  call' \in [Request -> Call]
BY CallTyped, NoCallTyped DEF Goto, TypeOK, Call

LEMMA AssigningTyped ==
  ASSUME TypeOK, NEW r \in Request, NEW status \in Status, NEW wise \in WiseStatus,
         NEW own \in SUBSET {"status", "wise"}, Assigning(r, status, wise, own)
  PROVE  call' \in [Request -> Call]
<1>1. [call[r] EXCEPT !.at = "save", !.ent.status = status, !.ent.wise = wise,
                      !.own = own] \in Call
  <2> DEFINE e == [call[r].ent EXCEPT !.status = status, !.wise = wise]
  <2>1. e \in Row
    BY CallTyped DEF Row
  <2>2. [call[r] EXCEPT !.at = "save", !.ent = e, !.own = own] \in Call
    BY <2>1, CallTyped DEF Call, Label
  <2>3. QED
    BY <2>2, CallTyped DEF Call, Row
<1>2. QED
  BY <1>1 DEF Assigning, TypeOK

LEMMA BeginsTyped ==
  ASSUME TypeOK, NEW r \in Request, NEW op \in Op, NEW w \in Withdrawal,
         NEW l \in Label, NEW ent \in Row, NEW own \in SUBSET {"status", "wise"},
         NEW method \in {"wise", "stripe", "connect"},
         Begins(r, op, w, l, ent, own, method)
  PROVE  call' \in [Request -> Call]
BY NoWalletTyped DEF Begins, TypeOK, Call

LEMMA MovesTyped ==
  ASSUME TypeOK, NEW w \in Withdrawal, NEW state \in Transfer, Moves(w, state)
  PROVE  /\ transfer' \in [Withdrawal -> Transfer]
         /\ seen' \in [Withdrawal -> SUBSET Transfer]
BY DEF Moves, TypeOK

LEMMA OneMoreTyped ==
  ASSUME NEW n \in 0..Several
  PROVE  OneMore(n) \in 1..Several
BY DEF OneMore, Several
----------------------------------------------------------------------------
LEMMA InitTyped == Init => TypeOK
BY NoCallTyped, AmountAssumption
   DEF Init, TypeOK, NoRow, Row, Status, WiseStatus, Transfer, Several

\* The calls of the user and of an administrator that begin a payment.
LEMMA CreateTyped ==
  ASSUME TypeOK, NEW r \in Request, NEW w \in Withdrawal,
         NEW a \in Amounts, NEW m \in Methods, Create(r, w, a, m)
  PROVE  TypeOK'
<1>1. [status |-> "PENDING", wise |-> "none", amount |-> a] \in Row
  BY AmountAssumption DEF Row, Status, WiseStatus, Transfer
<1>2. call' \in [Request -> Call]
  BY <1>1, BeginsTyped, SettingAssumption DEF Create, Op, Label
<1>3. QED BY <1>2 DEF Create, TypeOK

LEMMA ApproveTyped ==
  ASSUME TypeOK, NEW r \in Request, NEW w \in Withdrawal, NEW m \in Methods,
         Approve(r, w, m)
  PROVE  TypeOK'
<1>1. tx[w] \in Row
  BY DEF TypeOK
<1>2. call' \in [Request -> Call]
  BY <1>1, BeginsTyped, SettingAssumption DEF Approve, Op, Label
<1>3. QED BY <1>2 DEF Approve, TypeOK

\* The rest of createWithdrawal, and the load of processWithdrawal.
LEMMA CreatingTyped ==
  ASSUME TypeOK, NEW r \in Request,
         CheckActive(r) \/ CheckBalance(r) \/ Insert(r) \/ LoadPending(r)
  PROVE  TypeOK'
<1> USE CallTyped
<1>2. CASE CheckActive(r)
  <2>1. call' \in [Request -> Call]
    BY <1>2, GotoTyped DEF CheckActive, Label
  <2>2. QED BY <1>2, <2>1 DEF CheckActive, TypeOK
<1>3. CASE CheckBalance(r)
  <2>1. call' \in [Request -> Call]
    BY <1>3, GotoTyped DEF CheckBalance, Label
  <2>2. QED BY <1>3, <2>1 DEF CheckBalance, TypeOK
<1>4. CASE Insert(r)
  <2>1. call' \in [Request -> Call]
    BY <1>4, GotoTyped DEF Insert, Label
  <2>2. tx' \in [Withdrawal -> Row]
    BY <1>4 DEF Insert, TypeOK
  <2>3. QED BY <1>4, <2>1, <2>2 DEF Insert, TypeOK
<1>6. CASE LoadPending(r)
  <2> DEFINE e == tx[call[r].w]
  <2>0. [call[r] EXCEPT !.at = "send", !.ent = e] \in Call
    <3>1. e \in Row
      OBVIOUS
    <3> HIDE DEF e
    <3>2. QED BY <3>1 DEF Call, Label
  <2>1. call' \in [Request -> Call]
    BY <1>6, <2>0, NoCallTyped DEF LoadPending, TypeOK
  <2>2. QED BY <1>6, <2>1 DEF LoadPending, TypeOK
<1>7. QED BY <1>2, <1>3, <1>4, <1>6

\* The ways to send the money.
LEMMA SendingTyped ==
  ASSUME TypeOK, NEW r \in Request,
         Sending(r) \/ FundingUnanswered(r) \/ StripeUnanswered(r)
  PROVE  TypeOK'
<1> USE CallTyped
<1>0. /\ {"waiting", "processing"} \subseteq Transfer
      /\ Transfer \subseteq WiseStatus
      /\ {"PENDING", "COMPLETED", "FAILED"} \subseteq Status
  BY DEF Transfer, WiseStatus, Status
<1>a. CreatedInVain(call[r]) =>
        /\ transfer' \in [Withdrawal -> Transfer]
        /\ seen' \in [Withdrawal -> SUBSET Transfer]
  BY <1>0, MovesTyped DEF CreatedInVain
<1>b. stripe' = [stripe EXCEPT ![call[r].w] = OneMore(@)] =>
        stripe' \in [Withdrawal -> 0..Several]
  BY OneMoreTyped DEF TypeOK
<1>1. CASE FundedAtOnce(r)
  <2>1. call' \in [Request -> Call]
    BY <1>1, <1>0, AssigningTyped DEF FundedAtOnce
  <2>2. /\ transfer' \in [Withdrawal -> Transfer]
        /\ seen' \in [Withdrawal -> SUBSET Transfer]
    BY <1>1, <1>0, MovesTyped DEF FundedAtOnce
  <2>3. QED BY <1>1, <2>1, <2>2 DEF FundedAtOnce, TypeOK
<1>2. CASE FundedByHand(r)
  <2> DEFINE state == IF transfer[call[r].w] = "none" THEN "waiting"
                                                      ELSE transfer[call[r].w]
  <2>1. state \in Transfer
    BY <1>0 DEF TypeOK
  <2>2. Moves(call[r].w, state) /\ Assigning(r, "PENDING", state, {"status", "wise"})
    BY <1>2 DEF FundedByHand
  <2> HIDE DEF state
  <2>3. call' \in [Request -> Call]
    BY <2>1, <2>2, <1>0, AssigningTyped
  <2>4. /\ transfer' \in [Withdrawal -> Transfer]
        /\ seen' \in [Withdrawal -> SUBSET Transfer]
    BY <2>1, <2>2, MovesTyped
  <2>5. QED BY <1>2, <2>3, <2>4 DEF FundedByHand, TypeOK
<1>3. CASE PaidByStripe(r)
  <2>1. call' \in [Request -> Call]
    BY <1>3, <1>0, AssigningTyped DEF PaidByStripe
  <2>2. QED BY <1>3, <1>a, <1>b, <2>1 DEF PaidByStripe, TypeOK
<1>4. CASE PaymentRefused(r)
  <2>1. call' \in [Request -> Call]
    BY <1>4, <1>0, AssigningTyped DEF PaymentRefused
  <2>2. QED BY <1>4, <1>a, <2>1 DEF PaymentRefused, TypeOK
<1>5. CASE FundingUnanswered(r)
  <2>1. call' \in [Request -> Call]
    BY <1>5, <1>0, AssigningTyped DEF FundingUnanswered
  <2>2. /\ transfer' \in [Withdrawal -> Transfer]
        /\ seen' \in [Withdrawal -> SUBSET Transfer]
    BY <1>5, <1>0, MovesTyped DEF FundingUnanswered
  <2>3. stripe' \in [Withdrawal -> 0..Several]
    BY <1>5, <1>b DEF FundingUnanswered, TypeOK
  <2>4. QED BY <1>5, <2>1, <2>2, <2>3 DEF FundingUnanswered, Fault, TypeOK
<1>6. CASE StripeUnanswered(r)
  <2>1. call' \in [Request -> Call]
    BY <1>6, <1>0, AssigningTyped DEF StripeUnanswered
  <2>2. QED BY <1>6, <1>b, <2>1 DEF StripeUnanswered, Fault, TypeOK
<1>7. QED BY <1>1, <1>2, <1>3, <1>4, <1>5, <1>6 DEF Sending

\* cancelWithdrawal, completeWithdrawal and the two saves.
LEMMA SettlingTyped ==
  ASSUME TypeOK, NEW r \in Request, NEW w \in Withdrawal,
         \/ Cancel(r, w) \/ Complete(r, w) \/ ReadWallet(r) \/ Debit(r) \/ Save(r)
  PROVE  TypeOK'
<1> USE CallTyped
<1>0. tx[w] \in Row /\ tx[w].status \in Status /\ tx[w].wise \in WiseStatus
  BY DEF TypeOK, Row
<1>1. CASE Cancel(r, w)
  <2>1. [tx[w] EXCEPT !.status = "CANCELLED"] \in Row
    BY <1>0 DEF Row, Status
  <2>2. call' \in [Request -> Call]
    BY <1>1, <2>1, BeginsTyped DEF Cancel, Op, Label
  <2>3. QED BY <1>1, <2>2 DEF Cancel, TypeOK
<1>2. CASE Complete(r, w)
  <2> DEFINE e == [tx[w] EXCEPT !.status = "COMPLETED",
                                !.wise = IF @ = "none" THEN @ ELSE "completed"]
             own == {"status"} \cup (IF tx[w].wise = "none" THEN {} ELSE {"wise"})
  <2>1. e \in Row
    BY <1>0 DEF Row, Status, WiseStatus, Transfer
  <2>2. own \in SUBSET {"status", "wise"}
    OBVIOUS
  <2>3. Begins(r, "complete", w, "wallet", e, own, "wise")
    BY <1>2 DEF Complete
  <2> HIDE DEF e, own
  <2>4. call' \in [Request -> Call]
    BY <2>1, <2>2, <2>3, BeginsTyped DEF Op, Label
  <2>5. QED BY <1>2, <2>4 DEF Complete, TypeOK
<1>3. CASE ReadWallet(r)
  <2>0. [call[r] EXCEPT !.at = "debit", !.wallet = balance] \in Call
    <3>1. balance \in Int
      BY DEF TypeOK
    <3>2. QED BY <3>1 DEF Call, Label
  <2>1. call' \in [Request -> Call]
    BY <1>3, <2>0 DEF ReadWallet, TypeOK
  <2>2. QED BY <1>3, <2>1 DEF ReadWallet, TypeOK
<1>4. CASE Debit(r)
  <2>0. [call[r] EXCEPT !.at = "save", !.wallet = NoWallet] \in Call
    BY NoWalletTyped DEF Call, Label
  <2>1. call' \in [Request -> Call]
    BY <1>4, <2>0 DEF Debit, TypeOK
  <2>2. balance' \in Nat
    BY <1>4 DEF Debit
  <2>3. debited' \in [Withdrawal -> 0..Several]
    BY <1>4, OneMoreTyped DEF Debit, TypeOK
  <2>4. QED BY <1>4, <2>1, <2>2, <2>3 DEF Debit, TypeOK
<1>5. CASE Save(r)
  <2>1. call' \in [Request -> Call]
    BY <1>5, GotoTyped DEF Save, Label
  <2>2. PICK wise \in WiseStatus :
          tx' = [tx EXCEPT ![call[r].w] =
                   [@ EXCEPT !.status = call[r].ent.status, !.wise = wise]]
    <3>1. tx[call[r].w].wise \in WiseStatus
      BY DEF Row
    <3>2. \A wise \in {call[r].ent.wise} \cup
                     (IF "wise" \in call[r].own THEN {} ELSE {tx[call[r].w].wise}) :
            wise \in WiseStatus
      BY <3>1
    <3>3. QED BY <1>5, <3>2 DEF Save
  <2>3. [tx[call[r].w] EXCEPT !.status = call[r].ent.status, !.wise = wise] \in Row
    BY CallTyped DEF Row
  <2>4. tx' \in [Withdrawal -> Row]
    BY <2>2, <2>3 DEF TypeOK
  <2>5. QED BY <1>5, <2>1, <2>4 DEF Save, TypeOK
<1>6. QED BY <1>1, <1>2, <1>3, <1>4, <1>5

\* The reports of Wise, and what happens there.
LEMMA ReportTyped ==
  ASSUME TypeOK, NEW r \in Request, NEW w \in Withdrawal, Report(r, w)
  PROVE  TypeOK'
<1>0. /\ tx[w] \in Row /\ Reportable(w) \subseteq Transfer
      /\ {"status", "wise"} \in SUBSET {"status", "wise"}
  BY DEF TypeOK, Reportable
<1>1. \A status \in Status, wise \in WiseStatus :
        [tx[w] EXCEPT !.status = status, !.wise = wise] \in Row
  BY <1>0 DEF Row
<1>2. ASSUME NEW l \in {"save", "debit"}, NEW status \in Status, NEW wise \in WiseStatus,
             Begins(r, "webhook", w, l,
                    [tx[w] EXCEPT !.status = status, !.wise = wise],
                    {"status", "wise"}, "wise")
      PROVE  call' \in [Request -> Call]
  <2> DEFINE e == [tx[w] EXCEPT !.status = status, !.wise = wise]
  <2>1. e \in Row
    BY <1>1
  <2>2. Begins(r, "webhook", w, l, e, {"status", "wise"}, "wise")
    BY <1>2
  <2> HIDE DEF e
  <2>3. QED BY <2>1, <2>2, <1>0, BeginsTyped DEF Op, Label
<1>3. call' \in [Request -> Call]
  <2>1. CASE ReportProgress(r, w)
    BY <2>1, <1>0, <1>2 DEF ReportProgress, Status, WiseStatus
  <2>2. CASE ReportSent(r, w)
    BY <2>2, <1>0, <1>2 DEF ReportSent, Status, WiseStatus
  <2>3. CASE ReportReturned(r, w)
    BY <2>3, <1>2 DEF ReportReturned, Status, WiseStatus, Transfer
  <2>4. CASE ReportProblem(r, w)
    BY <2>4, <1>2 DEF ReportProblem, Status, WiseStatus, Transfer
  <2>5. QED BY <2>1, <2>2, <2>3, <2>4 DEF Report
<1>4. UNCHANGED <<tx, balance, transfer, seen, stripe, debited, faults>>
  BY DEF Report, ReportProgress, ReportSent, ReportReturned, ReportProblem
<1>5. QED BY <1>3, <1>4 DEF TypeOK

LEMMA OutsideTyped ==
  ASSUME TypeOK, NEW w \in Withdrawal,
         FundByHand(w) \/ Send(w) \/ Return(w) \/ Crash
  PROVE  TypeOK'
<1>1. CASE FundByHand(w)
  BY <1>1, MovesTyped DEF FundByHand, TypeOK, Transfer
<1>2. CASE Send(w)
  <2>1. Finals \subseteq Transfer
    BY SettingAssumption DEF Transfer
  <2>2. QED BY <1>2, <2>1, MovesTyped DEF Send, TypeOK
<1>3. CASE Return(w)
  BY <1>3, MovesTyped DEF Return, TypeOK, Transfer
<1>4. CASE Crash
  BY <1>4, NoCallTyped DEF Crash, Fault, TypeOK
<1>5. QED BY <1>1, <1>2, <1>3, <1>4

LEMMA NextTyped == TypeOK /\ [Next]_vars => TypeOK'
<1> SUFFICES ASSUME TypeOK, [Next]_vars PROVE TypeOK'
  OBVIOUS
<1>1. CASE UNCHANGED vars
  BY <1>1 DEF vars, TypeOK
<1>2. CASE Next
  <2>1. CASE \E r \in Request, w \in Withdrawal :
               \/ \E m \in Methods : Approve(r, w, m) \/ \E a \in Amounts : Create(r, w, a, m)
               \/ Cancel(r, w) \/ Complete(r, w) \/ Report(r, w)
    BY <2>1, ApproveTyped, CreateTyped, SettlingTyped, ReportTyped
  <2>2. CASE \E r \in Request : Progress(r) \/ FundingUnanswered(r) \/ StripeUnanswered(r)
    BY <2>2, WithdrawalAssumption, CreatingTyped, SendingTyped, SettlingTyped DEF Progress
  <2>3. CASE (\E w \in Withdrawal : FundByHand(w) \/ Send(w) \/ Return(w)) \/ Crash
    BY <2>3, WithdrawalAssumption, OutsideTyped
  <2>4. QED BY <1>2, <2>1, <2>2, <2>3 DEF Next
<1>3. QED BY <1>1, <1>2

(* Whatever is lost, reordered or run at the same time, the rows, the      *)
(* wallet and the calls keep their types; the balance is never negative.   *)
THEOREM TypeCorrect == Spec => []TypeOK
<1>1. QED BY InitTyped, NextTyped, PTL DEF Spec
----------------------------------------------------------------------------
(***************************************************************************)
(* What is completed, and what is about to be saved as completed, is       *)
(* backed; what Wise reported, Wise has.                                   *)
(***************************************************************************)
Backed(w) == debited[w] > 0 \/ transfer[w] # "none" \/ stripe[w] > 0

SavesBacked ==
  \A r \in Request :
    call[r].at = "save" /\ call[r].ent.status = "COMPLETED" => Backed(call[r].w)
CreatesPending ==
  \A r \in Request :
    call[r].at \in {"active", "balance", "insert"} => call[r].ent.status = "PENDING"
SeenExists ==
  \A w \in Withdrawal : seen[w] \ {"none"} # {} => transfer[w] # "none"

BackedInv == CompletedIsBacked /\ SavesBacked /\ CreatesPending /\ SeenExists

LEMMA InitBacked == Init => BackedInv
BY NoCallTyped
   DEF Init, NoRow, BackedInv, CompletedIsBacked, SavesBacked, CreatesPending, SeenExists

\* Providers and the history only ever add to what a withdrawal has.
MovesOn ==
  \/ UNCHANGED <<transfer, seen>>
  \/ \E w \in Withdrawal, state \in Transfer \ {"none"} : Moves(w, state)
PaysMore ==
  \/ UNCHANGED stripe
  \/ \E w \in Withdrawal : stripe' = [stripe EXCEPT ![w] = OneMore(@)]
DebitsMore ==
  \/ UNCHANGED debited
  \/ \E w \in Withdrawal : debited' = [debited EXCEPT ![w] = OneMore(@)]

LEMMA StepAdds ==
  ASSUME TypeOK, [Next]_vars
  PROVE  MovesOn /\ PaysMore /\ DebitsMore
<1>0. {"waiting", "processing", "returned"} \cup Finals \subseteq Transfer \ {"none"}
  BY SettingAssumption DEF Transfer
<1>1. CASE UNCHANGED vars
  BY <1>1 DEF vars, MovesOn, PaysMore, DebitsMore
<1>2. ASSUME NEW r \in Request, Sending(r) \/ FundingUnanswered(r) \/ StripeUnanswered(r)
      PROVE  MovesOn /\ PaysMore /\ DebitsMore
  <2> USE <1>0, CallTyped
  <2>1. CASE FundedAtOnce(r)
    BY <2>1 DEF FundedAtOnce, MovesOn, PaysMore, DebitsMore
  <2>2. CASE FundedByHand(r)
    <3>1. (IF transfer[call[r].w] = "none" THEN "waiting" ELSE transfer[call[r].w])
             \in Transfer \ {"none"}
      BY DEF TypeOK
    <3>2. QED BY <2>2, <3>1 DEF FundedByHand, MovesOn, PaysMore, DebitsMore
  <2>3. CASE PaidByStripe(r)
    BY <2>3 DEF PaidByStripe, CreatedInVain, MovesOn, PaysMore, DebitsMore
  <2>4. CASE PaymentRefused(r)
    BY <2>4 DEF PaymentRefused, CreatedInVain, MovesOn, PaysMore, DebitsMore
  <2>5. CASE FundingUnanswered(r)
    BY <2>5 DEF FundingUnanswered, MovesOn, PaysMore, DebitsMore
  <2>6. CASE StripeUnanswered(r)
    BY <2>6 DEF StripeUnanswered, MovesOn, PaysMore, DebitsMore
  <2>7. QED BY <1>2, <2>1, <2>2, <2>3, <2>4, <2>5, <2>6 DEF Sending
<1>3. ASSUME NEW r \in Request, Debit(r)
      PROVE  MovesOn /\ PaysMore /\ DebitsMore
  BY <1>3, CallTyped DEF Debit, MovesOn, PaysMore, DebitsMore
<1>4. ASSUME NEW r \in Request,
             \/ CheckActive(r) \/ CheckBalance(r) \/ Insert(r) \/ LoadPending(r)
             \/ ReadWallet(r) \/ Save(r)
      PROVE  MovesOn /\ PaysMore /\ DebitsMore
  BY <1>4 DEF CheckActive, CheckBalance, Insert, LoadPending, ReadWallet, Save,
              MovesOn, PaysMore, DebitsMore
<1>5. ASSUME NEW r \in Request, NEW w \in Withdrawal, NEW m \in Methods,
             Approve(r, w, m) \/ \E a \in Amounts : Create(r, w, a, m)
      PROVE  MovesOn /\ PaysMore /\ DebitsMore
  BY <1>5 DEF Approve, Create, MovesOn, PaysMore, DebitsMore
<1>6. ASSUME NEW r \in Request, NEW w \in Withdrawal,
             Cancel(r, w) \/ Complete(r, w) \/ Report(r, w)
      PROVE  MovesOn /\ PaysMore /\ DebitsMore
  BY <1>6 DEF Cancel, Complete, Report, ReportProgress, ReportSent, ReportReturned,
              ReportProblem, MovesOn, PaysMore, DebitsMore
<1>7. ASSUME NEW w \in Withdrawal, FundByHand(w) \/ Send(w) \/ Return(w)
      PROVE  MovesOn /\ PaysMore /\ DebitsMore
  BY <1>7, <1>0 DEF FundByHand, Send, Return, MovesOn, PaysMore, DebitsMore
<1>8. CASE Crash
  BY <1>8 DEF Crash, MovesOn, PaysMore, DebitsMore
<1>9. QED
  BY <1>1, <1>2, <1>3, <1>4, <1>5, <1>6, <1>7, <1>8 DEF Next, Progress

\* So nothing that backs a withdrawal goes away.
LEMMA StaysBacked ==
  ASSUME TypeOK, SeenExists, [Next]_vars
  PROVE  (\A w \in Withdrawal : Backed(w) => Backed(w)') /\ SeenExists'
<1>1. \A n \in 0..Several : OneMore(n) > 0
  BY DEF OneMore, Several
<1>2. MovesOn /\ PaysMore /\ DebitsMore
  BY StepAdds
<1>3. \A w \in Withdrawal : transfer[w] # "none" => transfer'[w] # "none"
  BY <1>2 DEF MovesOn, Moves, TypeOK
<1>4. \A w \in Withdrawal : stripe[w] > 0 => stripe'[w] > 0
  BY <1>1, <1>2 DEF PaysMore, TypeOK
<1>5. \A w \in Withdrawal : debited[w] > 0 => debited'[w] > 0
  BY <1>1, <1>2 DEF DebitsMore, TypeOK
<1>6. SeenExists'
  BY <1>2 DEF MovesOn, Moves, SeenExists, TypeOK
<1>7. QED BY <1>3, <1>4, <1>5, <1>6 DEF Backed

\* A call that moves on leaves the other calls alone.
OnlyMoves(r) == \A q \in Request : q # r => call'[q] = call[q]

\* What SavesBacked and CreatesPending ask of one call.
CallBacked(r) ==
  /\ call[r].at = "save" /\ call[r].ent.status = "COMPLETED" => Backed(call[r].w)
  /\ call[r].at \in {"active", "balance", "insert"} => call[r].ent.status = "PENDING"

LEMMA SendingBacked ==
  ASSUME TypeOK, BackedInv, NEW r \in Request,
         Sending(r) \/ FundingUnanswered(r) \/ StripeUnanswered(r)
  PROVE  CallBacked(r)' /\ OnlyMoves(r) /\ tx' = tx
<1> USE CallTyped
<1>0. \A n \in 0..Several : OneMore(n) > 0
  BY DEF OneMore, Several
<1>1. CASE FundedAtOnce(r)
  BY <1>1 DEF FundedAtOnce, Assigning, Moves, CallBacked, OnlyMoves, Backed, TypeOK, Call
<1>2. CASE FundedByHand(r)
  BY <1>2 DEF FundedByHand, Assigning, CallBacked, OnlyMoves, TypeOK, Call
<1>3. CASE PaidByStripe(r)
  <2>1. stripe'[call[r].w] > 0
    BY <1>0, <1>3 DEF PaidByStripe, TypeOK
  <2>2. QED
    BY <1>3, <2>1 DEF PaidByStripe, Assigning, CallBacked, OnlyMoves, Backed, TypeOK, Call
<1>4. CASE PaymentRefused(r)
  BY <1>4 DEF PaymentRefused, Assigning, CallBacked, OnlyMoves, TypeOK, Call
<1>5. CASE FundingUnanswered(r)
  <2>1. transfer'[call[r].w] # "none"
    <3>1. Moves(call[r].w, "processing")
      BY <1>5 DEF FundingUnanswered
    <3>2. QED BY <3>1 DEF Moves, TypeOK
  <2>2. CASE call[r].method = "wise"
    <3>1. /\ Assigning(r, "PENDING", "waiting", {"status", "wise"})
          /\ tx' = tx
      BY <1>5, <2>2 DEF FundingUnanswered
    <3>2. QED
      BY <3>1 DEF Assigning, CallBacked, OnlyMoves, TypeOK, Call
  <2>3. CASE call[r].method # "wise"
    <3>1. Assigning(r, "COMPLETED", call[r].ent.wise, {"status"}) /\ tx' = tx
      BY <1>5, <2>3 DEF FundingUnanswered
    <3>2. QED
      BY <2>1, <3>1 DEF Assigning, CallBacked, OnlyMoves, Backed, TypeOK, Call
  <2>4. QED BY <2>2, <2>3
<1>6. CASE StripeUnanswered(r)
  BY <1>6 DEF StripeUnanswered, Assigning, CallBacked, OnlyMoves, TypeOK, Call
<1>7. QED BY <1>1, <1>2, <1>3, <1>4, <1>5, <1>6 DEF Sending

LEMMA CreatingBacked ==
  ASSUME TypeOK, BackedInv, NEW r \in Request,
         CheckActive(r) \/ CheckBalance(r) \/ LoadPending(r) \/ ReadWallet(r)
  PROVE  CallBacked(r)' /\ OnlyMoves(r) /\ tx' = tx
<1> USE CallTyped, NoCallTyped
<1>0. call[r].at \in {"active", "balance"} => call[r].ent.status = "PENDING"
  BY DEF BackedInv, CreatesPending
<1>1. CASE CheckActive(r)
  BY <1>0, <1>1 DEF CheckActive, Goto, CallBacked, OnlyMoves, TypeOK, Call
<1>2. CASE CheckBalance(r)
  BY <1>0, <1>2 DEF CheckBalance, Goto, CallBacked, OnlyMoves, TypeOK, Call
<1>3. CASE LoadPending(r)
  BY <1>3 DEF LoadPending, CallBacked, OnlyMoves, TypeOK, Call
<1>4. CASE ReadWallet(r)
  BY <1>4 DEF ReadWallet, CallBacked, OnlyMoves, TypeOK, Call
<1>5. QED BY <1>1, <1>2, <1>3, <1>4

LEMMA BeginningBacked ==
  ASSUME TypeOK, BackedInv, NEW r \in Request, NEW w \in Withdrawal,
         \/ \E m \in Methods : Approve(r, w, m) \/ \E a \in Amounts : Create(r, w, a, m)
         \/ Cancel(r, w) \/ Complete(r, w) \/ Report(r, w)
  PROVE  CallBacked(r)' /\ OnlyMoves(r) /\ tx' = tx
<1>1. CASE \E m \in Methods : Approve(r, w, m) \/ \E a \in Amounts : Create(r, w, a, m)
  BY <1>1 DEF Approve, Create, Begins, CallBacked, OnlyMoves, TypeOK
<1>2. CASE Cancel(r, w)
  BY <1>2 DEF Cancel, Begins, CallBacked, OnlyMoves, TypeOK, Row
<1>3. CASE Complete(r, w)
  BY <1>3 DEF Complete, Begins, CallBacked, OnlyMoves, TypeOK
<1>4. CASE Report(r, w)
  <2>1. CASE ReportProgress(r, w)
    BY <2>1 DEF ReportProgress, Begins, CallBacked, OnlyMoves, TypeOK, Row
  <2>2. CASE ReportReturned(r, w)
    BY <2>2 DEF ReportReturned, Begins, CallBacked, OnlyMoves, TypeOK, Row
  <2>3. CASE ReportProblem(r, w)
    BY <2>3 DEF ReportProblem, Begins, CallBacked, OnlyMoves, TypeOK, Row
  <2>4. CASE ReportSent(r, w)
    <3>1. transfer'[w] # "none"
      BY <2>4 DEF ReportSent, Reportable, BackedInv, SeenExists
    <3>2. QED
      BY <2>4, <3>1 DEF ReportSent, Begins, CallBacked, OnlyMoves, Backed, TypeOK
  <2>5. QED BY <1>4, <2>1, <2>2, <2>3, <2>4 DEF Report
<1>5. QED BY <1>1, <1>2, <1>3, <1>4

\* The two saves, and the insert of a new withdrawal.
LEMMA InsertBacked ==
  ASSUME TypeOK, BackedInv, NEW r \in Request, Insert(r)
  PROVE  /\ CallBacked(r)' /\ OnlyMoves(r)
         /\ \A w \in Withdrawal : tx'[w].status = "COMPLETED" => tx[w].status = "COMPLETED"
<1>1. call[r].ent.status = "PENDING"
  BY DEF Insert, BackedInv, CreatesPending
<1>2. CallBacked(r)' /\ OnlyMoves(r)
  BY CallTyped, NoCallTyped DEF Insert, Goto, CallBacked, OnlyMoves, TypeOK, Call
<1>3. tx' = [tx EXCEPT ![call[r].w] = call[r].ent]
  BY DEF Insert
<1>4. QED BY <1>1, <1>2, <1>3 DEF TypeOK

LEMMA DebitBacked ==
  ASSUME TypeOK, NEW r \in Request, Debit(r)
  PROVE  CallBacked(r)' /\ OnlyMoves(r) /\ tx' = tx
<1>0. \A n \in 0..Several : OneMore(n) > 0
  BY DEF OneMore, Several
<1>1. debited'[call[r].w] > 0
  BY <1>0, CallTyped DEF Debit, TypeOK
<1>2. QED
  BY <1>1, CallTyped DEF Debit, CallBacked, OnlyMoves, Backed, TypeOK, Call

LEMMA SaveBacked ==
  ASSUME TypeOK, BackedInv, NEW r \in Request, Save(r)
  PROVE  /\ CallBacked(r)' /\ OnlyMoves(r)
         /\ \A w \in Withdrawal :
              tx'[w].status = "COMPLETED" => tx[w].status = "COMPLETED" \/ Backed(w)
<1>1. call[r].ent.status = "COMPLETED" => Backed(call[r].w)
  BY DEF Save, BackedInv, SavesBacked
<1>2. CallBacked(r)' /\ OnlyMoves(r)
  BY CallTyped, NoCallTyped DEF Save, Goto, CallBacked, OnlyMoves, TypeOK, Call
<1>3. PICK wise : tx' = [tx EXCEPT ![call[r].w] =
                           [@ EXCEPT !.status = call[r].ent.status, !.wise = wise]]
  BY DEF Save
<1>4. tx'[call[r].w].status = call[r].ent.status
  BY <1>3, CallTyped DEF TypeOK, Row
<1>5. \A w \in Withdrawal : w # call[r].w => tx'[w] = tx[w]
  BY <1>3, CallTyped DEF TypeOK
<1>6. QED BY <1>1, <1>2, <1>4, <1>5

\* What the steps of a call have in common.
CallStep(r) ==
  /\ CallBacked(r)' /\ OnlyMoves(r)
  /\ \A w \in Withdrawal :
       tx'[w].status = "COMPLETED" => tx[w].status = "COMPLETED" \/ Backed(w)

LEMMA CallsBacked ==
  ASSUME TypeOK, BackedInv, Next
  PROVE  \/ \E r \in Request : CallStep(r)
         \/ tx' = tx /\ call' = call
         \/ tx' = tx /\ call' = [r \in Request |-> NoCall]
<1>1. ASSUME NEW r \in Request, NEW w \in Withdrawal,
             \/ \E m \in Methods : Approve(r, w, m) \/ \E a \in Amounts : Create(r, w, a, m)
             \/ Cancel(r, w) \/ Complete(r, w) \/ Report(r, w)
      PROVE  CallStep(r)
  BY <1>1, BeginningBacked DEF CallStep
<1>2. ASSUME NEW r \in Request,
             Progress(r) \/ FundingUnanswered(r) \/ StripeUnanswered(r)
      PROVE  CallStep(r)
  <2>1. CASE CheckActive(r) \/ CheckBalance(r) \/ LoadPending(r) \/ ReadWallet(r)
    BY <2>1, CreatingBacked DEF CallStep
  <2>2. CASE Sending(r) \/ FundingUnanswered(r) \/ StripeUnanswered(r)
    BY <2>2, SendingBacked DEF CallStep
  <2>3. CASE Insert(r)
    BY <2>3, InsertBacked DEF CallStep
  <2>4. CASE Debit(r)
    BY <2>4, DebitBacked DEF CallStep
  <2>5. CASE Save(r)
    BY <2>5, SaveBacked DEF CallStep
  <2>6. QED BY <1>2, <2>1, <2>2, <2>3, <2>4, <2>5 DEF Progress
<1>3. ASSUME NEW w \in Withdrawal, FundByHand(w) \/ Send(w) \/ Return(w)
      PROVE  tx' = tx /\ call' = call
  BY <1>3 DEF FundByHand, Send, Return
<1>4. CASE Crash
  BY <1>4 DEF Crash
<1>5. QED BY <1>1, <1>2, <1>3, <1>4 DEF Next

LEMMA NextBacked == TypeOK /\ BackedInv /\ [Next]_vars => BackedInv'
<1> SUFFICES ASSUME TypeOK, BackedInv, [Next]_vars PROVE BackedInv'
  OBVIOUS
<1>1. (\A w \in Withdrawal : Backed(w) => Backed(w)') /\ SeenExists'
  BY StaysBacked DEF BackedInv
<1>2. \A q \in Request : CallBacked(q) /\ call[q].w \in Withdrawal
  BY CallTyped DEF BackedInv, SavesBacked, CreatesPending, CallBacked
<1>3. \A w \in Withdrawal : tx[w].status = "COMPLETED" => Backed(w)
  BY DEF BackedInv, CompletedIsBacked, Backed
<1>4. \A q \in Request : call'[q] = call[q] => CallBacked(q)'
  BY <1>1, <1>2 DEF CallBacked
<1> DEFINE RowsBacked == \A w \in Withdrawal : tx[w].status = "COMPLETED" => Backed(w)
           EachBacked == \A q \in Request : CallBacked(q)
<1>5. RowsBacked' /\ EachBacked'
  <2>1. ASSUME NEW r \in Request, CallStep(r)
        PROVE  RowsBacked' /\ EachBacked'
    BY <1>1, <1>3, <1>4, <2>1 DEF CallStep, OnlyMoves
  <2>2. CASE tx' = tx /\ call' = call
    BY <1>1, <1>3, <1>4, <2>2
  <2>3. CASE tx' = tx /\ call' = [r \in Request |-> NoCall]
    BY <1>1, <1>3, <2>3, NoCallTyped DEF CallBacked
  <2>4. CASE UNCHANGED vars
    BY <2>2, <2>4 DEF vars
  <2>5. QED BY <2>1, <2>2, <2>3, <2>4, CallsBacked
<1>6. QED
  BY <1>1, <1>5 DEF BackedInv, CompletedIsBacked, SavesBacked, CreatesPending,
                    CallBacked, Backed

(* A completed withdrawal was debited, or handed to Wise or to Stripe,     *)
(* whatever is lost, reordered or run at the same time: processWithdrawal, *)
(* completeWithdrawal and finalizeCompletedWithdrawal save it as completed *)
(* only after that.                                                        *)
THEOREM CompletedBacked == Spec => []CompletedIsBacked
<1>1. Spec => []BackedInv
  BY TypeCorrect, InitBacked, NextBacked, PTL DEF Spec
<1>2. BackedInv => CompletedIsBacked
  BY DEF BackedInv
<1>3. QED BY <1>1, <1>2, PTL
-----------------------------------------------------------------------------
(***************************************************************************)
(* What holds when withdrawals are paid by hand: one call at a time, Wise  *)
(* funded by hand, reports in order, administrators who heed Wise, and no  *)
(* call that ends halfway.  A report may come any number of times, and the *)
(* one that the money was sent debits the wallet each time.                *)
(*                                                                         *)
(* NeverOverpaid and BalanceAccounted are not inductive: they follow from  *)
(* what a row, its transfer and its debits have to do with each other, and *)
(* from what the call in flight knows of them at each of its awaits.       *)
(***************************************************************************)
ByHand ==
  /\ Orderly /\ ~AutoFund /\ Methods \subseteq {"wise"}
  /\ MaxFaults = 0
  /\ \A q, r \in Request : q = r
  /\ IsFiniteSet(Withdrawal)

\* Wise has paid.
Over == {"sent", "completed"}

\* A row that says `status` and `wise` of a transfer in the state t, debited d times.
Fits(status, wise, t, d) ==
  /\ d \in 0..2
  /\ status = "absent" => t = "none" /\ d = 0
  /\ t = "none" <=> wise = "none"
  /\ t = "none" => status # "PROCESSING"
  /\ t \in {"waiting", "processing"} => status \in Active
  /\ t \in Over => status \in Active \/ (status = "COMPLETED" /\ wise \in Over)
  /\ wise \in Over => d # 0
  /\ status \in Active => d = 0

\* A final report is taken for news: nothing was debited, or the row says "sent".
News(w) ==
  \/ tx[w].status \in Active
  \/ tx[w].status = "COMPLETED" /\ tx[w].wise = "sent"

Saving(w) == \E r \in Request : call[r].at = "save" /\ call[r].w = w

\* What a call c knows of its withdrawal at each await.
Knows(c) ==
  /\ c.at \in {"active", "balance", "insert"} =>
       /\ tx[c.w].status = "absent" /\ c.ent.status = "PENDING" /\ c.ent.wise = "none"
  /\ c.at \in {"balance", "insert"} => \A w \in Withdrawal : tx[w].status \notin Active
  /\ c.at = "insert" => c.ent.amount <= balance
  /\ c.at \in {"active", "balance", "insert", "load", "send"} =>
       c.method = "wise" /\ transfer[c.w] = "none"
  /\ c.at = "send" => c.ent = tx[c.w] /\ tx[c.w].status = "PENDING"
  /\ c.at \in {"wallet", "debit", "save"} =>
       /\ "wise" \notin c.own => c.ent.wise = tx[c.w].wise
       /\ tx[c.w].status # "absent"
  /\ c.at \in {"wallet", "debit"} =>
       /\ News(c.w) /\ c.ent.amount = tx[c.w].amount
       /\ Fits(c.ent.status, c.ent.wise, transfer[c.w], 1) /\ c.ent.status = "COMPLETED"
  /\ c.at = "debit" => c.wallet = balance
  /\ c.at = "save" =>
       /\ Fits(c.ent.status, c.ent.wise, transfer[c.w], debited[c.w])
       /\ c.ent.status \in Active => tx[c.w].status \in Active
       /\ transfer[c.w] \in {"waiting", "processing"} \cup Over /\ debited[c.w] = 0
            => tx[c.w].status \in Active

\* What was debited from the wallet for a withdrawal, once.
Debits == [w \in Withdrawal |-> IF debited[w] > 0 THEN tx[w].amount ELSE 0]

ByHandInv ==
  /\ \A w \in Withdrawal : stripe[w] = 0
  /\ \A w \in Withdrawal : Saving(w) \/ Fits(tx[w].status, tx[w].wise, transfer[w], debited[w])
  /\ \A r \in Request : Knows(call[r])
  /\ OneActive
  /\ \A w \in Withdrawal : tx[w].status \in Active /\ debited[w] = 0 =>
       tx[w].amount + Total(Debits, Withdrawal) <= Funds
  /\ balance + Total(Debits, Withdrawal) <= Funds
  /\ DebitedOnce => balance + Total(Debits, Withdrawal) = Funds

LEMMA SavingIs ==
  ASSUME ByHand, NEW r \in Request, NEW w
  PROVE  Saving(w) <=> call[r].at = "save" /\ call[r].w = w
BY DEF ByHand, Saving

LEMMA SavingWill ==
  ASSUME ByHand, TypeOK, NEW r \in Request, NEW w, NEW new, call' = [call EXCEPT ![r] = new]
  PROVE  Saving(w)' <=> new.at = "save" /\ new.w = w
BY DEF ByHand, Saving, TypeOK

LEMMA KnowsNothing == NoCall \in Call /\ NoCall.at = "idle" /\ Knows(NoCall)'
BY NoCallTyped DEF Knows

\* The debits, and their sum, are numbers.
LEMMA DebitsTyped ==
  ASSUME TypeOK, ByHand
  PROVE  /\ \A w \in Withdrawal : Debits[w] \in Nat
         /\ Total(Debits, Withdrawal) \in Int
<1>1. \A w \in Withdrawal : Debits[w] \in Nat
  BY DEF TypeOK, Row, Debits
<1>2. \A w \in Withdrawal : Debits[w] \in Int
  BY <1>1
<1> QED BY <1>1, <1>2, TotalInt DEF ByHand

\* The sum of the debits does not change with what is not summed.
LEMMA DebitsKept ==
  ASSUME TypeOK, TypeOK', ByHand, \A w \in Withdrawal : Debits'[w] = Debits[w]
  PROVE  Total(Debits, Withdrawal)' = Total(Debits, Withdrawal)
<1>1. PICK f : f = Debits
  OBVIOUS
<1>2. PICK e : e = Debits'
  OBVIOUS
<1>3. \A w \in Withdrawal : f[w] \in Int /\ e[w] = f[w]
  BY <1>1, <1>2, DebitsTyped
<1>4. Total(e, Withdrawal) = Total(f, Withdrawal)
  BY <1>3, TotalSame DEF ByHand
<1> QED BY <1>1, <1>2, <1>4
LEMMA ByHandFacts ==
  ASSUME TypeOK, ByHandInv, NEW w \in Withdrawal
  PROVE  /\ tx[w] \in Row /\ tx[w].amount \in Nat /\ balance \in Nat
         /\ transfer[w] \in Transfer /\ stripe[w] = 0
         /\ Saving(w) \/ Fits(tx[w].status, tx[w].wise, transfer[w], debited[w])
         /\ tx[w].status \in Active /\ debited[w] = 0 =>
              tx[w].amount + Total(Debits, Withdrawal) <= Funds
BY DEF TypeOK, Row, ByHandInv

\* A call that has not come to its save goes on, and only its memory changes.
LEMMA ByHandGoesOn ==
  ASSUME ByHand, TypeOK, TypeOK', ByHandInv, NEW r \in Request, NEW new,
         call' = [call EXCEPT ![r] = new], call[r].at # "save", Knows(new)',
         UNCHANGED <<tx, balance, transfer, stripe, debited>>
  PROVE  ByHandInv'
<1>1. tx' = tx /\ balance' = balance /\ transfer' = transfer /\ stripe' = stripe /\ debited' = debited
  OBVIOUS
<1>2. \A q \in Request : Knows(call[q])'
  BY DEF ByHand, TypeOK
<1>3. \A w \in Withdrawal : Fits(tx[w].status, tx[w].wise, transfer[w], debited[w])
  BY ByHandFacts, SavingIs
<1>4. \A w \in Withdrawal : Fits(tx'[w].status, tx'[w].wise, transfer'[w], debited'[w])
  BY <1>1, <1>3
<1>5. Debits' = Debits
  BY <1>1 DEF Debits
<1> QED BY <1>1, <1>2, <1>4, <1>5 DEF ByHandInv, OneActive, DebitedOnce

\* Nothing is on its way to be saved while the call is somewhere else.
LEMMA AllFit ==
  ASSUME ByHand, TypeOK, ByHandInv, NEW r \in Request, call[r].at # "save", NEW w \in Withdrawal
  PROVE  Fits(tx[w].status, tx[w].wise, transfer[w], debited[w])
BY ByHandFacts, SavingIs

LEMMA ByHandBegins ==
  ASSUME ByHand, TypeOK, TypeOK', ByHandInv, NEW r \in Request, NEW op \in Op, NEW w \in Withdrawal,
         NEW l \in Label, NEW ent \in Row, NEW own \in SUBSET {"status", "wise"}, NEW method,
         Begins(r, op, w, l, ent, own, method),
         UNCHANGED <<tx, balance, transfer, seen, stripe, debited, faults>>,
         \/ /\ l = "active" /\ tx[w].status = "absent" /\ ent.status = "PENDING" /\ ent.wise = "none"
            /\ method = "wise"
         \/ l = "load" /\ transfer[w] = "none" /\ method = "wise"
         \/ /\ l \in {"wallet", "debit"} /\ News(w) /\ ent.amount = tx[w].amount
            /\ "wise" \notin own => ent.wise = tx[w].wise
            /\ Fits(ent.status, ent.wise, transfer[w], 1) /\ ent.status = "COMPLETED"
         \/ /\ l = "save" /\ tx[w].status # "absent"
            /\ "wise" \notin own => ent.wise = tx[w].wise
            /\ Fits(ent.status, ent.wise, transfer[w], debited[w])
            /\ ent.status \in Active => tx[w].status \in Active
  PROVE  ByHandInv'
<1>1. PICK new : new = [op |-> op, w |-> w, at |-> l, ent |-> ent, own |-> own,
                        method |-> method, wallet |-> IF l = "debit" THEN balance ELSE NoWallet]
  OBVIOUS
<1>2. /\ new.op = op /\ new.w = w /\ new.at = l /\ new.ent = ent /\ new.own = own /\ new.method = method
      /\ l = "debit" => new.wallet = balance
  BY <1>1
<1>3. call' = [call EXCEPT ![r] = new] /\ call[r].at = "idle"
  BY <1>1 DEF Begins, InFlight
<1>4. Fits(tx[w].status, tx[w].wise, transfer[w], debited[w])
  BY <1>3, AllFit
<1>5. tx' = tx /\ balance' = balance /\ transfer' = transfer /\ debited' = debited
  OBVIOUS
<1>6. l = "active" => transfer[w] = "none"
  BY <1>4 DEF Fits
<1>7. transfer[w] \in {"waiting", "processing"} \cup Over /\ debited[w] = 0
            => tx[w].status \in Active
  BY <1>4 DEF Fits
<1>8. News(w) => tx[w].status # "absent"
  BY DEF Active, News
<1>10. News(w)' <=> News(w)
  BY <1>5 DEF News
<1>9. Knows(new)'
  BY <1>2, <1>5, <1>6, <1>7, <1>8, <1>10 DEF Knows
<1> QED BY <1>3, <1>5, <1>9, ByHandGoesOn

LEMMA CreateByHand ==
  ASSUME ByHand, TypeOK, TypeOK', ByHandInv, NEW r \in Request, NEW w \in Withdrawal, NEW a \in Amounts,
         NEW m \in Methods, Create(r, w, a, m)
  PROVE  ByHandInv'
<1> DEFINE ent == [status |-> "PENDING", wise |-> "none", amount |-> a]
<1>1. ent \in Row /\ ent.status = "PENDING" /\ ent.wise = "none" /\ m = "wise"
  BY AmountAssumption DEF Row, Status, WiseStatus, Transfer, ByHand
<1>2. /\ Begins(r, "create", w, "active", ent, {}, m) /\ tx[w].status = "absent"
      /\ UNCHANGED <<tx, balance, transfer, seen, stripe, debited, faults>>
  BY DEF Create
<1>3. "create" \in Op /\ "active" \in Label
  BY DEF Op, Label
<1> HIDE DEF ent
<1> QED BY <1>1, <1>2, <1>3, ByHandBegins

LEMMA ApproveByHand ==
  ASSUME ByHand, TypeOK, TypeOK', ByHandInv, NEW r \in Request, NEW w \in Withdrawal,
         NEW m \in Methods, Approve(r, w, m)
  PROVE  ByHandInv'
<1>1. /\ Begins(r, "process", w, "load", tx[w], {}, m) /\ transfer[w] = "none" /\ m = "wise"
      /\ UNCHANGED <<tx, balance, transfer, seen, stripe, debited, faults>>
  BY DEF Approve, ByHand
<1>2. "process" \in Op /\ "load" \in Label /\ tx[w] \in Row
  BY ByHandFacts DEF Op, Label
<1> QED BY <1>1, <1>2, ByHandBegins

LEMMA CancelByHand ==
  ASSUME ByHand, TypeOK, TypeOK', ByHandInv, NEW r \in Request, NEW w \in Withdrawal, Cancel(r, w)
  PROVE  ByHandInv'
<1>1. PICK ent : ent = [tx[w] EXCEPT !.status = "CANCELLED"]
  OBVIOUS
<1>2. tx[w] \in Row
  BY ByHandFacts
<1>3. ent \in Row /\ ent.status = "CANCELLED" /\ ent.wise = tx[w].wise
  BY <1>1, <1>2 DEF Row, Status
<1>4. /\ Begins(r, "cancel", w, "save", ent, {"status"}, "wise") /\ call[r].at # "save"
      /\ tx[w].status = "PENDING" /\ transfer[w] \in {"none", "returned"}
      /\ UNCHANGED <<tx, balance, transfer, seen, stripe, debited, faults>>
  BY <1>1 DEF Cancel, ByHand, Begins, InFlight
<1>5. Fits(tx[w].status, tx[w].wise, transfer[w], debited[w])
  BY <1>4, AllFit
<1>6. Fits(ent.status, ent.wise, transfer[w], debited[w]) /\ ent.status \notin Active
  BY <1>3, <1>4, <1>5 DEF Fits, Active, Over
<1>7. "cancel" \in Op /\ "save" \in Label
  BY DEF Op, Label
<1> QED BY <1>3, <1>4, <1>6, <1>7, ByHandBegins

LEMMA CompleteByHand ==
  ASSUME ByHand, TypeOK, TypeOK', ByHandInv, NEW r \in Request, NEW w \in Withdrawal, Complete(r, w)
  PROVE  ByHandInv'
<1>1. PICK wise : wise = IF tx[w].wise = "none" THEN tx[w].wise ELSE "completed"
  OBVIOUS
<1>2. tx[w] \in Row /\ transfer[w] \in Transfer
  BY ByHandFacts
<1>3. PICK ent : ent = [tx[w] EXCEPT !.status = "COMPLETED", !.wise = wise]
  OBVIOUS
<1>4. ent \in Row /\ ent.status = "COMPLETED" /\ ent.wise = wise /\ ent.amount = tx[w].amount
  BY <1>1, <1>2, <1>3 DEF Row, Status, WiseStatus, Transfer
<1>5. PICK own \in SUBSET {"status", "wise"} :
        own = {"status"} \cup (IF tx[w].wise = "none" THEN {} ELSE {"wise"})
  OBVIOUS
<1>6. /\ Begins(r, "complete", w, "wallet", ent, own, "wise") /\ call[r].at # "save"
      /\ tx[w].status \in Active /\ transfer[w] \in {"none"} \cup Over
      /\ UNCHANGED <<tx, balance, transfer, seen, stripe, debited, faults>>
  BY <1>1, <1>3, <1>5, SettingAssumption DEF Complete, ByHand, Begins, InFlight, Over
<1>7. Fits(tx[w].status, tx[w].wise, transfer[w], debited[w])
  BY <1>6, AllFit
<1>8. Fits(ent.status, ent.wise, transfer[w], 1) /\ News(w)
  BY <1>1, <1>4, <1>6, <1>7 DEF Fits, Active, Over, News
<1>9. "wise" \notin own => ent.wise = tx[w].wise
  BY <1>1, <1>4, <1>5
<1>10. "complete" \in Op /\ "wallet" \in Label
  BY DEF Op, Label
<1> QED BY <1>4, <1>6, <1>8, <1>9, <1>10, ByHandBegins
LEMMA ReportByHand ==
  ASSUME ByHand, TypeOK, TypeOK', ByHandInv, NEW r \in Request, NEW w \in Withdrawal, Report(r, w)
  PROVE  ByHandInv'
<1> DEFINE ent(status, wise) == [tx[w] EXCEPT !.status = status, !.wise = wise]
<1>1. tx[w] \in Row /\ transfer[w] \in Transfer /\ tx[w].wise # "none"
  BY ByHandFacts DEF Report, ReportProgress, ReportSent, ReportReturned, ReportProblem, Known
<1>2. ASSUME NEW status \in Status, NEW wise \in WiseStatus
      PROVE  /\ ent(status, wise) \in Row /\ ent(status, wise).status = status
             /\ ent(status, wise).wise = wise /\ ent(status, wise).amount = tx[w].amount
  BY <1>1 DEF Row
<1>3. /\ "webhook" \in Op /\ "save" \in Label /\ "debit" \in Label
      /\ "PROCESSING" \in Status /\ "COMPLETED" \in Status /\ "FAILED" \in Status
      /\ "returned" \in WiseStatus /\ "problem" \in WiseStatus
      /\ {"waiting", "processing", "sent", "completed"} \subseteq WiseStatus
      /\ {"status", "wise"} \in SUBSET {"status", "wise"}
  BY DEF Op, Label, Status, WiseStatus, Transfer
<1>4. Reportable(w) \subseteq {transfer[w]}
  BY DEF Reportable, ByHand
<1>5. ASSUME call[r].at = "idle"
      PROVE  Fits(tx[w].status, tx[w].wise, transfer[w], debited[w])
  BY <1>5, AllFit
<1>6. CASE ReportProgress(r, w)
  <2>1. PICK state \in Reportable(w) \cap {"waiting", "processing"} :
          Begins(r, "webhook", w, "save", ent("PROCESSING", state), {"status", "wise"}, "wise")
    BY <1>6 DEF ReportProgress
  <2>2. call[r].at = "idle" /\ UNCHANGED <<tx, balance, transfer, seen, stripe, debited, faults>>
    BY <1>6, <2>1 DEF ReportProgress, Begins, InFlight
  <2>3. transfer[w] = state
    BY <1>4
  <2>4. Fits("PROCESSING", state, transfer[w], debited[w]) /\ tx[w].status \in Active
        /\ tx[w].status # "absent"
    BY <1>5, <2>2, <2>3 DEF Fits, Active, Over
  <2>5. PICK e \in Row : e = ent("PROCESSING", state)
    BY <1>2, <1>3
  <2>6. e.status = "PROCESSING" /\ e.wise = state /\ e.amount = tx[w].amount
    BY <1>1, <1>3, <2>5 DEF Row
  <2> HIDE DEF ent
  <2> QED BY <1>3, <2>1, <2>2, <2>4, <2>5, <2>6, ByHandBegins
<1>7. CASE ReportSent(r, w)
  <2>1. PICK state \in Reportable(w) \cap Finals :
          Begins(r, "webhook", w, IF Finalized(tx[w]) THEN "save" ELSE "debit",
                 ent("COMPLETED", state), {"status", "wise"}, "wise")
    BY <1>7 DEF ReportSent
  <2>2. call[r].at = "idle" /\ UNCHANGED <<tx, balance, transfer, seen, stripe, debited, faults>>
    BY <1>7, <2>1 DEF ReportSent, Begins, InFlight
  <2>3. transfer[w] = state /\ state \in Over
    BY <1>4, SettingAssumption DEF Over
  <2>4. PICK e \in Row : e = ent("COMPLETED", state)
    BY <1>2, <1>3, <2>3 DEF Over
  <2>5. e.status = "COMPLETED" /\ e.wise = state /\ e.amount = tx[w].amount
    BY <1>1, <1>3, <2>3, <2>4 DEF Row, Over
  <2> HIDE DEF ent
  <2>6. CASE Finalized(tx[w])
    <3>1. Fits(e.status, e.wise, transfer[w], debited[w]) /\ tx[w].status # "absent"
          /\ e.status \notin Active
      BY <1>5, <2>2, <2>3, <2>5, <2>6 DEF Fits, Active, Finalized, Over
    <3>2. Begins(r, "webhook", w, "save", e, {"status", "wise"}, "wise")
      BY <2>1, <2>4, <2>6
    <3> QED BY <1>3, <2>2, <3>1, <3>2, ByHandBegins
  <2>7. CASE ~Finalized(tx[w])
    <3>1. Fits(e.status, e.wise, transfer[w], 1) /\ News(w)
      BY <1>5, <2>2, <2>3, <2>5, <2>7 DEF Fits, Active, Finalized, Over, News
    <3>2. Begins(r, "webhook", w, "debit", e, {"status", "wise"}, "wise")
      BY <2>1, <2>4, <2>7
    <3> QED BY <1>3, <2>2, <2>5, <3>1, <3>2, ByHandBegins
  <2> QED BY <2>6, <2>7
<1>8. CASE ReportReturned(r, w)
  <2>1. /\ Begins(r, "webhook", w, "save", ent("FAILED", "returned"), {"status", "wise"}, "wise")
        /\ transfer[w] = "returned" /\ UNCHANGED <<tx, balance, transfer, seen, stripe, debited, faults>>
    BY <1>4, <1>8 DEF ReportReturned
  <2>2. call[r].at = "idle"
    BY <2>1 DEF Begins, InFlight
  <2>3. PICK e \in Row : e = ent("FAILED", "returned")
    BY <1>2, <1>3
  <2>4. e.status = "FAILED" /\ e.wise = "returned"
    BY <1>2, <1>3, <2>3
  <2>5. Fits(e.status, e.wise, transfer[w], debited[w]) /\ tx[w].status # "absent"
        /\ e.status \notin Active
    BY <1>1, <1>5, <2>1, <2>2, <2>4 DEF Fits, Active, Over
  <2> HIDE DEF ent
  <2> QED BY <1>3, <2>1, <2>3, <2>5, ByHandBegins
<1>9. CASE ReportProblem(r, w)
  <2>1. /\ Begins(r, "webhook", w, "save", ent("PROCESSING", "problem"), {"status", "wise"}, "wise")
        /\ transfer[w] = "processing" /\ UNCHANGED <<tx, balance, transfer, seen, stripe, debited, faults>>
    BY <1>4, <1>9 DEF ReportProblem
  <2>2. call[r].at = "idle"
    BY <2>1 DEF Begins, InFlight
  <2>3. PICK e \in Row : e = ent("PROCESSING", "problem")
    BY <1>2, <1>3
  <2>4. e.status = "PROCESSING" /\ e.wise = "problem"
    BY <1>2, <1>3, <2>3
  <2>5. Fits(e.status, e.wise, transfer[w], debited[w]) /\ tx[w].status \in Active
        /\ tx[w].status # "absent"
    BY <1>5, <2>1, <2>2, <2>4 DEF Fits, Active, Over
  <2> HIDE DEF ent
  <2> QED BY <1>3, <2>1, <2>3, <2>5, ByHandBegins
<1> QED BY <1>6, <1>7, <1>8, <1>9 DEF Report

\* A call is over.
LEMMA ByHandEnds ==
  ASSUME ByHand, TypeOK, TypeOK', ByHandInv, NEW r \in Request, Goto(r, "idle"), call[r].at # "save",
         UNCHANGED <<tx, balance, transfer, seen, stripe, debited, faults>>
  PROVE  ByHandInv'
<1>1. call' = [call EXCEPT ![r] = NoCall]
  BY DEF Goto
<1> QED BY <1>1, KnowsNothing, ByHandGoesOn

\* The looks at the user's other withdrawals and at his balance, and the row before
\* it is sent.
LEMMA LooksByHand ==
  ASSUME ByHand, TypeOK, TypeOK', ByHandInv, NEW r \in Request,
         CheckActive(r) \/ CheckBalance(r) \/ LoadPending(r) \/ ReadWallet(r)
  PROVE  ByHandInv'
<1>1. PICK c \in Call : c = call[r]
  BY CallTyped
<1>2. Knows(c) /\ c.w \in Withdrawal
  BY <1>1, CallTyped DEF ByHandInv
<1>3. /\ UNCHANGED <<tx, balance, transfer, seen, stripe, debited, faults>>
      /\ tx' = tx /\ balance' = balance /\ transfer' = transfer /\ debited' = debited
  BY DEF CheckActive, CheckBalance, LoadPending, ReadWallet
<1>4. CASE CheckActive(r)
  <2>1. c.at = "active"
    BY <1>1, <1>4 DEF CheckActive
  <2>2. CASE \E w \in Withdrawal : tx[w].status \in Active
    <3>1. Goto(r, "idle") /\ call[r].at # "save"
      BY <1>1, <1>4, <2>1, <2>2 DEF CheckActive
    <3> QED BY <1>3, <3>1, ByHandEnds
  <2>3. CASE ~\E w \in Withdrawal : tx[w].status \in Active
    <3>1. PICK new : new = [c EXCEPT !.at = "balance"]
      OBVIOUS
    <3>2. call' = [call EXCEPT ![r] = new]
      BY <1>1, <1>4, <2>3, <3>1 DEF CheckActive, Goto
    <3>3. new.at = "balance" /\ new.w = c.w /\ new.ent = c.ent /\ new.method = c.method
      BY <3>1 DEF Call
    <3>4. Knows(new)'
      BY <1>2, <1>3, <2>1, <2>3, <3>3 DEF Knows
    <3> QED BY <1>1, <1>3, <2>1, <3>2, <3>4, ByHandGoesOn
  <2> QED BY <2>2, <2>3
<1>5. CASE CheckBalance(r)
  <2>1. c.at = "balance"
    BY <1>1, <1>5 DEF CheckBalance
  <2>2. CASE balance < c.ent.amount
    <3>1. Goto(r, "idle") /\ call[r].at # "save"
      BY <1>1, <1>5, <2>1, <2>2 DEF CheckBalance
    <3> QED BY <1>3, <3>1, ByHandEnds
  <2>3. CASE ~(balance < c.ent.amount)
    <3>1. PICK new : new = [c EXCEPT !.at = "insert"]
      OBVIOUS
    <3>2. call' = [call EXCEPT ![r] = new]
      BY <1>1, <1>5, <2>3, <3>1 DEF CheckBalance, Goto
    <3>3. new.at = "insert" /\ new.w = c.w /\ new.ent = c.ent /\ new.method = c.method
      BY <3>1 DEF Call
    <3>4. c.ent.amount \in Nat /\ balance \in Nat
      BY <1>1, CallTyped DEF TypeOK
    <3>5. c.ent.amount <= balance
      BY <2>3, <3>4
    <3>6. Knows(new)'
      BY <1>2, <1>3, <2>1, <3>3, <3>5 DEF Knows
    <3> QED BY <1>1, <1>3, <2>1, <3>2, <3>6, ByHandGoesOn
  <2> QED BY <2>2, <2>3
<1>6. CASE LoadPending(r)
  <2>1. c.at = "load"
    BY <1>1, <1>6 DEF LoadPending
  <2>2. CASE tx[c.w].status # "PENDING"
    <3>1. call' = [call EXCEPT ![r] = NoCall]
      BY <1>1, <1>6, <2>2 DEF LoadPending
    <3> QED BY <1>1, <1>3, <2>1, <3>1, KnowsNothing, ByHandGoesOn
  <2>3. CASE tx[c.w].status = "PENDING"
    <3>1. PICK new : new = [c EXCEPT !.at = "send", !.ent = tx[c.w]]
      OBVIOUS
    <3>2. call' = [call EXCEPT ![r] = new]
      BY <1>1, <1>6, <2>3, <3>1 DEF LoadPending
    <3>3. new.at = "send" /\ new.w = c.w /\ new.ent = tx[c.w] /\ new.method = c.method
      BY <3>1 DEF Call
    <3>4. Knows(new)'
      BY <1>2, <1>3, <2>1, <2>3, <3>3 DEF Knows
    <3> QED BY <1>1, <1>3, <2>1, <3>2, <3>4, ByHandGoesOn
  <2> QED BY <2>2, <2>3
<1>7. CASE ReadWallet(r)
  <2>1. PICK new : new = [c EXCEPT !.at = "debit", !.wallet = balance]
    OBVIOUS
  <2>2. call' = [call EXCEPT ![r] = new] /\ c.at = "wallet"
    BY <1>1, <1>7, <2>1 DEF ReadWallet
  <2>3. /\ new.at = "debit" /\ new.w = c.w /\ new.ent = c.ent /\ new.own = c.own
        /\ new.wallet = balance
    BY <2>1 DEF Call
  <2>5. News(c.w)' <=> News(c.w)
    BY <1>3 DEF News
  <2>4. Knows(new)'
    BY <1>2, <1>3, <2>2, <2>3, <2>5 DEF Knows
  <2> QED BY <1>1, <1>3, <2>2, <2>4, ByHandGoesOn
<1> QED BY <1>4, <1>5, <1>6, <1>7
\* A call writes to its own withdrawal.
LEMMA ByHandWrites ==
  ASSUME ByHand, TypeOK, TypeOK', ByHandInv, NEW r \in Request, NEW new,
         call' = [call EXCEPT ![r] = new], Knows(new)',
         NEW w \in Withdrawal, call[r].w = w, stripe' = stripe,
         \A v \in Withdrawal : v # w =>
           tx'[v] = tx[v] /\ transfer'[v] = transfer[v] /\ debited'[v] = debited[v],
         \/ Fits(tx'[w].status, tx'[w].wise, transfer'[w], debited'[w])
         \/ new.at = "save" /\ new.w = w,
         tx'[w].status \in Active =>
           tx[w].status \in Active \/ \A v \in Withdrawal : tx[v].status \notin Active,
         tx'[w].status \in Active /\ debited'[w] = 0 =>
           tx'[w].amount + Total(Debits, Withdrawal)' <= Funds,
         \/ Total(Debits, Withdrawal)' = Total(Debits, Withdrawal)
         \/ tx[w].status \in Active,
         balance' + Total(Debits, Withdrawal)' <= Funds,
         DebitedOnce' => balance' + Total(Debits, Withdrawal)' = Funds
  PROVE  ByHandInv'
<1>1. \A q \in Request : Knows(call[q])'
  BY DEF ByHand, TypeOK
<1>2. ASSUME NEW v \in Withdrawal, v # w
      PROVE  /\ Fits(tx'[v].status, tx'[v].wise, transfer'[v], debited'[v])
             /\ tx'[v].status \in Active /\ debited'[v] = 0 =>
                  tx'[v].amount + Total(Debits, Withdrawal)' <= Funds
  <2>1. ~Saving(v)
    BY <1>2, SavingIs
  <2>2. \/ Total(Debits, Withdrawal)' = Total(Debits, Withdrawal)
        \/ tx[v].status \notin Active
    BY <1>2 DEF ByHandInv, OneActive
  <2> QED BY <1>2, <2>1, <2>2, ByHandFacts
<1>3. \/ Saving(w)'
      \/ Fits(tx'[w].status, tx'[w].wise, transfer'[w], debited'[w])
  BY SavingWill
<1>4. \A v \in Withdrawal :
        Saving(v)' \/ Fits(tx'[v].status, tx'[v].wise, transfer'[v], debited'[v])
  BY <1>2, <1>3
<1>5. \A v \in Withdrawal : tx'[v].status \in Active =>
        \/ tx[v].status \in Active
        \/ v = w /\ \A u \in Withdrawal : tx[u].status \notin Active
  OBVIOUS
<1>6. OneActive'
  BY <1>5 DEF ByHandInv, OneActive
<1>7. \A v \in Withdrawal : tx'[v].status \in Active /\ debited'[v] = 0 =>
        tx'[v].amount + Total(Debits, Withdrawal)' <= Funds
  BY <1>2
<1>8. \A v \in Withdrawal : stripe'[v] = 0
  BY DEF ByHandInv
<1> QED BY <1>1, <1>4, <1>6, <1>7, <1>8 DEF ByHandInv

\* The new withdrawal is the only active one, and the wallet holds its amount.
LEMMA InsertByHand ==
  ASSUME ByHand, TypeOK, TypeOK', ByHandInv, NEW r \in Request, Insert(r)
  PROVE  ByHandInv'
<1>1. PICK c \in Call : c = call[r]
  BY CallTyped
<1>2. PICK w \in Withdrawal : w = c.w
  BY <1>1, CallTyped
<1>3. Knows(c)
  BY <1>1 DEF ByHandInv
<1>4. /\ c.at = "insert" /\ tx' = [tx EXCEPT ![w] = c.ent]
      /\ balance' = balance /\ transfer' = transfer /\ stripe' = stripe /\ debited' = debited
      /\ Goto(r, IF c.ent.amount <= Threshold THEN "load" ELSE "idle")
  BY <1>1, <1>2 DEF Insert
<1>5. /\ tx[w].status = "absent" /\ c.ent.status = "PENDING" /\ c.ent.wise = "none"
      /\ \A v \in Withdrawal : tx[v].status \notin Active
      /\ c.ent.amount <= balance /\ c.method = "wise" /\ transfer[w] = "none"
  BY <1>2, <1>3, <1>4 DEF Knows
<1>6. Fits(tx[w].status, tx[w].wise, transfer[w], debited[w])
  BY <1>1, <1>4, AllFit
<1>7. debited[w] = 0
  BY <1>5, <1>6 DEF Fits
<1>8. tx'[w] = c.ent /\ \A v \in Withdrawal : v # w => tx'[v] = tx[v]
  BY <1>4 DEF TypeOK
<1>9. Fits(tx'[w].status, tx'[w].wise, transfer'[w], debited'[w])
  BY <1>4, <1>5, <1>7, <1>8 DEF Fits, Active, Over
<1>10. Total(Debits, Withdrawal)' = Total(Debits, Withdrawal)
  <2>1. \A v \in Withdrawal : Debits'[v] = Debits[v]
    BY <1>4, <1>7, <1>8 DEF Debits
  <2> QED BY <2>1, DebitsKept
<1>11. /\ balance' + Total(Debits, Withdrawal)' <= Funds
       /\ DebitedOnce' => balance' + Total(Debits, Withdrawal)' = Funds
  BY <1>4, <1>10 DEF ByHandInv, DebitedOnce
<1>12. PICK new : call' = [call EXCEPT ![r] = new] /\ Knows(new)'
  <2>1. CASE c.ent.amount <= Threshold
    <3>1. PICK new : new = [c EXCEPT !.at = "load"]
      OBVIOUS
    <3>2. call' = [call EXCEPT ![r] = new]
      BY <1>1, <1>4, <2>1, <3>1 DEF Goto
    <3>3. new.at = "load" /\ new.w = w /\ new.method = "wise"
      BY <1>2, <1>5, <3>1 DEF Call
    <3>4. Knows(new)'
      BY <1>4, <1>5, <3>3 DEF Knows
    <3> QED BY <3>2, <3>4
  <2>2. CASE ~(c.ent.amount <= Threshold)
    BY <1>4, <2>2, KnowsNothing DEF Goto
  <2> QED BY <2>1, <2>2
<1>13. tx'[w].status \in Active /\ debited'[w] = 0 =>
         tx'[w].amount + Total(Debits, Withdrawal)' <= Funds
  <2>1. c.ent.amount \in Nat /\ balance \in Nat /\ Funds \in Nat
        /\ Total(Debits, Withdrawal) \in Int
    BY <1>1, CallTyped, DebitsTyped, AmountAssumption DEF TypeOK, Row
  <2>2. c.ent.amount <= balance /\ balance + Total(Debits, Withdrawal) <= Funds
    BY <1>5 DEF ByHandInv
  <2>3. c.ent.amount + Total(Debits, Withdrawal) <= Funds
    BY <2>1, <2>2
  <2> QED BY <1>8, <1>10, <2>3
<1>14. call[r].w = w
  BY <1>1, <1>2
<1>15. \A v \in Withdrawal : v # w =>
         tx'[v] = tx[v] /\ transfer'[v] = transfer[v] /\ debited'[v] = debited[v]
  BY <1>4, <1>8
<1> QED BY <1>4, <1>5, <1>9, <1>10, <1>11, <1>12, <1>13, <1>14, <1>15, ByHandWrites
\* Wise makes the transfer and waits for its funds, or the payment is refused.
LEMMA SendingByHand ==
  ASSUME ByHand, TypeOK, TypeOK', ByHandInv, NEW r \in Request, Sending(r)
  PROVE  ByHandInv'
<1>1. PICK c \in Call : c = call[r]
  BY CallTyped
<1>2. PICK w \in Withdrawal : w = c.w
  BY <1>1, CallTyped
<1>3. Knows(c) /\ call[r].w = w
  BY <1>1, <1>2 DEF ByHandInv
<1>4. c.at = "send" /\ tx' = tx /\ balance' = balance /\ debited' = debited
  <2>1. CASE FundedAtOnce(r)
    BY <1>1, <2>1 DEF FundedAtOnce
  <2>2. CASE FundedByHand(r)
    BY <1>1, <2>2 DEF FundedByHand
  <2>3. CASE PaidByStripe(r)
    BY <1>1, <2>3 DEF PaidByStripe
  <2>4. CASE PaymentRefused(r)
    BY <1>1, <2>4 DEF PaymentRefused
  <2> QED BY <2>1, <2>2, <2>3, <2>4 DEF Sending
<1>5. c.method = "wise" /\ transfer[w] = "none" /\ c.ent = tx[w] /\ tx[w].status = "PENDING"
  BY <1>2, <1>3, <1>4 DEF Knows
<1>6. AutoFunded = {"connect"}
  BY DEF AutoFunded, ByHand
<1>7. Fits(tx[w].status, tx[w].wise, transfer[w], debited[w])
  BY <1>1, <1>4, AllFit
<1>8. debited[w] = 0 /\ tx[w].wise = "none"
  BY <1>5, <1>7 DEF Fits, Active
<1>9. FundedByHand(r) \/ PaymentRefused(r)
  BY <1>1, <1>4, <1>5, <1>6 DEF Sending, FundedAtOnce, PaidByStripe
<1>15. stripe' = stripe
  BY <1>9 DEF FundedByHand, PaymentRefused
<1>10. \A v \in Withdrawal : v # w =>
         tx'[v] = tx[v] /\ transfer'[v] = transfer[v] /\ debited'[v] = debited[v]
  <2>1. CASE FundedByHand(r)
    BY <1>1, <1>2, <1>4, <2>1 DEF FundedByHand, Moves, TypeOK
  <2>2. CASE PaymentRefused(r)
    BY <1>1, <1>2, <1>4, <2>2 DEF PaymentRefused, CreatedInVain, Moves, TypeOK
  <2> QED BY <1>9, <2>1, <2>2
<1>16. Total(Debits, Withdrawal)' = Total(Debits, Withdrawal)
  BY <1>4, DebitsKept DEF Debits
<1>11. tx'[w].status \in Active /\ debited'[w] = 0 =>
         tx'[w].amount + Total(Debits, Withdrawal)' <= Funds
  BY <1>4, <1>16, ByHandFacts
<1>12. /\ balance' + Total(Debits, Withdrawal)' <= Funds
       /\ DebitedOnce' => balance' + Total(Debits, Withdrawal)' = Funds
  BY <1>4, <1>16 DEF ByHandInv, DebitedOnce
<1>13. PICK new : call' = [call EXCEPT ![r] = new] /\ Knows(new)' /\ new.at = "save" /\ new.w = w
  <2>1. CASE FundedByHand(r)
    <3>1. transfer'[w] = "waiting"
      BY <1>1, <1>2, <1>5, <2>1 DEF FundedByHand, Moves, TypeOK
    <3>2. PICK new : new = [c EXCEPT !.at = "save", !.ent.status = "PENDING",
                                     !.ent.wise = "waiting", !.own = {"status", "wise"}]
      OBVIOUS
    <3>3. call' = [call EXCEPT ![r] = new]
      BY <1>1, <1>2, <1>5, <2>1, <3>2 DEF FundedByHand, Assigning
    <3>4. /\ new.at = "save" /\ new.w = w /\ new.own = {"status", "wise"}
          /\ new.ent.status = "PENDING" /\ new.ent.wise = "waiting"
      BY <1>2, <3>2 DEF Call, Row
    <3>5. Fits("PENDING", "waiting", "waiting", 0)
      BY DEF Fits, Active, Over
    <3>6. tx'[w].status = "PENDING" /\ "PENDING" \in Active /\ debited'[w] = 0
      BY <1>4, <1>5, <1>8 DEF Active
    <3>7. Knows(new)'
      BY <3>1, <3>4, <3>5, <3>6 DEF Knows
    <3> QED BY <3>3, <3>4, <3>7
  <2>2. CASE PaymentRefused(r)
    <3>1. transfer'[w] = "none"
      BY <1>1, <1>5, <1>6, <2>2 DEF PaymentRefused, CreatedInVain
    <3>2. PICK new : new = [c EXCEPT !.at = "save", !.ent.status = "FAILED",
                                     !.ent.wise = c.ent.wise, !.own = {"status"}]
      OBVIOUS
    <3>3. call' = [call EXCEPT ![r] = new]
      BY <1>1, <2>2, <3>2 DEF PaymentRefused, Assigning
    <3>4. /\ new.at = "save" /\ new.w = w /\ new.own = {"status"}
          /\ new.ent.status = "FAILED" /\ new.ent.wise = "none"
      BY <1>2, <1>5, <1>8, <3>2 DEF Call, Row
    <3>5. Fits("FAILED", "none", "none", 0) /\ "FAILED" \notin Active
      BY DEF Fits, Active, Over
    <3>6. tx'[w].status = "PENDING" /\ tx'[w].wise = "none" /\ debited'[w] = 0
      BY <1>4, <1>5, <1>8
    <3>7. Knows(new)'
      BY <3>1, <3>4, <3>5, <3>6 DEF Knows, Over
    <3> QED BY <3>3, <3>4, <3>7
  <2> QED BY <1>9, <2>1, <2>2
<1>14. tx'[w].status \in Active => tx[w].status \in Active
  BY <1>4
<1> QED BY <1>3, <1>4, <1>10, <1>11, <1>12, <1>13, <1>14, <1>15, <1>16, ByHandWrites

\* The wallet is debited for the first time, and holds the amount unless a withdrawal
\* was debited again; or it is debited again, and the sum of the debits stays.
LEMMA DebitByHand ==
  ASSUME ByHand, TypeOK, TypeOK', ByHandInv, NEW r \in Request, Debit(r)
  PROVE  ByHandInv'
<1>1. PICK c \in Call : c = call[r]
  BY CallTyped
<1>2. PICK w \in Withdrawal : w = c.w
  BY <1>1, CallTyped
<1>3. Knows(c) /\ call[r].w = w
  BY <1>1, <1>2 DEF ByHandInv
<1>4. /\ c.at = "debit" /\ tx' = tx /\ transfer' = transfer /\ stripe' = stripe
      /\ balance' = IF c.wallet > c.ent.amount THEN c.wallet - c.ent.amount ELSE 0
      /\ debited' = [debited EXCEPT ![w] = OneMore(@)]
  BY <1>1, <1>2 DEF Debit
<1>5. /\ c.ent.amount = tx[w].amount /\ c.wallet = balance
      /\ Fits(c.ent.status, c.ent.wise, transfer[w], 1) /\ c.ent.status = "COMPLETED"
      /\ "wise" \notin c.own => c.ent.wise = tx[w].wise
      /\ tx[w].status # "absent" /\ News(w)
  BY <1>2, <1>3, <1>4 DEF Knows
<1>6. Fits(tx[w].status, tx[w].wise, transfer[w], debited[w])
  BY <1>1, <1>4, AllFit
<1>7. debited[w] \in 0..2 /\ (debited[w] = 0 => tx[w].status \in Active)
  BY <1>5, <1>6 DEF Fits, News, Over
<1>8. PICK n \in Nat : n = tx[w].amount
  BY ByHandFacts
<1>9. PICK b \in Nat : b = balance
  BY DEF TypeOK
<1>10. PICK k \in Int : k = Total(Debits, Withdrawal)
  BY DebitsTyped
<1>11. balance' = IF b > n THEN b - n ELSE 0
  BY <1>4, <1>5, <1>8, <1>9
<1>12. /\ debited'[w] = IF debited[w] = 0 THEN 1 ELSE 2
       /\ \A v \in Withdrawal : v # w => debited'[v] = debited[v]
  BY <1>4, <1>7 DEF TypeOK, OneMore, Several
<1>13. /\ \A v \in Withdrawal : v # w => Debits'[v] = Debits[v]
       /\ Debits'[w] = n /\ Debits[w] = IF debited[w] = 0 THEN 0 ELSE n
  BY <1>4, <1>7, <1>8, <1>12 DEF Debits
<1>14. /\ b + k <= Funds /\ Funds \in Nat /\ (debited[w] = 0 => n + k <= Funds)
       /\ DebitedOnce => b + k = Funds
  BY <1>7, <1>8, <1>9, <1>10, ByHandFacts, AmountAssumption DEF ByHandInv
<1>21. ASSUME debited[w] = 0
       PROVE  /\ balance' + Total(Debits, Withdrawal)' <= Funds
              /\ DebitedOnce' => balance' + Total(Debits, Withdrawal)' = Funds
              /\ tx[w].status \in Active
  <2>1. PICK f : f = Debits
    OBVIOUS
  <2>2. PICK e : e = Debits'
    OBVIOUS
  <2>3. ASSUME NEW v \in Withdrawal
        PROVE  f[v] \in Int /\ e[v] \in Int /\ (v # w => e[v] = f[v])
    BY <1>13, <2>1, <2>2, DebitsTyped
  <2>4. Total(e, Withdrawal) = Total(f, Withdrawal) - f[w] + e[w]
    BY <2>3, TotalChange DEF ByHand
  <2>5. Total(Debits, Withdrawal)' = k + n
    BY <1>10, <1>13, <1>21, <2>1, <2>2, <2>4
  <2>6. DebitedOnce' => DebitedOnce
    BY <1>12, <1>21 DEF DebitedOnce
  <2>7. balance' + (k + n) <= Funds
    BY <1>11, <1>14, <1>21
  <2>8. DebitedOnce' => balance' + (k + n) = Funds
    BY <1>11, <1>14, <1>21, <2>6
  <2> QED BY <1>7, <1>21, <2>5, <2>7, <2>8
<1>22. ASSUME debited[w] # 0
       PROVE  /\ balance' + Total(Debits, Withdrawal)' <= Funds
              /\ DebitedOnce' => balance' + Total(Debits, Withdrawal)' = Funds
              /\ Total(Debits, Withdrawal)' = Total(Debits, Withdrawal)
  <2>1. \A v \in Withdrawal : Debits'[v] = Debits[v]
    BY <1>13, <1>22
  <2>2. Total(Debits, Withdrawal)' = k
    BY <1>10, <2>1, DebitsKept
  <2>3. ~DebitedOnce'
    BY <1>12, <1>22 DEF DebitedOnce
  <2>4. balance' + k <= Funds
    BY <1>11, <1>14
  <2> QED BY <1>10, <2>2, <2>3, <2>4
<1>15. PICK new : new = [c EXCEPT !.at = "save", !.wallet = NoWallet]
  OBVIOUS
<1>16. call' = [call EXCEPT ![r] = new]
  BY <1>1, <1>15 DEF Debit
<1>17. new.at = "save" /\ new.w = w /\ new.ent = c.ent /\ new.own = c.own
  BY <1>2, <1>15 DEF Call
<1>18. Knows(new)'
  <2>1. c.ent.status \notin Active
    BY <1>5 DEF Active
  <2>2. Fits(c.ent.status, c.ent.wise, transfer[w], debited'[w]) /\ debited'[w] # 0
    BY <1>5, <1>12 DEF Fits
  <2> QED BY <1>4, <1>5, <1>17, <2>1, <2>2 DEF Knows
<1>19. \A v \in Withdrawal : v # w =>
         tx'[v] = tx[v] /\ transfer'[v] = transfer[v] /\ debited'[v] = debited[v]
  BY <1>4, <1>12
<1>20. tx'[w].status \in Active /\ debited'[w] = 0 =>
         tx'[w].amount + Total(Debits, Withdrawal)' <= Funds
  BY <1>12
<1> QED BY <1>3, <1>4, <1>16, <1>17, <1>18, <1>19, <1>20, <1>21, <1>22, ByHandWrites
\* The row is saved as the call assigned it, or as it was.
LEMMA SaveByHand ==
  ASSUME ByHand, TypeOK, TypeOK', ByHandInv, NEW r \in Request, Save(r)
  PROVE  ByHandInv'
<1>1. PICK c \in Call : c = call[r]
  BY CallTyped
<1>2. PICK w \in Withdrawal : w = c.w
  BY <1>1, CallTyped
<1>3. Knows(c) /\ call[r].w = w
  BY <1>1, <1>2 DEF ByHandInv
<1>4. /\ c.at = "save" /\ balance' = balance /\ transfer' = transfer /\ stripe' = stripe
      /\ debited' = debited /\ Goto(r, "idle")
  BY <1>1 DEF Save
<1>5. /\ "wise" \notin c.own => c.ent.wise = tx[w].wise
      /\ Fits(c.ent.status, c.ent.wise, transfer[w], debited[w])
      /\ c.ent.status \in Active => tx[w].status \in Active
  BY <1>1, <1>2, <1>3, <1>4 DEF Knows
<1>6. tx' = [tx EXCEPT ![w] = [@ EXCEPT !.status = c.ent.status, !.wise = c.ent.wise]]
  BY <1>1, <1>2, <1>5 DEF Save
<1>7. /\ tx'[w] = [tx[w] EXCEPT !.status = c.ent.status, !.wise = c.ent.wise]
      /\ \A v \in Withdrawal : v # w => tx'[v] = tx[v]
  BY <1>6 DEF TypeOK
<1>8. tx'[w].status = c.ent.status /\ tx'[w].wise = c.ent.wise /\ tx'[w].amount = tx[w].amount
  BY <1>7, ByHandFacts DEF Row
<1>9. Total(Debits, Withdrawal)' = Total(Debits, Withdrawal)
  <2>1. \A v \in Withdrawal : Debits'[v] = Debits[v]
    BY <1>4, <1>7, <1>8 DEF Debits
  <2> QED BY <2>1, DebitsKept
<1>10. /\ balance' + Total(Debits, Withdrawal)' <= Funds
       /\ DebitedOnce' => balance' + Total(Debits, Withdrawal)' = Funds
  BY <1>4, <1>9 DEF ByHandInv, DebitedOnce
<1>11. call' = [call EXCEPT ![r] = NoCall] /\ Knows(NoCall)'
  BY <1>4, KnowsNothing DEF Goto
<1>12. Fits(tx'[w].status, tx'[w].wise, transfer'[w], debited'[w])
  BY <1>4, <1>5, <1>8
<1>13. tx'[w].status \in Active => tx[w].status \in Active
  BY <1>5, <1>8
<1>14. tx'[w].status \in Active /\ debited'[w] = 0 =>
         tx'[w].amount + Total(Debits, Withdrawal)' <= Funds
  BY <1>4, <1>8, <1>9, <1>13, ByHandFacts
<1>15. \A v \in Withdrawal : v # w =>
         tx'[v] = tx[v] /\ transfer'[v] = transfer[v] /\ debited'[v] = debited[v]
  BY <1>4, <1>7
<1> QED BY <1>3, <1>4, <1>9, <1>10, <1>11, <1>12, <1>13, <1>14, <1>15, ByHandWrites

\* What Wise does leaves every row, and every call, in step with its transfer.
LEMMA MovesByHand ==
  ASSUME ByHand, TypeOK, TypeOK', ByHandInv, NEW w \in Withdrawal, NEW state,
         Moves(w, state), transfer[w] # "none", state # "none",
         \A s, o, d : Fits(s, o, transfer[w], d) => Fits(s, o, state, d),
         state \in {"waiting", "processing"} \cup Over =>
           transfer[w] \in {"waiting", "processing"} \cup Over,
         UNCHANGED <<tx, balance, stripe, debited, call>>
  PROVE  ByHandInv'
<1>1. tx' = tx /\ balance' = balance /\ stripe' = stripe /\ debited' = debited /\ call' = call
  OBVIOUS
<1>2. transfer'[w] = state /\ \A v \in Withdrawal : v # w => transfer'[v] = transfer[v]
  BY DEF Moves, TypeOK
<1>3. ASSUME NEW v \in Withdrawal, NEW s, NEW o, NEW d, Fits(s, o, transfer[v], d)
      PROVE  Fits(s, o, transfer'[v], d)
  BY <1>2, <1>3
<1>4. ASSUME NEW q \in Request PROVE Knows(call[q])'
  <2>1. PICK c \in Call : c = call[q]
    BY CallTyped
  <2>2. PICK v \in Withdrawal : v = c.w
    BY <2>1, CallTyped
  <2>3. Knows(c)
    BY <2>1 DEF ByHandInv
  <2>4. transfer[v] = "none" => transfer'[v] = "none"
    BY <1>2
  <2>5. transfer'[v] \in {"waiting", "processing"} \cup Over =>
          transfer[v] \in {"waiting", "processing"} \cup Over
    BY <1>2
  <2>8. News(v)' <=> News(v)
    BY <1>1 DEF News
  <2>6. /\ Fits(c.ent.status, c.ent.wise, transfer[v], 1) =>
             Fits(c.ent.status, c.ent.wise, transfer'[v], 1)
        /\ Fits(c.ent.status, c.ent.wise, transfer[v], debited[v]) =>
             Fits(c.ent.status, c.ent.wise, transfer'[v], debited[v])
    BY <1>3
  <2>7. Knows(c)'
    BY <1>1, <2>2, <2>3, <2>4, <2>5, <2>6, <2>8 DEF Knows
  <2> QED BY <1>1, <2>1, <2>7
<1>5. ASSUME NEW v \in Withdrawal
      PROVE  Saving(v)' \/ Fits(tx'[v].status, tx'[v].wise, transfer'[v], debited'[v])
  BY <1>1, <1>3, ByHandFacts DEF Saving
<1>6. Debits' = Debits
  BY <1>1 DEF Debits
<1> QED BY <1>1, <1>4, <1>5, <1>6 DEF ByHandInv, OneActive, DebitedOnce

LEMMA WiseByHand ==
  ASSUME ByHand, TypeOK, TypeOK', ByHandInv, NEW w \in Withdrawal,
         FundByHand(w) \/ Send(w) \/ Return(w)
  PROVE  ByHandInv'
<1>1. UNCHANGED <<tx, balance, stripe, debited, call>>
  BY DEF FundByHand, Send, Return
<1>2. Finals \subseteq Over
  BY SettingAssumption DEF Over
<1>3. CASE FundByHand(w)
  <2>1. transfer[w] = "waiting" /\ Moves(w, "processing")
    BY <1>3 DEF FundByHand
  <2>2. \A s, o, d : Fits(s, o, "waiting", d) => Fits(s, o, "processing", d)
    BY DEF Fits, Over
  <2> QED BY <1>1, <2>1, <2>2, MovesByHand
<1>4. CASE Send(w)
  <2>1. PICK state \in Over : transfer[w] \in {"processing", "sent"} /\ Moves(w, state)
    BY <1>2, <1>4 DEF Send
  <2>2. \A s, o, d : Fits(s, o, transfer[w], d) => Fits(s, o, state, d)
    BY <2>1 DEF Fits, Over
  <2> QED BY <1>1, <2>1, <2>2, MovesByHand DEF Over
<1>5. CASE Return(w)
  <2>1. transfer[w] \in {"waiting", "processing"} \cup Over /\ Moves(w, "returned")
    BY <1>2, <1>5 DEF Return
  <2>2. \A s, o, d : Fits(s, o, transfer[w], d) => Fits(s, o, "returned", d)
    BY <2>1 DEF Fits, Active, Over
  <2>3. transfer[w] # "none"
    BY <2>1 DEF Over
  <2> QED BY <1>1, <2>1, <2>2, <2>3, MovesByHand DEF Over
<1> QED BY <1>3, <1>4, <1>5

LEMMA NextByHand ==
  ASSUME ByHand, TypeOK, TypeOK', ByHandInv, [Next]_vars
  PROVE  ByHandInv'
<1>1. CASE UNCHANGED vars
  <2>1. /\ tx' = tx /\ balance' = balance /\ transfer' = transfer /\ stripe' = stripe
        /\ debited' = debited /\ call' = call /\ Debits' = Debits
    BY <1>1 DEF vars, Debits
  <2>2. \A q \in Request : Knows(call[q])'
    BY <2>1 DEF ByHandInv, Knows, News
  <2> QED BY <2>1, <2>2 DEF ByHandInv, OneActive, Saving, DebitedOnce
<1>2. ASSUME NEW r \in Request, NEW w \in Withdrawal,
             \/ \E m \in Methods : Approve(r, w, m) \/ \E a \in Amounts : Create(r, w, a, m)
             \/ Cancel(r, w) \/ Complete(r, w) \/ Report(r, w)
      PROVE  ByHandInv'
  BY <1>2, CreateByHand, ApproveByHand, CancelByHand, CompleteByHand, ReportByHand
<1>3. ASSUME NEW r \in Request, Progress(r) PROVE ByHandInv'
  BY <1>3, LooksByHand, InsertByHand, SendingByHand, DebitByHand, SaveByHand DEF Progress
<1>4. ~Fault
  BY SettingAssumption DEF Fault, ByHand, TypeOK
<1>5. ASSUME NEW w \in Withdrawal, FundByHand(w) \/ Send(w) \/ Return(w) PROVE ByHandInv'
  BY <1>5, WiseByHand
<1> QED BY <1>1, <1>2, <1>3, <1>4, <1>5 DEF Next, FundingUnanswered, StripeUnanswered, Crash

LEMMA ByHandInit == ASSUME ByHand, Init PROVE ByHandInv
<1>1. PICK f : f = Debits
  OBVIOUS
<1>2. PICK z : z = [w \in Withdrawal |-> 0]
  OBVIOUS
<1>3. \A w \in Withdrawal : f[w] = 0 /\ f[w] \in Int
  BY <1>1 DEF Init, Debits
<1>4. Total(f, Withdrawal) = 0
  BY <1>3, TotalZero DEF ByHand
<1>5. \A q \in Request : call[q] = NoCall /\ NoCall.at = "idle"
  BY DEF Init, NoCall
<1>6. \A q \in Request : Knows(call[q])
  BY <1>5 DEF Knows
<1>7. \A w \in Withdrawal : Fits(tx[w].status, tx[w].wise, transfer[w], debited[w])
  BY DEF Init, NoRow, Fits, Active, Over
<1>8. \A w \in Withdrawal : tx[w].status \notin Active
  BY DEF Init, NoRow, Active
<1>9. balance + Total(Debits, Withdrawal) = Funds /\ Funds <= Funds
  BY <1>1, <1>4, AmountAssumption DEF Init
<1>10. \A w \in Withdrawal : stripe[w] = 0
  BY DEF Init
<1> QED BY <1>6, <1>7, <1>8, <1>9, <1>10 DEF ByHandInv, OneActive
LEMMA ByHandAlways == ASSUME ByHand PROVE Spec => []ByHandInv
<1>1. Init => ByHandInv
  BY ByHandInit
<1>2. TypeOK /\ TypeOK' /\ ByHandInv /\ [Next]_vars => ByHandInv'
  BY NextByHand
<1> QED BY <1>1, <1>2, TypeCorrect, PTL DEF Spec

\* What a withdrawal and its transfer have come to, whether or not it is being saved.
LEMMA PaidIsDebited ==
  ASSUME TypeOK, ByHandInv, NEW w \in Withdrawal, transfer[w] \in Over, debited[w] = 0
  PROVE  tx[w].status \in Active
<1>1. CASE Saving(w)
  <2>1. PICK r \in Request : call[r].at = "save" /\ call[r].w = w
    BY <1>1 DEF Saving
  <2>2. Knows(call[r])
    BY DEF ByHandInv
  <2> QED BY <2>1, <2>2 DEF Knows
<1>2. CASE ~Saving(w)
  BY <1>2, ByHandFacts DEF Fits, Over
<1> QED BY <1>1, <1>2

\* The sum the properties speak of is the sum of a function.
LEMMA SumOfDebits ==
  ASSUME TypeOK, ByHand
  PROVE  Withdrawn = Total(Debits, Withdrawal)
<1>1. PICK f : f = Debits
  OBVIOUS
<1>2. \A w \in Withdrawal : f[w] = IF debited[w] > 0 THEN tx[w].amount ELSE 0
  BY <1>1 DEF Debits
<1>3. IsFiniteSet(Withdrawal) /\ \A w \in Withdrawal : f[w] \in Int
  BY <1>1, DebitsTyped DEF ByHand
<1>4. PICK g : Sums(g, f, Withdrawal) /\ \A T \in SUBSET Withdrawal : Total(f, T) = g[T]
  BY <1>3, TotalIsSum
<1>5. g = [s \in SUBSET Withdrawal |->
             IF s = {} THEN 0
             ELSE (IF debited[Taken(s)] > 0 THEN tx[Taken(s)].amount ELSE 0) + g[s \ {Taken(s)}]]
  BY <1>2, <1>4, TakenIs DEF Sums
<1>6. \E h : h = [s \in SUBSET Withdrawal |->
             IF s = {} THEN 0
             ELSE (IF debited[Taken(s)] > 0 THEN tx[Taken(s)].amount ELSE 0) + h[s \ {Taken(s)}]]
  BY <1>5
<1>7. PICK h :
        /\ h = [s \in SUBSET Withdrawal |->
             IF s = {} THEN 0
             ELSE (IF debited[Taken(s)] > 0 THEN tx[Taken(s)].amount ELSE 0) + h[s \ {Taken(s)}]]
        /\ Withdrawn = h[Withdrawal]
  BY <1>6 DEF Withdrawn, MapThenSumSet, MapThenFoldSet, Taken
<1>8. Sums(h, f, Withdrawal)
  BY <1>2, <1>7, TakenIs DEF Sums
<1>9. Withdrawal \in SUBSET Withdrawal /\ Withdrawal \in SUBSET (Withdrawal \cap Withdrawal)
      /\ \A w \in Withdrawal : f[w] = f[w]
  OBVIOUS
<1>10. h[Withdrawal] = g[Withdrawal]
  BY <1>3, <1>4, <1>8, <1>9, SumsUnique
<1> QED BY <1>1, <1>4, <1>7, <1>9, <1>10

\* What was paid for a withdrawal.
Payments == [w \in Withdrawal |-> Paid(w) * tx[w].amount]

LEMMA SumOfPayments ==
  ASSUME TypeOK, IsFiniteSet(Withdrawal)
  PROVE  /\ \A w \in Withdrawal : Payments[w] \in Int
         /\ MapThenSumSet(LAMBDA w : Paid(w) * tx[w].amount, Withdrawal) = Total(Payments, Withdrawal)
<1>1. PICK f : f = Payments
  OBVIOUS
<1>2. \A w \in Withdrawal : f[w] = Paid(w) * tx[w].amount
  BY <1>1 DEF Payments
<1>3. ASSUME NEW w \in Withdrawal PROVE f[w] \in Int
  <2>1. Paid(w) \in Int /\ tx[w].amount \in Int
    BY DEF TypeOK, Row, Several, Paid
  <2>2. Paid(w) * tx[w].amount \in Int
    BY <2>1
  <2> QED BY <1>2, <2>2
<1>4. PICK g : Sums(g, f, Withdrawal) /\ \A T \in SUBSET Withdrawal : Total(f, T) = g[T]
  BY <1>3, TotalIsSum
<1>5. g = [s \in SUBSET Withdrawal |->
             IF s = {} THEN 0 ELSE Paid(Taken(s)) * tx[Taken(s)].amount + g[s \ {Taken(s)}]]
  BY <1>2, <1>4, TakenIs DEF Sums
<1>6. \E h : h = [s \in SUBSET Withdrawal |->
             IF s = {} THEN 0 ELSE Paid(Taken(s)) * tx[Taken(s)].amount + h[s \ {Taken(s)}]]
  BY <1>5
<1>7. PICK h : /\ h = [s \in SUBSET Withdrawal |->
                       IF s = {} THEN 0
                       ELSE Paid(Taken(s)) * tx[Taken(s)].amount + h[s \ {Taken(s)}]]
               /\ MapThenSumSet(LAMBDA w : Paid(w) * tx[w].amount, Withdrawal) = h[Withdrawal]
  BY <1>6 DEF MapThenSumSet, MapThenFoldSet, Taken
<1>8. Sums(h, f, Withdrawal)
  BY <1>2, <1>7, TakenIs DEF Sums
<1>9. Withdrawal \in SUBSET Withdrawal /\ Withdrawal \in SUBSET (Withdrawal \cap Withdrawal)
      /\ \A w \in Withdrawal : f[w] = f[w]
  OBVIOUS
<1>10. h[Withdrawal] = g[Withdrawal]
  BY <1>4, <1>8, <1>9, SumsUnique
<1> QED BY <1>1, <1>3, <1>4, <1>7, <1>9, <1>10

(* Paid by hand, a user has one withdrawal on its way at a time            *)
(* (createWithdrawal: "Un retrait est deja en cours de traitement").       *)
THEOREM OneAtATime == ASSUME ByHand PROVE Spec => []OneActive
<1>1. ByHandInv => OneActive
  BY DEF ByHandInv
<1> QED BY <1>1, ByHandAlways, PTL

\* Whatever says that the money was sent, the transfer was sent; and what was debited
\* twice, or is about to be, was said to be sent.
SentInv ==
  /\ \A w \in Withdrawal :
       transfer[w] = "sent" \/ tx[w].wise = "sent" \/ debited[w] > 1 => "sent" \in seen[w]
  /\ \A r \in Request :
       call[r].at # "idle" /\ call[r].ent.wise = "sent" => "sent" \in seen[call[r].w]

LEMMA SentAgain ==
  ASSUME TypeOK, ByHand, ByHandInv, SentInv, NEW r \in Request, call[r].at = "debit",
         NEW w \in Withdrawal, w = call[r].w, debited[w] # 0
  PROVE  "sent" \in seen[w]
<1>1. Fits(tx[w].status, tx[w].wise, transfer[w], debited[w])
  BY AllFit
<1>2. News(w)
  BY DEF ByHandInv, Knows
<1>3. tx[w].wise = "sent"
  BY <1>1, <1>2 DEF News, Fits
<1> QED BY <1>3 DEF SentInv

\* What is seen stays seen, and a transfer that is sent is seen.
LEMMA SeenStays ==
  ASSUME TypeOK, [Next]_vars
  PROVE  \A w \in Withdrawal :
           /\ "sent" \in seen[w] => "sent" \in seen'[w]
           /\ transfer'[w] = "sent" => transfer[w] = "sent" \/ "sent" \in seen'[w]
<1>1. ASSUME NEW w \in Withdrawal, NEW state, Moves(w, state)
      PROVE  \A v \in Withdrawal :
               /\ "sent" \in seen[v] => "sent" \in seen'[v]
               /\ transfer'[v] = "sent" => transfer[v] = "sent" \/ "sent" \in seen'[v]
  BY <1>1 DEF Moves, TypeOK
<1>2. ASSUME UNCHANGED <<transfer, seen>>
      PROVE  \A v \in Withdrawal :
               /\ "sent" \in seen[v] => "sent" \in seen'[v]
               /\ transfer'[v] = "sent" => transfer[v] = "sent"
  BY <1>2
<1>3. ASSUME NEW r \in Request,
             Sending(r) \/ FundingUnanswered(r) \/ StripeUnanswered(r)
      PROVE  UNCHANGED <<transfer, seen>> \/ \E w \in Withdrawal, state \in Transfer : Moves(w, state)
  <2>1. call[r].w \in Withdrawal /\ transfer[call[r].w] \in Transfer
        /\ "processing" \in Transfer /\ "waiting" \in Transfer
    BY CallTyped DEF TypeOK, Transfer
  <2> QED BY <1>3, <2>1 DEF Sending, FundedAtOnce, FundedByHand, PaidByStripe, PaymentRefused,
            CreatedInVain, FundingUnanswered, StripeUnanswered
<1>4. ASSUME NEW w \in Withdrawal, FundByHand(w) \/ Send(w) \/ Return(w)
      PROVE  \E state : Moves(w, state)
  BY <1>4 DEF FundByHand, Send, Return
<1>5. ASSUME NEW r \in Request, Progress(r), ~Sending(r)
      PROVE  UNCHANGED <<transfer, seen>>
  BY <1>5 DEF Progress, CheckActive, CheckBalance, Insert, LoadPending, ReadWallet, Debit, Save
<1>6. ASSUME NEW r \in Request, NEW w \in Withdrawal,
             \/ \E m \in Methods : Approve(r, w, m) \/ \E a \in Amounts : Create(r, w, a, m)
             \/ Cancel(r, w) \/ Complete(r, w) \/ Report(r, w)
      PROVE  UNCHANGED <<transfer, seen>>
  BY <1>6 DEF Approve, Create, Cancel, Complete, Report, ReportProgress, ReportSent,
     ReportReturned, ReportProblem
<1>7. CASE UNCHANGED vars
  BY <1>2, <1>7 DEF vars
<1>8. CASE Crash
  BY <1>2, <1>8 DEF Crash
<1> QED BY <1>1, <1>2, <1>3, <1>4, <1>5, <1>6, <1>7, <1>8 DEF Next

LEMMA SentKept ==
  ASSUME TypeOK, SentInv, [Next]_vars, NEW r \in Request, NEW new, call' = [call EXCEPT ![r] = new],
         new.at # "idle" /\ new.ent.wise = "sent" => new.w \in Withdrawal /\ "sent" \in seen[new.w],
         \A w \in Withdrawal : tx'[w].wise = "sent" => "sent" \in seen[w],
         \A w \in Withdrawal : debited'[w] > 1 => "sent" \in seen[w]
  PROVE  SentInv'
<1>1. ASSUME NEW w \in Withdrawal, transfer'[w] = "sent" \/ tx'[w].wise = "sent" \/ debited'[w] > 1
      PROVE  "sent" \in seen'[w]
  BY <1>1, SeenStays DEF SentInv
<1>2. ASSUME NEW q \in Request, call'[q].at # "idle", call'[q].ent.wise = "sent"
      PROVE  "sent" \in seen'[call'[q].w]
  <2>1. CASE q = r
    BY <1>2, <2>1, SeenStays DEF TypeOK
  <2>2. CASE q # r
    <3>1. call'[q] = call[q] /\ call[q].w \in Withdrawal
      BY <2>2, CallTyped DEF TypeOK
    <3> QED BY <1>2, <3>1, SeenStays DEF SentInv
  <2> QED BY <2>1, <2>2
<1> QED BY <1>1, <1>2 DEF SentInv

LEMMA SentBegins ==
  ASSUME TypeOK, SentInv, [Next]_vars, NEW r \in Request, NEW op, NEW w \in Withdrawal, NEW l,
         NEW ent, NEW own, NEW m, Begins(r, op, w, l, ent, own, m),
         ent.wise = "sent" => "sent" \in seen[w], UNCHANGED <<tx, debited>>
  PROVE  SentInv'
<1>1. PICK new : new = [op |-> op, w |-> w, at |-> l, ent |-> ent, own |-> own,
                        method |-> m, wallet |-> IF l = "debit" THEN balance ELSE NoWallet]
  OBVIOUS
<1>2. call' = [call EXCEPT ![r] = new] /\ new.w = w /\ new.ent = ent
  BY <1>1 DEF Begins
<1> QED BY <1>2, SentKept DEF SentInv

LEMMA NextSent ==
  ASSUME TypeOK, TypeOK', ByHand, ByHandInv, SentInv, [Next]_vars
  PROVE  SentInv'
<1>1. ASSUME NEW r \in Request, NEW w \in Withdrawal,
             \/ \E m \in Methods : Approve(r, w, m) \/ \E a \in Amounts : Create(r, w, a, m)
             \/ Cancel(r, w) \/ Complete(r, w) \/ Report(r, w)
      PROVE  SentInv'
  <2>0. tx[w] \in Row /\ (tx[w].wise = "sent" => "sent" \in seen[w])
        /\ (transfer[w] = "sent" => "sent" \in seen[w]) /\ UNCHANGED <<tx, debited>>
    BY <1>1 DEF TypeOK, SentInv, Approve, Create, Cancel, Complete, Report, ReportProgress,
       ReportSent, ReportReturned, ReportProblem
  <2>1. ASSUME NEW m \in Methods, NEW a \in Amounts, Create(r, w, a, m) PROVE SentInv'
    <3>1. PICK ent : ent = [status |-> "PENDING", wise |-> "none", amount |-> a]
      OBVIOUS
    <3>2. Begins(r, "create", w, "active", ent, {}, m) /\ ent.wise # "sent"
      BY <2>1, <3>1 DEF Create
    <3> QED BY <2>0, <3>2, SentBegins
  <2>2. ASSUME NEW m \in Methods, Approve(r, w, m) PROVE SentInv'
    <3>1. Begins(r, "process", w, "load", tx[w], {}, m)
      BY <2>2 DEF Approve
    <3> QED BY <2>0, <3>1, SentBegins
  <2>3. CASE Cancel(r, w)
    <3>1. PICK ent : ent = [tx[w] EXCEPT !.status = "CANCELLED"]
      OBVIOUS
    <3>2. Begins(r, "cancel", w, "save", ent, {"status"}, "wise") /\ ent.wise = tx[w].wise
      BY <2>0, <2>3, <3>1 DEF Cancel, Row
    <3> QED BY <2>0, <3>2, SentBegins
  <2>4. CASE Complete(r, w)
    <3>1. PICK ent : ent = [tx[w] EXCEPT !.status = "COMPLETED",
                                         !.wise = IF @ = "none" THEN @ ELSE "completed"]
      OBVIOUS
    <3>2. \E own : Begins(r, "complete", w, "wallet", ent, own, "wise")
      BY <2>4, <3>1 DEF Complete
    <3>3. ent.wise # "sent"
      BY <2>0, <3>1 DEF Row
    <3> QED BY <2>0, <3>2, <3>3, SentBegins
  <2>5. CASE Report(r, w)
    <3>0. Reportable(w) \subseteq {transfer[w]}
      BY DEF Reportable, ByHand
    <3>1. ASSUME NEW status, NEW wise, NEW l, wise = "sent" => transfer[w] = "sent",
                 Begins(r, "webhook", w, l, [tx[w] EXCEPT !.status = status, !.wise = wise],
                        {"status", "wise"}, "wise")
          PROVE  SentInv'
      <4>1. PICK ent : ent = [tx[w] EXCEPT !.status = status, !.wise = wise]
        OBVIOUS
      <4>2. ent.wise = wise
        BY <2>0, <4>1 DEF Row
      <4> QED BY <2>0, <3>1, <4>1, <4>2, SentBegins
    <3>2. CASE ReportProgress(r, w)
      <4>1. PICK state \in {"waiting", "processing"} :
              Begins(r, "webhook", w, "save", [tx[w] EXCEPT !.status = "PROCESSING", !.wise = state],
                     {"status", "wise"}, "wise")
        BY <3>2 DEF ReportProgress
      <4> QED BY <3>1, <4>1
    <3>3. CASE ReportSent(r, w)
      <4>1. PICK state \in Reportable(w) :
              Begins(r, "webhook", w, IF Finalized(tx[w]) THEN "save" ELSE "debit",
                     [tx[w] EXCEPT !.status = "COMPLETED", !.wise = state],
                     {"status", "wise"}, "wise")
        BY <3>3 DEF ReportSent
      <4>2. state = transfer[w]
        BY <3>0
      <4> QED BY <3>1, <4>1, <4>2
    <3>4. CASE ReportReturned(r, w)
      <4>1. Begins(r, "webhook", w, "save", [tx[w] EXCEPT !.status = "FAILED", !.wise = "returned"],
                   {"status", "wise"}, "wise")
        BY <3>4 DEF ReportReturned
      <4> QED BY <3>1, <4>1
    <3>5. CASE ReportProblem(r, w)
      <4>1. Begins(r, "webhook", w, "save", [tx[w] EXCEPT !.status = "PROCESSING", !.wise = "problem"],
                   {"status", "wise"}, "wise")
        BY <3>5 DEF ReportProblem
      <4> QED BY <3>1, <4>1
    <3> QED BY <2>5, <3>2, <3>3, <3>4, <3>5 DEF Report
  <2> QED BY <1>1, <2>1, <2>2, <2>3, <2>4, <2>5
<1>2. ASSUME NEW r \in Request, Progress(r) PROVE SentInv'
  <2>1. PICK c \in Call : c = call[r]
    BY CallTyped
  <2>2. PICK w \in Withdrawal : w = c.w
    BY <2>1, CallTyped
  <2>3. /\ c.at # "idle" /\ c.ent.wise = "sent" => "sent" \in seen[w]
        /\ transfer[w] = "sent" \/ tx[w].wise = "sent" => "sent" \in seen[w]
        /\ c.ent \in Row /\ tx[w] \in Row
    BY <2>1, <2>2, CallTyped DEF SentInv, TypeOK
  <2>4. NoCall.at = "idle" /\ \A v \in Withdrawal : tx[v].wise = "sent" \/ debited[v] > 1 => "sent" \in seen[v]
    BY NoCallTyped DEF SentInv
  <2>5. ASSUME NEW l, c.at # "idle", Goto(r, l), UNCHANGED debited,
               \A v \in Withdrawal : tx'[v].wise = "sent" => "sent" \in seen[v]
        PROVE  SentInv'
    <3>1. PICK new : new = IF l = "idle" THEN NoCall ELSE [c EXCEPT !.at = l]
      OBVIOUS
    <3>2. call' = [call EXCEPT ![r] = new]
      BY <2>1, <2>5, <3>1 DEF Goto
    <3>3. new.at # "idle" => new.w = w /\ new.ent = c.ent
      BY <2>2, <2>4, <3>1 DEF Call
    <3> QED BY <2>3, <2>4, <2>5, <3>2, <3>3, SentKept
  <2>6. CASE CheckActive(r) \/ CheckBalance(r)
    BY <2>1, <2>4, <2>5, <2>6 DEF CheckActive, CheckBalance
  <2>7. CASE Insert(r)
    <3>1. c.at = "insert" /\ tx' = [tx EXCEPT ![w] = c.ent] /\ UNCHANGED debited
      BY <2>1, <2>2, <2>7 DEF Insert
    <3>2. \E l : Goto(r, l)
      BY <2>7 DEF Insert
    <3>3. \A v \in Withdrawal : tx'[v].wise = "sent" => "sent" \in seen[v]
      BY <2>3, <2>4, <3>1 DEF TypeOK
    <3> QED BY <2>5, <3>1, <3>2, <3>3
  <2>8. CASE LoadPending(r)
    <3>1. PICK new : new = IF tx[w].status = "PENDING" THEN [c EXCEPT !.at = "send", !.ent = tx[w]]
                                                       ELSE NoCall
      OBVIOUS
    <3>2. call' = [call EXCEPT ![r] = new] /\ UNCHANGED <<tx, debited>>
      BY <2>1, <2>2, <2>8, <3>1 DEF LoadPending
    <3>3. new.at # "idle" => new.w = w /\ new.ent = tx[w]
      BY <2>2, <2>4, <3>1 DEF Call
    <3> QED BY <2>3, <2>4, <3>2, <3>3, SentKept
  <2>9. CASE Sending(r)
    <3>1. PICK status, wise, own :
            /\ Assigning(r, status, wise, own) /\ c.at # "idle" /\ UNCHANGED <<tx, debited>>
            /\ wise = "sent" => transfer[w] = "sent" \/ c.ent.wise = "sent"
      BY <2>1, <2>2, <2>9 DEF Sending, FundedAtOnce, FundedByHand, PaidByStripe, PaymentRefused
    <3>2. PICK new : new = [c EXCEPT !.at = "save", !.ent.status = status, !.ent.wise = wise, !.own = own]
      OBVIOUS
    <3>3. call' = [call EXCEPT ![r] = new]
      BY <2>1, <3>1, <3>2 DEF Assigning
    <3>4. new.w = w /\ new.ent.wise = wise
      BY <2>2, <2>3, <3>2 DEF Call, Row
    <3> QED BY <2>3, <2>4, <3>1, <3>3, <3>4, SentKept
  <2>10. CASE ReadWallet(r) \/ Debit(r)
    <3>1. PICK l, wallet : call' = [call EXCEPT ![r] = [c EXCEPT !.at = l, !.wallet = wallet]]
      BY <2>1, <2>10 DEF ReadWallet, Debit
    <3>2. c.at # "idle" /\ UNCHANGED tx
      BY <2>1, <2>10 DEF ReadWallet, Debit
    <3>3. PICK new : new = [c EXCEPT !.at = l, !.wallet = wallet]
      OBVIOUS
    <3>4. new.w = w /\ new.ent = c.ent
      BY <2>2, <3>3 DEF Call
    <3>5. ASSUME NEW v \in Withdrawal, debited'[v] > 1 PROVE "sent" \in seen[v]
      <4>1. CASE debited'[v] = debited[v]
        BY <2>4, <3>5, <4>1
      <4>2. CASE debited'[v] # debited[v]
        <5>1. c.at = "debit" /\ v = w /\ debited'[v] = OneMore(debited[v])
          BY <2>1, <2>2, <2>10, <4>2 DEF ReadWallet, Debit, TypeOK
        <5>2. debited[v] # 0
          BY <3>5, <5>1 DEF OneMore, Several
        <5> QED BY <2>1, <2>2, <5>1, <5>2, SentAgain
      <4> QED BY <4>1, <4>2
    <3> QED BY <2>3, <2>4, <3>1, <3>2, <3>3, <3>4, <3>5, SentKept
  <2>11. CASE Save(r)
    <3>1. c.at = "save" /\ Goto(r, "idle") /\ UNCHANGED debited
      BY <2>1, <2>11 DEF Save
    <3>2. PICK wise \in {c.ent.wise, tx[w].wise} :
            tx' = [tx EXCEPT ![w] = [@ EXCEPT !.status = c.ent.status, !.wise = wise]]
      BY <2>1, <2>2, <2>11 DEF Save
    <3>3. tx'[w].wise = wise /\ \A v \in Withdrawal : v # w => tx'[v] = tx[v]
      BY <2>3, <3>2 DEF TypeOK, Row
    <3>4. \A v \in Withdrawal : tx'[v].wise = "sent" => "sent" \in seen[v]
      BY <2>3, <2>4, <3>1, <3>3
    <3> QED BY <2>5, <3>1, <3>4
  <2> QED BY <1>2, <2>6, <2>7, <2>8, <2>9, <2>10, <2>11 DEF Progress
<1>3. ~Fault
  BY SettingAssumption DEF Fault, ByHand, TypeOK
<1>4. CASE UNCHANGED vars \/ \E w \in Withdrawal : FundByHand(w) \/ Send(w) \/ Return(w)
  <2>1. tx' = tx /\ debited' = debited /\ call' = call
    BY <1>4 DEF vars, FundByHand, Send, Return
  <2>2. \A r \in Request : call[r].w \in Withdrawal
    BY CallTyped
  <2> QED BY <2>1, <2>2, SeenStays DEF SentInv
<1> QED BY <1>1, <1>2, <1>3, <1>4 DEF Next, FundingUnanswered, StripeUnanswered, Crash

(* Paid by hand, a wallet is debited again for a withdrawal only where     *)
(* Wise said that the money was sent: whichever of completeWithdrawal and  *)
(* the reports that it completed finalizes it, and however often they do,  *)
(* alreadyFinalized keeps it to one debit.                                 *)
THEOREM DebitedAgainByHand == ASSUME ByHand PROVE Spec => []DebitedAgainOnlySent
<1>1. Init => SentInv
  <2>1. NoCall.at = "idle"
    BY NoCallTyped
  <2> QED BY <2>1 DEF Init, SentInv, NoRow
<1>2. TypeOK /\ TypeOK' /\ ByHandInv /\ SentInv /\ [Next]_vars => SentInv'
  BY NextSent
<1>3. SentInv => DebitedAgainOnlySent
  BY DEF SentInv, DebitedAgainOnlySent
<1> QED BY <1>1, <1>2, <1>3, ByHandAlways, TypeCorrect, PTL DEF Spec

(* Paid by hand, what the wallet holds and what was withdrawn, each amount *)
(* once, never exceed what was there, and add up to it as long as no       *)
(* withdrawal was debited again: Math.max(0, ...) cuts off no first debit, *)
(* for any number of withdrawals and any amounts.                          *)
THEOREM AccountedByHand == ASSUME ByHand PROVE Spec => []BalanceAccounted
<1>1. TypeOK /\ ByHandInv => BalanceAccounted
  <2> SUFFICES ASSUME TypeOK, ByHandInv PROVE BalanceAccounted
    OBVIOUS
  <2>1. Withdrawn = Total(Debits, Withdrawal)
    BY SumOfDebits
  <2> QED BY <2>1 DEF BalanceAccounted, ByHandInv
<1> QED BY <1>1, ByHandAlways, TypeCorrect, PTL

\* What was debited, and what the active withdrawal will be.
Committed ==
  [w \in Withdrawal |->
     IF tx[w].status \in Active /\ debited[w] = 0 THEN tx[w].amount ELSE Debits[w]]

(* Paid by hand, a user is never paid more than was in his wallet over all *)
(* of his withdrawals: what was paid was debited, or is what the only      *)
(* active withdrawal asks for, and that was still there when he asked.     *)
THEOREM PaidFromWallet == ASSUME ByHand PROVE Spec => []NeverOverpaid
<1>1. TypeOK /\ ByHandInv => NeverOverpaid
  <2> SUFFICES ASSUME TypeOK, ByHandInv PROVE NeverOverpaid
    OBVIOUS
  <2>1. PICK p : p = Payments
    OBVIOUS
  <2>2. PICK k : k = Committed
    OBVIOUS
  <2>3. PICK f : f = Debits
    OBVIOUS
  <2>4. ASSUME NEW w \in Withdrawal
        PROVE  /\ p[w] \in Int /\ k[w] \in Int /\ f[w] \in Int /\ p[w] <= k[w]
               /\ tx[w].status \in Active /\ debited[w] = 0 => f[w] = 0 /\ k[w] = tx[w].amount
               /\ ~(tx[w].status \in Active /\ debited[w] = 0) => k[w] = f[w]
    <3>1. PICK n \in Nat : n = tx[w].amount
      BY ByHandFacts
    <3>2. Paid(w) = IF transfer[w] \in Over THEN 1 ELSE 0
      BY ByHandFacts DEF Paid, Over
    <3>3. p[w] = (IF transfer[w] \in Over THEN 1 ELSE 0) * n
      BY <2>1, <3>1, <3>2 DEF Payments
    <3>4. p[w] = IF transfer[w] \in Over THEN n ELSE 0
      BY <3>1, <3>3
    <3>5. PICK d \in Nat : d = debited[w]
      BY DEF TypeOK, Several
    <3>7. f[w] = IF d = 0 THEN 0 ELSE n
      BY <2>3, <3>1, <3>5 DEF Debits
    <3>8. k[w] = IF tx[w].status \in Active /\ d = 0 THEN n ELSE f[w]
      BY <2>2, <2>3, <3>1, <3>5 DEF Committed
    <3>9. transfer[w] \in Over /\ d = 0 => tx[w].status \in Active
      BY <3>5, PaidIsDebited
    <3> QED BY <3>1, <3>4, <3>5, <3>7, <3>8, <3>9
  <2>5. Total(p, Withdrawal) <= Total(k, Withdrawal)
    BY <2>4, TotalAtMost DEF ByHand
  <2>6. Total(f, Withdrawal) \in Int /\ Total(k, Withdrawal) \in Int /\ Total(p, Withdrawal) \in Int
    BY <2>4, TotalInt DEF ByHand
  <2>7. balance \in Nat /\ balance + Total(f, Withdrawal) <= Funds /\ Funds \in Nat
    BY <2>3, AmountAssumption DEF ByHandInv, TypeOK
  <2>8. Total(k, Withdrawal) <= Funds
    <3>1. CASE \E w \in Withdrawal : tx[w].status \in Active /\ debited[w] = 0
      <4>1. PICK w \in Withdrawal : tx[w].status \in Active /\ debited[w] = 0
        BY <3>1
      <4>2. \A v \in Withdrawal \ {w} : k[v] = f[v]
        BY <2>4, <4>1 DEF ByHandInv, OneActive
      <4>3. Total(k, Withdrawal) = Total(f, Withdrawal) - f[w] + k[w]
        BY <2>4, <4>2, TotalChange DEF ByHand
      <4>4. f[w] = 0 /\ k[w] \in Int /\ k[w] + Total(f, Withdrawal) <= Funds
        BY <2>3, <2>4, <4>1, ByHandFacts
      <4> QED BY <2>6, <2>7, <4>3, <4>4
    <3>2. CASE ~\E w \in Withdrawal : tx[w].status \in Active /\ debited[w] = 0
      <4>1. \A w \in Withdrawal : f[w] \in Int /\ k[w] = f[w]
        BY <2>4, <3>2
      <4>2. Total(k, Withdrawal) = Total(f, Withdrawal)
        BY <4>1, TotalSame DEF ByHand
      <4> QED BY <2>6, <2>7, <4>2
    <3> QED BY <3>1, <3>2
  <2>9. MapThenSumSet(LAMBDA w : Paid(w) * tx[w].amount, Withdrawal) = Total(p, Withdrawal)
    BY <2>1, SumOfPayments DEF ByHand
  <2>10. Total(p, Withdrawal) <= Funds
    BY <2>5, <2>6, <2>8, AmountAssumption
  <2> QED BY <2>9, <2>10 DEF NeverOverpaid
<1> QED BY <1>1, ByHandAlways, TypeCorrect, PTL
=============================================================================
