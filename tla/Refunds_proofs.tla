--------------------------- MODULE Refunds_proofs ---------------------------
(***************************************************************************)
(* For any number of payments, refunds and calls: the types, who holds the *)
(* row of a refund, what a refund is asked for, and what the wallet loses. *)
(***************************************************************************)
EXTENDS Refunds, TLAPS

USE PaymentAssumption, RefundAssumption

(***************************************************************************)
(* The types                                                               *)
(***************************************************************************)

\* The calls that name a refund, and those of them that hold its row.
OnRefund == {"lock", "pay", "deduct", "save wallet", "notify", "wise", "mark"}

\* A call that names a refund names a row: rows are never deleted.
CallsNameRows == \A c \in Call : calls[c].op \in OnRefund => calls[c].refund \in Rows

TypeInv == TypeOK /\ CallsNameRows

\* A request takes a call that does nothing.
LEMMA FreeIsIdle ==
  ASSUME SomeFree, NEW c \in Call, FreeCall(c)
  PROVE  calls[c] = Idle
BY DEF SomeFree, FreeCall

\* The fields of a piece of work, by its kind.
LEMMA WorkFields ==
  ASSUME NEW w \in Work
  PROVE  /\ w.op \in {"hold", "write"} => w.of \in Payment
         /\ w.op = "insert" => w.of \in Transaction
         /\ w.op = "write" => w.status \in Stored \ {"none"} /\ w.event \in Kind \cup {"none"}
         /\ w.op = "insert" => w.amount \in 1..Paid
         /\ w.op = "save wallet" => w.left \in 0..Balance
         /\ w.op \in OnRefund => w.refund \in Refund
<1> USE DEF OnRefund
<1>1. CASE w = Idle
  BY <1>1 DEF Idle
<1>2. CASE w \in [op : {"hold"}, of : Payment]
  BY <1>2
<1>3. CASE w \in [op : {"write"}, of : Payment, status : Stored \ {"none"}, event : Kind \cup {"none"}]
  BY <1>3
<1>4. CASE w \in [op : {"insert"}, of : Transaction, amount : 1..Paid]
  BY <1>4
<1>5. CASE w \in [op : {"lock", "pay", "deduct", "notify", "wise", "mark"}, refund : Refund]
  BY <1>5
<1>6. CASE w \in [op : {"save wallet"}, refund : Refund, left : 0..Balance]
  BY <1>6
<1> QED BY <1>1, <1>2, <1>3, <1>4, <1>5, <1>6 DEF Work

\* A call that names a refund names one with a transaction and an amount.
LEMMA CallNamesRow ==
  ASSUME TypeInv, NEW c \in Call, calls[c].op \in OnRefund
  PROVE  /\ calls[c].refund \in Rows
         /\ calls[c].refund \in Refund
         /\ refunds[calls[c].refund] \in [of : Transaction, amount : 1..Paid, status : RefundStatus]
BY DEF TypeInv, TypeOK, CallsNameRows, Rows, RefundRow

\* The types survive a step of the payments, which touches no refund.
LEMMA PaymentTyped ==
  ASSUME TypeInv, UNCHANGED refundVars,
         \/ PaymentStep
         \/ \E c \in Call : PaymentProgress(c)
  PROVE  TypeInv'
<1>1. Rows' = Rows
  BY DEF Rows, refundVars
<1>2. SUFFICES /\ intent' \in [Payment -> {"none", "open", "processing", "succeeded", "canceled"}]
               /\ posted' \in [Payment -> 0..MaxEvents]
               /\ events' \subseteq [of : Payment, kind : Kind]
               /\ row' \in [Payment -> Stored]
               /\ calls' \in [Call -> Work]
               /\ \A c \in Call : calls'[c].op \in OnRefund => calls'[c] = calls[c]
  BY <1>1 DEF TypeInv, TypeOK, CallsNameRows, refundVars
<1> USE DEF TypeInv, TypeOK
<1>3. ASSUME NEW p \in Payment, CustomerPays(p)
      PROVE  /\ intent' \in [Payment -> {"none", "open", "processing", "succeeded", "canceled"}]
             /\ posted' \in [Payment -> 0..MaxEvents]
             /\ events' \subseteq [of : Payment, kind : Kind]
  BY <1>3 DEF CustomerPays, Post, Kind
<1>4. ASSUME NEW p \in Payment, CustomerPays(p) \/ CreateIntent(p)
      PROVE  row' = row /\ calls' = calls
  BY <1>4 DEF CustomerPays, CreateIntent
<1>5. ASSUME NEW p \in Payment, CreateIntent(p)
      PROVE  /\ intent' \in [Payment -> {"none", "open", "processing", "succeeded", "canceled"}]
             /\ posted' = posted /\ events' = events
  BY <1>5 DEF CreateIntent
<1>6. ASSUME NEW e \in events, NEW endpoint \in Endpoint, SkipEvent(e, endpoint)
      PROVE  events' \subseteq events /\ UNCHANGED <<intent, posted, row, calls>>
  BY <1>6 DEF SkipEvent
<1>7. ASSUME SomeFree, NEW c \in Call, NEW p \in Payment, HoldFunds(c, p)
      PROVE  /\ intent' \in [Payment -> {"none", "open", "processing", "succeeded", "canceled"}]
             /\ UNCHANGED <<posted, events, row>>
             /\ calls' \in [Call -> Work]
             /\ \A d \in Call : calls'[d].op \in OnRefund => calls'[d] = calls[d]
  <2>1. [op |-> "hold", of |-> p] \in Work
    BY DEF Work
  <2> QED BY <1>7, <2>1 DEF HoldFunds, Do, OnRefund
<1>8. ASSUME SomeFree, NEW c \in Call, NEW p \in Payment, NEW s \in {"CANCELLED", "cancelled"},
             CancelIntent(c, p, s)
      PROVE  /\ intent' \in [Payment -> {"none", "open", "processing", "succeeded", "canceled"}]
             /\ posted' \in [Payment -> 0..MaxEvents]
             /\ events' \subseteq [of : Payment, kind : Kind]
             /\ row' = row
             /\ calls' \in [Call -> Work]
             /\ \A d \in Call : calls'[d].op \in OnRefund => calls'[d] = calls[d]
  <2>1. [op |-> "write", of |-> p, status |-> s, event |-> "none"] \in Work
    BY DEF Work, Stored, Status
  <2>2. [of |-> p, kind |-> "canceled"] \in [of : Payment, kind : Kind]
    BY DEF Kind
  <2>3. /\ posted[p] \in Nat /\ posted[p] < MaxEvents
        /\ posted' = [posted EXCEPT ![p] = @ + 1]
        /\ events' = events \cup {[of |-> p, kind |-> "canceled"]}
    BY <1>8 DEF CancelIntent, Post
  <2>4. posted' \in [Payment -> 0..MaxEvents] /\ events' \subseteq [of : Payment, kind : Kind]
    BY <2>2, <2>3
  <2>5. intent' = [intent EXCEPT ![p] = "canceled"] /\ row' = row
    BY <1>8 DEF CancelIntent
  <2>6. calls' = [calls EXCEPT ![c] =
             [op |-> "write", of |-> p, status |-> s, event |-> "none"]]
    BY <1>8 DEF CancelIntent, Do
  <2>7. /\ calls' \in [Call -> Work]
        /\ \A d \in Call : calls'[d].op \in OnRefund => calls'[d] = calls[d]
    BY <2>1, <2>6 DEF OnRefund
  <2> QED BY <2>4, <2>5, <2>7
<1>9. ASSUME SomeFree, NEW c \in Call, NEW e \in events, NEW endpoint \in Endpoint,
             TakeEvent(c, e, endpoint)
      PROVE  /\ UNCHANGED paymentVars
             /\ calls' \in [Call -> Work]
             /\ \A d \in Call : calls'[d].op \in OnRefund => calls'[d] = calls[d]
  <2>1. e.of \in Payment /\ e.kind \in Kind
    OBVIOUS
  <2>2. Meaning(endpoint, e.kind) \in Stored \ {"none"}
    BY <1>9, <2>1 DEF TakeEvent, Meaning, Stored, Status, Kind, Endpoint
  <2>3. [op |-> "write", of |-> e.of, status |-> Meaning(endpoint, e.kind),
         event |-> e.kind] \in Work
    BY <2>1, <2>2 DEF Work
  <2> QED BY <1>9, <2>3 DEF TakeEvent, Do, OnRefund
<1>10. ASSUME NEW c \in Call, HoldSaves(c)
       PROVE  /\ UNCHANGED <<intent, posted, events>>
              /\ row' \in [Payment -> Stored]
              /\ calls' \in [Call -> Work]
              /\ \A d \in Call : calls'[d].op \in OnRefund => calls'[d] = calls[d]
  <2>1. Idle \in Work /\ "PENDING" \in Stored
    BY DEF Work, Stored, Status
  <2>2. calls[c].of \in Payment
    BY <1>10, WorkFields DEF HoldSaves
  <2>3. row' \in [Payment -> Stored]
    BY <1>10, <2>1, <2>2 DEF HoldSaves
  <2>4. calls' = [calls EXCEPT ![c] = Idle] /\ UNCHANGED <<intent, posted, events>>
    BY <1>10 DEF HoldSaves, Return, Do
  <2> QED BY <2>1, <2>3, <2>4 DEF OnRefund, Idle
<1>11. ASSUME NEW c \in Call, WriteStatus(c)
       PROVE  /\ UNCHANGED <<intent, posted>>
              /\ events' \subseteq events
              /\ row' \in [Payment -> Stored]
              /\ calls' \in [Call -> Work]
              /\ \A d \in Call : calls'[d].op \in OnRefund => calls'[d] = calls[d]
  <2>1. Idle \in Work
    BY DEF Work
  <2>2. calls[c].status \in Stored /\ calls[c].of \in Payment
    BY <1>11, WorkFields DEF WriteStatus
  <2> QED BY <1>11, <2>1, <2>2 DEF WriteStatus, Return, Do, OnRefund, Idle
<1>12. CASE PaymentStep
  BY <1>12, <1>3, <1>4, <1>5, <1>6, <1>7, <1>8, <1>9 DEF PaymentStep, paymentVars
<1>13. CASE \E c \in Call : PaymentProgress(c)
  BY <1>13, <1>10, <1>11 DEF PaymentProgress
<1> QED BY <1>12, <1>13

\* What a step of the refunds has to leave for the types to survive it.
LEMMA RefundTypes ==
  ASSUME TypeInv, UNCHANGED paymentVars, calls' \in [Call -> Work],
         refunds' \in [Refund -> RefundRow], Rows \subseteq Rows',
         holder' \in [Refund -> Call \cup {NoCall}],
         returned' \in [Transaction -> 0..Paid], balance' \in [Transaction -> 0..Balance],
         \A c \in Call : calls'[c].op \in OnRefund => calls'[c].refund \in Rows
  PROVE  TypeInv'
BY DEF TypeInv, TypeOK, CallsNameRows, paymentVars

\* A call goes on, ends or begins.
LEMMA WorkReplaced ==
  ASSUME TypeInv, NEW c \in Call, NEW w \in Work, Do(c, w),
         w.op \in OnRefund => w.refund \in Rows
  PROVE  /\ calls' \in [Call -> Work]
         /\ \A d \in Call : calls'[d].op \in OnRefund => calls'[d].refund \in Rows
BY DEF TypeInv, TypeOK, CallsNameRows, Do

LEMMA IdleIsWork == Idle \in Work /\ Idle.op \notin OnRefund
BY DEF Idle, Work, OnRefund

LEMMA RefundIsWork ==
  ASSUME NEW op \in {"lock", "pay", "deduct", "notify", "wise", "mark"}, NEW r \in Refund
  PROVE  [op |-> op, refund |-> r] \in Work
BY DEF Work

\* A row that is there gets another status.
LEMMA StatusSet ==
  ASSUME TypeInv, NEW r \in Rows, NEW status \in RefundStatus, SetRefund(r, status)
  PROVE  /\ refunds' \in [Refund -> RefundRow]
         /\ Rows' = Rows
         /\ \A q \in Refund : /\ refunds'[q].of = refunds[q].of
                              /\ refunds'[q].amount = refunds[q].amount
<1>1. /\ r \in Refund /\ refunds \in [Refund -> RefundRow]
      /\ refunds[r] \in [of : Transaction, amount : 1..Paid, status : RefundStatus]
  BY DEF TypeInv, TypeOK, Rows, RefundRow
<1>2. refunds' = [refunds EXCEPT ![r] = [refunds[r] EXCEPT !.status = status]]
  BY <1>1 DEF SetRefund
<1>3. /\ [refunds[r] EXCEPT !.status = status] \in [of : Transaction, amount : 1..Paid, status : RefundStatus]
      /\ [refunds[r] EXCEPT !.status = status].of = refunds[r].of
      /\ [refunds[r] EXCEPT !.status = status].amount = refunds[r].amount
  BY <1>1
<1>4. ASSUME NEW w \in [of : Transaction, amount : 1..Paid, status : RefundStatus]
      PROVE  w # Absent
  BY DEF Absent, RefundStatus
<1>5. refunds' \in [Refund -> RefundRow] /\ Rows' = Rows
  BY <1>1, <1>2, <1>3, <1>4 DEF Rows, RefundRow
<1> QED BY <1>1, <1>2, <1>3, <1>5

\* Stripe gives back no more than it was paid.
LEMMA GivenBack ==
  ASSUME TypeInv, NEW p \in Transaction, NEW amount \in 1..Paid,
         Refundable(p, amount), GiveBack(p, amount)
  PROVE  returned' \in [Transaction -> 0..Paid]
BY DEF TypeInv, TypeOK, Refundable, GiveBack

LEMMA RequestTyped ==
  ASSUME TypeInv, SomeFree, NEW c \in Call, NEW p \in Transaction, NEW amount \in 1..Paid,
         Request(c, p, amount)
  PROVE  TypeInv'
<1>1. [op |-> "insert", of |-> p, amount |-> amount] \in Work
  BY DEF Work
<1>2. Do(c, [op |-> "insert", of |-> p, amount |-> amount])
  BY DEF Request
<1>3. /\ calls' \in [Call -> Work]
      /\ \A d \in Call : calls'[d].op \in OnRefund => calls'[d].refund \in Rows
  BY <1>1, <1>2, WorkReplaced DEF OnRefund
<1> QED BY <1>3 DEF Request, TypeInv, TypeOK, CallsNameRows, paymentVars, refundVars, Rows

LEMMA InsertTyped ==
  ASSUME TypeInv, NEW c \in Call, InsertRefund(c)
  PROVE  TypeInv'
<1>1. /\ calls[c].of \in Transaction /\ calls[c].amount \in 1..Paid
      /\ refunds \in [Refund -> RefundRow]
  BY WorkFields DEF InsertRefund, TypeInv, TypeOK
<1>2. refunds' \in [Refund -> RefundRow] /\ Rows \subseteq Rows'
  <2>1. CASE UNCHANGED refunds
    BY <1>1, <2>1 DEF Rows
  <2>2. CASE \E r \in Refund \ Rows : refunds' = [refunds EXCEPT ![r] =
                [of |-> calls[c].of, amount |-> calls[c].amount, status |-> "PENDING"]]
    <3>1. [of |-> calls[c].of, amount |-> calls[c].amount, status |-> "PENDING"] \in RefundRow
      BY <1>1 DEF RefundRow, RefundStatus
    <3> QED BY <1>1, <2>2, <3>1 DEF Rows
  <2> QED BY <2>1, <2>2 DEF InsertRefund
<1>3. /\ calls' \in [Call -> Work]
      /\ \A d \in Call : calls'[d].op \in OnRefund => calls'[d].refund \in Rows
  BY WorkReplaced, IdleIsWork DEF InsertRefund, Return
<1> QED BY <1>2, <1>3, RefundTypes DEF InsertRefund, TypeInv, TypeOK

\* Beginning to process a refund, here or by way of Wise.
LEMMA BegunTyped ==
  ASSUME TypeInv, SomeFree, NEW c \in Call, NEW r \in Refund, Process(c, r) \/ ViaWise(c, r)
  PROVE  TypeInv'
<1>1. PICK op \in {"lock", "wise"} : Do(c, [op |-> op, refund |-> r])
  BY DEF Process, ViaWise
<1>2. r \in Rows /\ UNCHANGED <<paymentVars, refundVars>>
  BY DEF Process, ViaWise
<1>3. /\ calls' \in [Call -> Work]
      /\ \A d \in Call : calls'[d].op \in OnRefund => calls'[d].refund \in Rows
  BY <1>1, <1>2, WorkReplaced, RefundIsWork
<1> QED BY <1>2, <1>3 DEF TypeInv, TypeOK, CallsNameRows, paymentVars, refundVars, Rows

\* A call at work on a refund.
LEMMA ProcessTyped ==
  ASSUME TypeInv, NEW c \in Call,
         \/ TakeRefund(c) \/ PayRefund(c) \/ RefundFails(c)
         \/ ReadWallet(c) \/ WalletRefuses(c) \/ SaveWallet(c) \/ FormatFails(c)
         \/ WireRefund(c) \/ MarkProcessing(c)
  PROVE  TypeInv'
<1> DEFINE r == calls[c].refund
<1>1. calls[c].op \in OnRefund
  BY DEF TakeRefund, PayRefund, RefundFails, ReadWallet, WalletRefuses, SaveWallet,
         FormatFails, WireRefund, MarkProcessing, OnRefund
<1>2. /\ r \in Rows /\ r \in Refund
      /\ refunds[r] \in [of : Transaction, amount : 1..Paid, status : RefundStatus]
      /\ refunds[r].of \in Transaction /\ refunds[r].amount \in 1..Paid
  BY <1>1, CallNamesRow
<1>3. /\ refunds \in [Refund -> RefundRow] /\ holder \in [Refund -> Call \cup {NoCall}]
      /\ returned \in [Transaction -> 0..Paid] /\ balance \in [Transaction -> 0..Balance]
  BY DEF TypeInv, TypeOK
<1>4. ASSUME \/ \E op \in {"pay", "deduct", "notify", "mark"} : Do(c, [op |-> op, refund |-> r])
             \/ Return(c)
      PROVE  /\ calls' \in [Call -> Work]
             /\ \A d \in Call : calls'[d].op \in OnRefund => calls'[d].refund \in Rows
  BY <1>2, <1>4, WorkReplaced, IdleIsWork, RefundIsWork DEF Return
<1>5. ASSUME Unlock(r)
      PROVE  holder' \in [Refund -> Call \cup {NoCall}]
  BY <1>2, <1>3, <1>5 DEF Unlock
<1> HIDE DEF r
<1>6. CASE TakeRefund(c)
  <2>1. Do(c, [op |-> "pay", refund |-> r]) /\ Lock(c, r) /\ UNCHANGED <<paymentVars, refunds, returned, balance>>
    BY <1>6 DEF TakeRefund, r
  <2>2. holder' \in [Refund -> Call \cup {NoCall}]
    BY <1>3, <2>1 DEF Lock
  <2>3. Rows' = Rows
    BY <2>1 DEF Rows
  <2> QED BY <1>3, <1>4, <2>1, <2>2, <2>3, RefundTypes
<1>7. CASE PayRefund(c)
  <2>1. /\ Refundable(refunds[r].of, refunds[r].amount) /\ GiveBack(refunds[r].of, refunds[r].amount)
        /\ Do(c, [op |-> "deduct", refund |-> r]) /\ UNCHANGED <<paymentVars, refunds, holder, balance>>
    BY <1>7 DEF PayRefund, r
  <2>2. returned' \in [Transaction -> 0..Paid]
    BY <1>2, <2>1, GivenBack
  <2>3. Rows' = Rows
    BY <2>1 DEF Rows
  <2> QED BY <1>3, <1>4, <2>1, <2>2, <2>3, RefundTypes
<1>8. CASE RefundFails(c)
  <2>1. /\ \/ UNCHANGED returned
           \/ /\ Refundable(refunds[r].of, refunds[r].amount)
              /\ GiveBack(refunds[r].of, refunds[r].amount)
        /\ SetRefund(r, "FAILED") /\ Unlock(r) /\ Return(c) /\ UNCHANGED <<paymentVars, balance>>
    BY <1>8 DEF RefundFails, r
  <2>2. returned' \in [Transaction -> 0..Paid]
    BY <1>2, <1>3, <2>1, GivenBack
  <2>3. refunds' \in [Refund -> RefundRow] /\ Rows' = Rows
    BY <1>2, <2>1, StatusSet DEF RefundStatus
  <2> QED BY <1>3, <1>4, <1>5, <2>1, <2>2, <2>3, RefundTypes
<1>9. CASE ReadWallet(c)
  <2> DEFINE w == [op |-> "save wallet", refund |-> r,
                   left |-> balance[refunds[r].of] - refunds[r].amount]
  <2>1. /\ balance[refunds[r].of] >= refunds[r].amount
        /\ Do(c, w) /\ UNCHANGED <<paymentVars, refundVars>>
    BY <1>9 DEF ReadWallet, r
  <2> HIDE DEF w
  <2>6. balance[refunds[r].of] \in 0..Balance
    BY <1>2, <1>3
  <2>2. balance[refunds[r].of] - refunds[r].amount \in 0..Balance
    BY <1>2, <2>1, <2>6
  <2> USE DEF w
  <2>3. w \in Work
    BY <1>2, <2>2 DEF Work
  <2>4. /\ calls' \in [Call -> Work]
        /\ \A d \in Call : calls'[d].op \in OnRefund => calls'[d].refund \in Rows
    BY <1>2, <2>1, <2>3, WorkReplaced
  <2>5. Rows' = Rows
    BY <2>1 DEF Rows, refundVars
  <2> QED BY <1>3, <2>1, <2>4, <2>5, RefundTypes DEF refundVars
<1>10. CASE WalletRefuses(c) \/ FormatFails(c)
  <2>1. Unlock(r) /\ Return(c) /\ UNCHANGED <<paymentVars, refunds, returned, balance>>
    BY <1>10 DEF WalletRefuses, FormatFails, r
  <2>2. Rows' = Rows
    BY <2>1 DEF Rows
  <2> QED BY <1>3, <1>4, <1>5, <2>1, <2>2, RefundTypes
<1>11. CASE SaveWallet(c)
  <2>1. /\ calls[c].op = "save wallet"
        /\ balance' = [balance EXCEPT ![refunds[r].of] = calls[c].left]
        /\ Do(c, [op |-> "notify", refund |-> r]) /\ UNCHANGED <<paymentVars, refunds, holder, returned>>
    BY <1>11 DEF SaveWallet, r
  <2>2. calls[c].left \in 0..Balance
    BY <2>1, WorkFields DEF TypeInv, TypeOK
  <2>3. balance' \in [Transaction -> 0..Balance]
    BY <1>2, <1>3, <2>1, <2>2
  <2>4. Rows' = Rows
    BY <2>1 DEF Rows
  <2> QED BY <1>3, <1>4, <2>1, <2>3, <2>4, RefundTypes
<1>12. CASE WireRefund(c)
  <2>1. /\ Do(c, [op |-> "mark", refund |-> r]) \/ Return(c)
        /\ UNCHANGED <<paymentVars, refunds, holder, returned, balance>>
    BY <1>12 DEF WireRefund, r
  <2>2. Rows' = Rows
    BY <2>1 DEF Rows
  <2> QED BY <1>3, <1>4, <2>1, <2>2, RefundTypes
<1>13. CASE MarkProcessing(c)
  <2>1. SetRefund(r, "PROCESSING") /\ Return(c) /\ UNCHANGED <<paymentVars, holder, returned, balance>>
    BY <1>13 DEF MarkProcessing, r
  <2>2. refunds' \in [Refund -> RefundRow] /\ Rows' = Rows
    BY <1>2, <2>1, StatusSet DEF RefundStatus
  <2> QED BY <1>3, <1>4, <2>1, <2>2, RefundTypes
<1> QED BY <1>6, <1>7, <1>8, <1>9, <1>10, <1>11, <1>12, <1>13

\* The steps that no call is at work for.
LEMMA AtOnceTyped ==
  ASSUME TypeInv,
         \/ \E r \in Refund, s \in RefundStatus : UpdateRefundStatus(r, s)
         \/ \E p \in Payment, a \in 1..Paid : RefundDirectly(p, a)
  PROVE  TypeInv'
<1>1. ASSUME NEW r \in Refund, NEW s \in RefundStatus, UpdateRefundStatus(r, s)
      PROVE  TypeInv'
  <2>1. r \in Rows /\ SetRefund(r, s) /\ UNCHANGED <<paymentVars, calls, holder, returned, balance>>
    BY <1>1 DEF UpdateRefundStatus
  <2>2. refunds' \in [Refund -> RefundRow] /\ Rows' = Rows
    BY <2>1, StatusSet
  <2> QED BY <2>1, <2>2 DEF TypeInv, TypeOK, CallsNameRows, paymentVars
<1>2. ASSUME NEW p \in Payment, NEW a \in 1..Paid, RefundDirectly(p, a)
      PROVE  TypeInv'
  <2>1. returned' \in [Transaction -> 0..Paid]
    BY <1>2, GivenBack DEF RefundDirectly, Transaction
  <2> QED BY <1>2, <2>1 DEF RefundDirectly, TypeInv, TypeOK, CallsNameRows, paymentVars, Rows
<1> QED BY <1>1, <1>2

LEMMA InitTyped == Init => TypeInv
<1> SUFFICES ASSUME Init PROVE TypeInv
  OBVIOUS
<1> USE DEF Init, PaymentsInit
<1>1. TypeOK
  BY IdleIsWork DEF TypeOK, Stored, RefundRow
<1>2. CallsNameRows
  BY DEF CallsNameRows, OnRefund, Idle
<1> QED BY <1>1, <1>2 DEF TypeInv

LEMMA NextTyped == TypeInv /\ [Next]_vars => TypeInv'
<1> SUFFICES ASSUME TypeInv, [Next]_vars PROVE TypeInv'
  OBVIOUS
<1>1. CASE PaymentStep /\ UNCHANGED refundVars
  BY <1>1, PaymentTyped
<1>2. CASE RefundStep
  BY <1>2, AtOnceTyped, RequestTyped, BegunTyped DEF RefundStep
<1>3. ASSUME NEW c \in Call, Progress(c) PROVE TypeInv'
  BY <1>3, PaymentTyped, InsertTyped, ProcessTyped DEF Progress
<1>4. CASE UNCHANGED vars
  BY <1>4 DEF vars, paymentVars, refundVars, TypeInv, TypeOK, CallsNameRows, Rows
<1> QED BY <1>1, <1>2, <1>3, <1>4 DEF Next

(* The variables keep their types: the wallet never goes below zero, and    *)
(* Stripe never gives back more than it was paid, over every order of       *)
(* requests, retries and failures.  Behind it stands that a call works on a *)
(* row that is there: refunds.service.ts deletes none.                      *)
THEOREM TypeCorrect == Spec => []TypeOK
<1>1. TypeInv => TypeOK
  BY DEF TypeInv
<1> QED BY <1>1, InitTyped, NextTyped, PTL DEF Spec

(***************************************************************************)
(* The locks                                                               *)
(***************************************************************************)

\* What a call does while it holds the row of its refund.
Holding == {"pay", "deduct", "save wallet", "notify"}

\* A step of the payments replaces the work of at most one call, which was not
\* at work on a refund and is not afterwards.
LEMMA PaymentCalls ==
  ASSUME PaymentStep \/ \E c \in Call : PaymentProgress(c)
  PROVE  \/ UNCHANGED calls
         \/ \E c \in Call : \E w : /\ Do(c, w)
                                   /\ calls[c].op \in {"idle", "hold", "write"}
                                   /\ w.op \in {"idle", "hold", "write"}
<1>1. ASSUME NEW p \in Payment, CustomerPays(p) \/ CreateIntent(p)
      PROVE  UNCHANGED calls
  BY <1>1 DEF CustomerPays, CreateIntent
<1>2. ASSUME NEW e \in events, NEW endpoint \in Endpoint, SkipEvent(e, endpoint)
      PROVE  UNCHANGED calls
  BY <1>2 DEF SkipEvent
<1>3. ASSUME SomeFree, NEW c \in Call,
             \/ \E p \in Payment : HoldFunds(c, p)
             \/ \E p \in Payment, s \in {"CANCELLED", "cancelled"} : CancelIntent(c, p, s)
             \/ \E e \in events, endpoint \in Endpoint : TakeEvent(c, e, endpoint)
      PROVE  \E w : Do(c, w) /\ calls[c].op = "idle" /\ w.op \in {"hold", "write"}
  <2>1. calls[c].op = "idle"
    <3>1. FreeCall(c)
      BY <1>3 DEF HoldFunds, CancelIntent, TakeEvent
    <3> QED BY <1>3, <3>1, FreeIsIdle DEF Idle
  <2>2. \E w : Do(c, w) /\ w.op \in {"hold", "write"}
    <3>1. ASSUME NEW p \in Payment, HoldFunds(c, p)
          PROVE  \E w : Do(c, w) /\ w.op \in {"hold", "write"}
      <4> DEFINE v == [op |-> "hold", of |-> p]
      <4>1. Do(c, v)
        BY <3>1 DEF HoldFunds
      <4>2. v.op = "hold"
        OBVIOUS
      <4> HIDE DEF v
      <4> QED BY <4>1, <4>2
    <3>2. ASSUME NEW p \in Payment, NEW s \in {"CANCELLED", "cancelled"}, CancelIntent(c, p, s)
          PROVE  \E w : Do(c, w) /\ w.op \in {"hold", "write"}
      <4> DEFINE v == [op |-> "write", of |-> p, status |-> s, event |-> "none"]
      <4>1. Do(c, v)
        BY <3>2 DEF CancelIntent
      <4>2. v.op = "write"
        OBVIOUS
      <4> HIDE DEF v
      <4> QED BY <4>1, <4>2
    <3>3. ASSUME NEW e \in events, NEW endpoint \in Endpoint, TakeEvent(c, e, endpoint)
          PROVE  \E w : Do(c, w) /\ w.op \in {"hold", "write"}
      <4> DEFINE v == [op |-> "write", of |-> e.of, status |-> Meaning(endpoint, e.kind),
                    event |-> e.kind]
      <4>1. Do(c, v)
        BY <3>3 DEF TakeEvent
      <4>2. v.op = "write"
        OBVIOUS
      <4> HIDE DEF v
      <4> QED BY <4>1, <4>2
    <3> QED BY <1>3, <3>1, <3>2, <3>3
  <2> QED BY <2>1, <2>2
<1>4. ASSUME NEW c \in Call, PaymentProgress(c)
      PROVE  Do(c, Idle) /\ calls[c].op \in {"hold", "write"} /\ Idle.op = "idle"
  BY <1>4 DEF PaymentProgress, HoldSaves, WriteStatus, Return, Idle
<1> QED BY <1>1, <1>2, <1>3, <1>4 DEF PaymentStep

\* A call that holds no row goes on to hold none.
LEMMA LocksUntouched ==
  ASSUME TypeInv, LocksAreHeld, UNCHANGED holder,
         NEW c \in Call, NEW w, Do(c, w), calls[c].op \notin Holding
  PROVE  LocksAreHeld'
<1>1. holder \in [Refund -> Call \cup {NoCall}] /\ calls \in [Call -> Work]
  BY DEF TypeInv, TypeOK
<1> QED BY <1>1 DEF LocksAreHeld, Do, Holding

\* A call that holds a row goes on to hold it.
LEMMA LocksKept ==
  ASSUME TypeInv, LocksAreHeld, UNCHANGED holder,
         NEW c \in Call, NEW w, Do(c, w), w.op \in Holding, w.refund = calls[c].refund
  PROVE  LocksAreHeld'
BY DEF TypeInv, TypeOK, LocksAreHeld, Do, Holding

\* A call lets its row go and ends.
LEMMA LocksReleased ==
  ASSUME TypeInv, LocksAreHeld, NEW c \in Call, calls[c].op \in Holding,
         Unlock(calls[c].refund), Return(c)
  PROVE  LocksAreHeld'
<1>1. holder' = [holder EXCEPT ![calls[c].refund] = NoCall]
  BY DEF Unlock
<1>2. calls' = [calls EXCEPT ![c] = Idle]
  BY DEF Return, Do
<1>3. SUFFICES ASSUME NEW r \in Refund, holder'[r] # NoCall
               PROVE  /\ calls'[holder'[r]].op \in Holding
                      /\ calls'[holder'[r]].refund = r
  BY <1>3 DEF LocksAreHeld, Holding
<1>4. r # calls[c].refund /\ holder'[r] = holder[r] /\ holder[r] \in Call
  BY <1>1, <1>3 DEF TypeInv, TypeOK
<1>5. calls[holder[r]].op \in Holding /\ calls[holder[r]].refund = r
  BY <1>3, <1>4 DEF LocksAreHeld, Holding
<1>6. calls'[holder[r]] = calls[holder[r]]
  BY <1>2, <1>4, <1>5 DEF TypeInv, TypeOK
<1> QED BY <1>4, <1>5, <1>6

LEMMA ProgressLocks ==
  ASSUME TypeInv, LocksAreHeld, NEW c \in Call, Progress(c)
  PROVE  LocksAreHeld'
<1>1. CASE PaymentProgress(c) /\ UNCHANGED refundVars
  <2>1. CASE UNCHANGED calls
    BY <1>1, <2>1 DEF LocksAreHeld, refundVars
  <2>2. ASSUME NEW d \in Call, NEW w, Do(d, w), calls[d].op \in {"idle", "hold", "write"}
        PROVE  LocksAreHeld'
    BY <1>1, <2>2, LocksUntouched DEF Holding, refundVars
  <2> QED BY <1>1, <2>1, <2>2, PaymentCalls
<1>2. CASE InsertRefund(c)
  BY <1>2, LocksUntouched DEF InsertRefund, Return, Holding
<1>3. CASE TakeRefund(c)
  <2>1. /\ holder' = [holder EXCEPT ![calls[c].refund] = c]
        /\ holder[calls[c].refund] = NoCall
        /\ calls' = [calls EXCEPT ![c] = [op |-> "pay", refund |-> calls[c].refund]]
        /\ calls[c].op = "lock"
    BY <1>3 DEF TakeRefund, Lock, Unlocked, Do
  <2>2. holder \in [Refund -> Call \cup {NoCall}] /\ calls \in [Call -> Work]
    BY DEF TypeInv, TypeOK
  <2> QED BY <2>1, <2>2 DEF LocksAreHeld
<1>4. CASE PayRefund(c)
  BY <1>4, LocksKept DEF PayRefund, Holding
<1>5. CASE ReadWallet(c)
  <2>1. UNCHANGED holder
    BY <1>5 DEF ReadWallet, refundVars
  <2> DEFINE r == calls[c].refund
             w == [op |-> "save wallet", refund |-> r,
                   left |-> balance[refunds[r].of] - refunds[r].amount]
  <2>2. Do(c, w)
    BY <1>5 DEF ReadWallet
  <2>3. w.op \in Holding /\ w.refund = calls[c].refund
    BY DEF Holding
  <2> HIDE DEF w
  <2> QED BY <2>1, <2>2, <2>3, LocksKept
<1>6. CASE SaveWallet(c)
  BY <1>6, LocksKept DEF SaveWallet, Holding
<1>7. CASE RefundFails(c) \/ WalletRefuses(c) \/ FormatFails(c)
  BY <1>7, LocksReleased DEF RefundFails, WalletRefuses, FormatFails, Holding
<1>8. CASE WireRefund(c) \/ MarkProcessing(c)
  BY <1>8, LocksUntouched DEF WireRefund, MarkProcessing, Return, Holding
<1> QED BY <1>1, <1>2, <1>3, <1>4, <1>5, <1>6, <1>7, <1>8 DEF Progress

LEMMA NextLocks == TypeInv /\ LocksAreHeld /\ [Next]_vars => LocksAreHeld'
<1> SUFFICES ASSUME TypeInv, LocksAreHeld, [Next]_vars PROVE LocksAreHeld'
  OBVIOUS
<1>1. CASE PaymentStep /\ UNCHANGED refundVars
  <2>1. CASE UNCHANGED calls
    BY <1>1, <2>1 DEF LocksAreHeld, refundVars
  <2>2. ASSUME NEW d \in Call, NEW w, Do(d, w), calls[d].op \in {"idle", "hold", "write"}
        PROVE  LocksAreHeld'
    BY <1>1, <2>2, LocksUntouched DEF Holding, refundVars
  <2> QED BY <1>1, <2>1, <2>2, PaymentCalls
<1>2. ASSUME NEW c \in Call, SomeFree,
             \/ \E t \in Transaction, a \in 1..Paid : Request(c, t, a)
             \/ \E r \in Refund : Process(c, r) \/ ViaWise(c, r)
      PROVE  LocksAreHeld'
  <2>1. calls[c].op \notin Holding
    <3>1. FreeCall(c)
      <4>1. ASSUME NEW p \in Transaction, NEW a \in 1..Paid, Request(c, p, a) PROVE FreeCall(c)
        BY <4>1 DEF Request
      <4>2. ASSUME NEW r \in Refund, Process(c, r) \/ ViaWise(c, r) PROVE FreeCall(c)
        BY <4>2 DEF Process, ViaWise
      <4> QED BY <1>2, <4>1, <4>2
    <3>2. calls[c] = Idle
      BY <1>2, <3>1, FreeIsIdle
    <3> QED BY <3>2 DEF Idle, Holding
  <2>2. UNCHANGED holder /\ \E w : Do(c, w)
    BY <1>2 DEF Request, Process, ViaWise, refundVars
  <2> QED BY <2>1, <2>2, LocksUntouched
<1>3. CASE \/ \E r \in Refund, s \in RefundStatus : UpdateRefundStatus(r, s)
           \/ \E p \in Payment, a \in 1..Paid : RefundDirectly(p, a)
  BY <1>3 DEF UpdateRefundStatus, RefundDirectly, LocksAreHeld
<1>4. ASSUME NEW c \in Call, Progress(c) PROVE LocksAreHeld'
  BY <1>4, ProgressLocks
<1>5. CASE UNCHANGED vars
  BY <1>5 DEF vars, refundVars, LocksAreHeld
<1> QED BY <1>1, <1>2, <1>3, <1>4, <1>5 DEF Next, RefundStep

(* No way out of processRefund (refunds.service.ts) leaves the row of its   *)
(* refund locked, whoever else works on the same refund: the holder of a    *)
(* row is always a call that is still at work on it.                        *)
THEOREM LocksHeld == Spec => []LocksAreHeld
<1>1. Init => LocksAreHeld
  BY DEF Init, LocksAreHeld
<1> QED BY <1>1, InitTyped, NextTyped, NextLocks, PTL DEF Spec

(***************************************************************************)
(* What is paid for                                                        *)
(***************************************************************************)

\* Wherever a payment is taken for paid - in its transaction, in an event, in a
\* call under way, in a refund - Stripe has been paid, and stays so.
PaidInv ==
  /\ CompletedIsPaid
  /\ \A e \in events : e.kind = "succeeded" => intent[e.of] = "succeeded"
  /\ \A c \in Call : calls[c].op = "write" /\ calls[c].status = "COMPLETED"
                     => intent[calls[c].of] = "succeeded"
  /\ \A c \in Call : calls[c].op = "insert" => Receivable(calls[c].of)
  /\ OnlyPaidIsRefunded

LEMMA EventTyped ==
  ASSUME TypeInv, NEW e \in events
  PROVE  e.of \in Payment /\ e.kind \in Kind
BY DEF TypeInv, TypeOK

\* Nothing that is taken for paid is added, and no paid intent moves.
LEMMA PaidKept ==
  ASSUME TypeInv, PaidInv,
         \A p \in Payment : intent[p] = "succeeded" => intent'[p] = "succeeded",
         \A p \in Payment : row'[p] = "COMPLETED" => row[p] = "COMPLETED" \/ intent[p] = "succeeded",
         \A e \in events' \ events : /\ e \in [of : Payment, kind : Kind]
                                     /\ e.kind = "succeeded" => intent'[e.of] = "succeeded",
         \A c \in Call : \/ calls'[c] = calls[c]
                         \/ /\ calls'[c].op = "write" /\ calls'[c].status = "COMPLETED"
                               => calls'[c].of \in Payment /\ intent[calls'[c].of] = "succeeded"
                            /\ calls'[c].op = "insert" => Receivable(calls'[c].of),
         \A r \in Refund : refunds'[r] # Absent =>
            \/ refunds[r] # Absent /\ refunds'[r].of = refunds[r].of
            \/ Receivable(refunds'[r].of)
  PROVE  PaidInv'
<1>1. CompletedIsPaid'
  BY DEF PaidInv, CompletedIsPaid
<1>2. ASSUME NEW e \in events', e.kind = "succeeded" PROVE intent'[e.of] = "succeeded"
  <2>1. CASE e \in events
    <3>1. e.of \in Payment
      BY <2>1, EventTyped
    <3> QED BY <1>2, <2>1, <3>1 DEF PaidInv
  <2>2. CASE e \notin events
    BY <1>2, <2>2
  <2> QED BY <2>1, <2>2
<1>3. \A c \in Call : calls[c].op = "write" => calls[c].of \in Payment
  BY WorkFields DEF TypeInv, TypeOK
<1>4. ASSUME NEW c \in Call
      PROVE  /\ calls'[c].op = "write" /\ calls'[c].status = "COMPLETED"
                   => intent'[calls'[c].of] = "succeeded"
             /\ calls'[c].op = "insert" => Receivable(calls[c].of)'
  <2>1. \A t : Receivable(t) => Receivable(t)'
    BY DEF Receivable
  <2> HIDE DEF Receivable
  <2> QED BY <1>3, <2>1 DEF PaidInv
<1>5. OnlyPaidIsRefunded'
  <2>1. ASSUME NEW r \in Rows' PROVE Receivable(refunds'[r].of)
    BY DEF PaidInv, OnlyPaidIsRefunded, Rows
  <2>2. \A t : Receivable(t) => Receivable(t)'
    BY DEF Receivable
  <2> QED BY <2>1, <2>2 DEF OnlyPaidIsRefunded
<1> QED BY <1>1, <1>2, <1>4, <1>5 DEF PaidInv

\* Stripe and the handlers of its events.
LEMMA PaymentPaid ==
  ASSUME TypeInv, PaidInv, UNCHANGED refundVars,
         PaymentStep \/ \E c \in Call : PaymentProgress(c)
  PROVE  PaidInv'
<1>0. /\ \A e \in events : e.of \in Payment /\ e.kind \in Kind
      /\ intent \in [Payment -> {"none", "open", "processing", "succeeded", "canceled"}]
      /\ row \in [Payment -> Stored] /\ calls \in [Call -> Work]
  BY DEF TypeInv, TypeOK
<1>1. ASSUME NEW p \in Payment, CustomerPays(p) PROVE PaidInv'
  <2>1. PICK kind \in Kind \ {"canceled"} :
          /\ intent[p] \in {"open", "processing"}
          /\ Post(p, kind)
          /\ intent' = [intent EXCEPT ![p] =
                CASE kind = "succeeded"  -> "succeeded"
                  [] kind = "processing" -> "processing"
                  [] OTHER               -> "open"]
          /\ UNCHANGED <<row, calls>>
    BY <1>1 DEF CustomerPays
  <2>2. /\ \A q \in Payment \ {p} : intent'[q] = intent[q]
        /\ intent[p] # "succeeded"
        /\ kind = "succeeded" => intent'[p] = "succeeded"
    BY <1>0, <2>1
  <2>3. events' = events \cup {[of |-> p, kind |-> kind]}
    BY <2>1 DEF Post
  <2> QED BY <1>0, <2>1, <2>2, <2>3, PaidKept DEF refundVars
<1>2. ASSUME NEW p \in Payment, CreateIntent(p) PROVE PaidInv'
  BY <1>0, <1>2, PaidKept DEF CreateIntent, refundVars
<1>3. ASSUME NEW e \in events, NEW endpoint \in Endpoint, SkipEvent(e, endpoint) PROVE PaidInv'
  BY <1>0, <1>3, PaidKept DEF SkipEvent, refundVars
<1>4. ASSUME NEW c \in Call, NEW p \in Payment, HoldFunds(c, p) PROVE PaidInv'
  <2>1. /\ intent[p] = "none" /\ intent' = [intent EXCEPT ![p] = "open"]
        /\ calls' = [calls EXCEPT ![c] = [op |-> "hold", of |-> p]]
        /\ UNCHANGED <<posted, events, row>>
    BY <1>4 DEF HoldFunds, Do
  <2>2. \A d \in Call : calls'[d] = calls[d] \/ calls'[d].op = "hold"
    BY <1>0, <2>1
  <2> QED BY <1>0, <2>1, <2>2, PaidKept DEF refundVars
<1>5. ASSUME NEW c \in Call, NEW p \in Payment, NEW s \in {"CANCELLED", "cancelled"},
             CancelIntent(c, p, s)
      PROVE  PaidInv'
  <2>1. /\ intent[p] = "open" /\ intent' = [intent EXCEPT ![p] = "canceled"]
        /\ calls' = [calls EXCEPT ![c] =
                [op |-> "write", of |-> p, status |-> s, event |-> "none"]]
        /\ events' = events \cup {[of |-> p, kind |-> "canceled"]}
        /\ UNCHANGED row
    BY <1>5 DEF CancelIntent, Do, Post
  <2>2. \A d \in Call : \/ calls'[d] = calls[d]
                        \/ calls'[d].op = "write" /\ calls'[d].status # "COMPLETED"
    <3>1. s # "COMPLETED"
      <4>1. s = "CANCELLED" \/ s = "cancelled"
        OBVIOUS
      <4> QED BY <4>1
    <3> QED BY <1>0, <2>1, <3>1
  <2>3. \A e \in events' \ events : e \in [of : Payment, kind : Kind] /\ e.kind # "succeeded"
    BY <2>1 DEF Kind
  <2> QED BY <1>0, <2>1, <2>2, <2>3, PaidKept DEF refundVars
<1>6. ASSUME NEW c \in Call, NEW e \in events, NEW endpoint \in Endpoint, TakeEvent(c, e, endpoint)
      PROVE  PaidInv'
  <2>1. /\ calls' = [calls EXCEPT ![c] = [op |-> "write", of |-> e.of,
                        status |-> Meaning(endpoint, e.kind), event |-> e.kind]]
        /\ UNCHANGED <<intent, posted, events, row>>
    BY <1>6 DEF TakeEvent, Do, paymentVars
  <2>2. Meaning(endpoint, e.kind) = "COMPLETED" => e.kind = "succeeded"
    BY <1>0 DEF Meaning, Kind
  <2>3. e.kind = "succeeded" => intent[e.of] = "succeeded"
    BY DEF PaidInv
  <2>4. \A d \in Call : \/ calls'[d] = calls[d]
                        \/ /\ calls'[d].op = "write" /\ calls'[d].of = e.of
                           /\ calls'[d].status = Meaning(endpoint, e.kind)
    BY <1>0, <2>1
  <2> QED BY <1>0, <2>1, <2>2, <2>3, <2>4, PaidKept DEF refundVars
<1>7. ASSUME NEW c \in Call, HoldSaves(c) PROVE PaidInv'
  <2>1. /\ row' = row \/ row' = [row EXCEPT ![calls[c].of] = "PENDING"]
        /\ calls' = [calls EXCEPT ![c] = Idle]
        /\ UNCHANGED <<intent, posted, events>>
    BY <1>7 DEF HoldSaves, Return, Do
  <2>2. \A p \in Payment : row'[p] = row[p] \/ row'[p] = "PENDING"
    BY <1>0, <2>1
  <2>3. \A d \in Call : calls'[d] = calls[d] \/ calls'[d].op = "idle"
    BY <1>0, <2>1 DEF Idle
  <2> QED BY <1>0, <2>1, <2>2, <2>3, PaidKept DEF refundVars
<1>8. ASSUME NEW c \in Call, WriteStatus(c) PROVE PaidInv'
  <2>1. /\ row' = row \/ row' = [row EXCEPT ![calls[c].of] = calls[c].status]
        /\ calls' = [calls EXCEPT ![c] = Idle] /\ calls[c].op = "write"
        /\ events' \subseteq events /\ UNCHANGED intent
    BY <1>8 DEF WriteStatus, Return, Do
  <2>2. calls[c].status = "COMPLETED" => intent[calls[c].of] = "succeeded"
    BY <2>1 DEF PaidInv
  <2>3. \A p \in Payment : row'[p] = row[p] \/ (p = calls[c].of /\ row'[p] = calls[c].status)
    BY <1>0, <2>1
  <2>4. \A d \in Call : calls'[d] = calls[d] \/ calls'[d].op = "idle"
    BY <1>0, <2>1 DEF Idle
  <2> QED BY <1>0, <2>1, <2>2, <2>3, <2>4, PaidKept DEF refundVars
<1> QED BY <1>1, <1>2, <1>3, <1>4, <1>5, <1>6, <1>7, <1>8 DEF PaymentStep, PaymentProgress

LEMMA NextPaid == TypeInv /\ PaidInv /\ [Next]_vars => PaidInv'
<1> SUFFICES ASSUME TypeInv, PaidInv, [Next]_vars PROVE PaidInv'
  OBVIOUS
<1>1. calls \in [Call -> Work] /\ refunds \in [Refund -> RefundRow]
  BY DEF TypeInv, TypeOK
<1>2. CASE PaymentStep /\ UNCHANGED refundVars
  BY <1>2, PaymentPaid
<1>3. ASSUME NEW c \in Call, NEW p \in Transaction, NEW a \in 1..Paid, Request(c, p, a) PROVE PaidInv'
  <2>1. /\ calls' = [calls EXCEPT ![c] = [op |-> "insert", of |-> p, amount |-> a]]
        /\ StatusOf(p) = "COMPLETED" /\ Type(p) \in RefundableTypes
        /\ UNCHANGED <<paymentVars, refundVars>>
    BY <1>3 DEF Request, MayRefund, Do
  <2>2. Receivable(p)
    <3>1. p \in Payment => intent[p] = "succeeded"
      BY <2>1 DEF PaidInv, CompletedIsPaid, StatusOf
    <3>2. p \notin Income
      BY <2>1 DEF Type, RefundableTypes, Transaction
    <3> QED BY <3>1, <3>2 DEF Receivable
  <2>3. \A d \in Call : calls'[d] = calls[d] \/ (calls'[d].op = "insert" /\ calls'[d].of = p)
    BY <1>1, <2>1
  <2> QED BY <2>1, <2>2, <2>3, PaidKept DEF paymentVars, refundVars
<1>4. ASSUME NEW c \in Call, InsertRefund(c) PROVE PaidInv'
  <2>1. /\ calls' = [calls EXCEPT ![c] = Idle] /\ calls[c].op = "insert"
        /\ UNCHANGED paymentVars
        /\ \/ UNCHANGED refunds
           \/ \E r \in Refund : refunds' = [refunds EXCEPT ![r] =
                  [of |-> calls[c].of, amount |-> calls[c].amount, status |-> "PENDING"]]
    BY <1>4 DEF InsertRefund, Return, Do
  <2>2. Receivable(calls[c].of)
    BY <2>1 DEF PaidInv
  <2>3. \A d \in Call : calls'[d] = calls[d] \/ calls'[d].op = "idle"
    BY <1>1, <2>1 DEF Idle
  <2>4. \A r \in Refund : refunds'[r] = refunds[r] \/ refunds'[r].of = calls[c].of
    BY <1>1, <2>1
  <2> QED BY <2>1, <2>2, <2>3, <2>4, PaidKept DEF paymentVars
<1>5. ASSUME NEW c \in Call, NEW w, Do(c, w), w.op \in OnRefund \cup {"idle"}, UNCHANGED paymentVars,
             \/ UNCHANGED refunds
             \/ \E r \in Rows, s \in RefundStatus : SetRefund(r, s)
      PROVE  PaidInv'
  <2>1. \A d \in Call : calls'[d] = calls[d] \/ calls'[d].op \notin {"write", "insert"}
    BY <1>1, <1>5 DEF Do, OnRefund
  <2>2. \A r \in Refund : refunds'[r] # Absent => refunds[r] # Absent /\ refunds'[r].of = refunds[r].of
    BY <1>5, StatusSet DEF Rows
  <2> QED BY <1>5, <2>1, <2>2, PaidKept DEF paymentVars
<1>6. ASSUME NEW c \in Call, NEW r \in Refund, Process(c, r) \/ ViaWise(c, r) PROVE PaidInv'
  <2>1. PICK op \in {"lock", "wise"} : Do(c, [op |-> op, refund |-> r])
    BY <1>6 DEF Process, ViaWise
  <2>2. UNCHANGED <<paymentVars, refunds>>
    BY <1>6 DEF Process, ViaWise, refundVars
  <2> DEFINE w == [op |-> op, refund |-> r]
  <2>3. w.op \in OnRefund /\ Do(c, w)
    BY <2>1 DEF OnRefund
  <2> HIDE DEF w
  <2> QED BY <1>5, <2>2, <2>3
<1>7. ASSUME NEW c \in Call,
             \/ TakeRefund(c) \/ PayRefund(c) \/ RefundFails(c)
             \/ ReadWallet(c) \/ WalletRefuses(c) \/ SaveWallet(c) \/ FormatFails(c)
             \/ WireRefund(c) \/ MarkProcessing(c)
      PROVE  PaidInv'
  <2>1. UNCHANGED paymentVars
    BY <1>7 DEF TakeRefund, PayRefund, RefundFails, ReadWallet, WalletRefuses, SaveWallet,
                FormatFails, WireRefund, MarkProcessing
  <2>2. \/ UNCHANGED refunds
        \/ \E r \in Rows, s \in RefundStatus : SetRefund(r, s)
    <3>1. CASE RefundFails(c) \/ MarkProcessing(c)
      <4>1. calls[c].refund \in Rows
        BY <3>1, CallNamesRow DEF RefundFails, MarkProcessing, OnRefund
      <4> QED BY <3>1, <4>1 DEF RefundFails, MarkProcessing, RefundStatus
    <3>2. CASE ~(RefundFails(c) \/ MarkProcessing(c))
      BY <1>7, <3>2 DEF TakeRefund, PayRefund, ReadWallet, WalletRefuses, SaveWallet,
                        FormatFails, WireRefund, refundVars
    <3> QED BY <3>1, <3>2
  <2>3. \E w : Do(c, w) /\ w.op \in OnRefund \cup {"idle"}
    <3> DEFINE go(op) == [op |-> op, refund |-> calls[c].refund]
               save == [op |-> "save wallet", refund |-> calls[c].refund,
                        left |-> balance[refunds[calls[c].refund].of] - refunds[calls[c].refund].amount]
    <3>1. \A op \in OnRefund : go(op).op = op
      OBVIOUS
    <3>2. save.op = "save wallet" /\ Idle.op = "idle"
      BY DEF Idle
    <3>3. \/ Do(c, go("pay")) \/ Do(c, go("deduct")) \/ Do(c, save) \/ Do(c, go("notify"))
          \/ Do(c, go("mark")) \/ Do(c, Idle)
      BY <1>7 DEF TakeRefund, PayRefund, RefundFails, ReadWallet, WalletRefuses, SaveWallet,
                  FormatFails, WireRefund, MarkProcessing, Return
    <3> HIDE DEF go, save
    <3> QED BY <3>1, <3>2, <3>3 DEF OnRefund
  <2> QED BY <1>5, <2>1, <2>2, <2>3
<1>8. ASSUME NEW r \in Refund, NEW s \in RefundStatus, UpdateRefundStatus(r, s) PROVE PaidInv'
  <2>1. r \in Rows /\ SetRefund(r, s) /\ UNCHANGED <<paymentVars, calls>>
    BY <1>8 DEF UpdateRefundStatus
  <2>2. \A q \in Refund : refunds'[q] # Absent => refunds[q] # Absent /\ refunds'[q].of = refunds[q].of
    BY <2>1, StatusSet DEF Rows
  <2> QED BY <2>1, <2>2, PaidKept DEF paymentVars
<1>9. CASE \/ \E p \in Payment, a \in 1..Paid : RefundDirectly(p, a)
           \/ UNCHANGED vars
  <2>1. UNCHANGED <<intent, row, events, calls, refunds>>
    BY <1>9 DEF RefundDirectly, vars, paymentVars, refundVars
  <2> QED BY <2>1, PaidKept
<1>10. ASSUME NEW c \in Call, Progress(c) PROVE PaidInv'
  BY <1>10, <1>4, <1>7, PaymentPaid DEF Progress
<1> QED BY <1>2, <1>3, <1>6, <1>8, <1>9, <1>10 DEF Next, RefundStep

LEMMA InitPaid == Init => PaidInv
BY DEF Init, PaymentsInit, PaidInv, CompletedIsPaid, OnlyPaidIsRefunded, Rows, Idle

(* A refund is only ever requested for a payment Stripe has received or for *)
(* a withdrawal.  The request (refunds.service.ts) asks the transaction     *)
(* alone; that is enough for a payment because COMPLETED is only written    *)
(* for an event of success, which only a payment posts, and Stripe never    *)
(* takes a paid intent back.                                                *)
THEOREM RefundsArePaid == Spec => []OnlyPaidIsRefunded
<1>1. PaidInv => OnlyPaidIsRefunded
  BY DEF PaidInv
<1> QED BY <1>1, InitTyped, NextTyped, InitPaid, NextPaid, PTL DEF Spec

(***************************************************************************)
(* The wallet                                                              *)
(***************************************************************************)

\* s[A] is the sum of f over the calls in A.  That there is such an s for the
\* sums the wallet is about is itself kept by the steps: it begins with zeros.
Sums == [SUBSET Call -> Nat]
Adds(s, f) == \A A \in SUBSET Call : \A c \in A : s[A] = s[A \ {c}] + f[c]

\* What a call has had Stripe give back and has still to take from the wallet.
Deducting == {"deduct", "save wallet"}
Owes(c, p) ==
  IF calls[c].op \in Deducting /\ refunds[calls[c].refund].of = p
  THEN refunds[calls[c].refund].amount ELSE 0
Owed(p) == [c \in Call |-> Owes(c, p)]
Saves(c, p) == calls[c].op = "save wallet" /\ refunds[calls[c].refund].of = p

\* What the wallet has lost, and all that calls will still take from it, Stripe
\* has given back; and so it will be when a call saves a balance it read before.
Covered(p, s) ==
  /\ Adds(s, Owed(p))
  /\ Balance - balance[p] + s[Call] <= returned[p]
  /\ \A c \in Call : Saves(c, p) =>
       Balance - calls[c].left + s[Call \ {c}] <= returned[p]
MoneyInv == \A p \in Transaction : \E s \in Sums : Covered(p, s)

LEMMA OwedTyped ==
  ASSUME TypeInv, NEW p \in Transaction
  PROVE  Owed(p) \in [Call -> Nat]
<1>1. ASSUME NEW c \in Call PROVE Owes(c, p) \in Nat
  <2>1. CASE calls[c].op \in Deducting
    <3>1. refunds[calls[c].refund] \in [of : Transaction, amount : 1..Paid, status : RefundStatus]
      BY <2>1, CallNamesRow DEF Deducting, OnRefund
    <3>2. refunds[calls[c].refund].amount \in 1..Paid
      BY <3>1
    <3> QED BY <3>2 DEF Owes
  <2>2. CASE calls[c].op \notin Deducting
    BY <2>2 DEF Owes
  <2> QED BY <2>1, <2>2
<1> QED BY <1>1 DEF Owed

LEMMA AmountsTyped ==
  ASSUME TypeInv
  PROVE  /\ \A p \in Transaction : returned[p] \in Nat /\ balance[p] \in Nat
         /\ \A c \in Call : calls[c].op = "save wallet" => calls[c].left \in Nat
<1>1. \A p \in Transaction : returned[p] \in Nat /\ balance[p] \in Nat
  BY DEF TypeInv, TypeOK
<1>2. ASSUME NEW c \in Call, calls[c].op = "save wallet" PROVE calls[c].left \in Nat
  <2>1. calls[c].left \in 0..Balance
    BY <1>2, WorkFields DEF TypeInv, TypeOK
  <2> QED BY <2>1
<1> QED BY <1>1, <1>2

\* No call begins or ends to owe, and Stripe may give back more.
LEMMA MoneyKept ==
  ASSUME TypeInv, MoneyInv, TypeOK', UNCHANGED balance,
         \A p \in Transaction : returned'[p] >= returned[p],
         \A c \in Call : \/ calls'[c] = calls[c]
                         \/ calls[c].op \notin Deducting /\ calls'[c].op \notin Deducting,
         \A r \in Rows : refunds'[r].of = refunds[r].of /\ refunds'[r].amount = refunds[r].amount
  PROVE  MoneyInv'
<1> SUFFICES ASSUME NEW p \in Transaction PROVE \E s \in Sums : Covered(p, s)'
  BY DEF MoneyInv, Sums
<1>1. PICK s \in Sums : Covered(p, s)
  BY DEF MoneyInv
<1>2. \A c \in Call : calls[c].op \in Deducting => calls[c].refund \in Rows
  BY DEF TypeInv, CallsNameRows, Deducting, OnRefund
<1>3. ASSUME NEW c \in Call PROVE Owes(c, p)' = Owes(c, p)
  BY <1>2 DEF Owes
<1>4. Owed(p)' = Owed(p)
  BY <1>3 DEF Owed
<1>5. ASSUME NEW c \in Call, Saves(c, p)'
      PROVE  Saves(c, p) /\ calls'[c].left = calls[c].left
  <2>1. calls'[c] = calls[c] /\ calls[c].op \in Deducting
    BY <1>5 DEF Saves, Deducting
  <2> QED BY <1>2, <1>5, <2>1 DEF Saves
<1>6. /\ returned[p] \in Nat /\ returned'[p] \in Nat /\ balance[p] \in Nat
      /\ \A c \in Call : calls[c].op = "save wallet" => calls[c].left \in Nat
      /\ \A A \in SUBSET Call : s[A] \in Nat
  <2>1. returned'[p] \in Nat
    BY DEF TypeOK
  <2> QED BY <2>1, AmountsTyped DEF Sums
<1>7. Adds(s, Owed(p))'
  BY <1>1, <1>4 DEF Covered, Adds
<1>8. Balance - balance[p] + s[Call] <= returned'[p]
  <2>1. Balance - balance[p] + s[Call] <= returned[p] /\ s[Call] \in Nat
    BY <1>1, <1>6 DEF Covered
  <2>2. returned'[p] >= returned[p]
    OBVIOUS
  <2>3. Balance \in Nat /\ balance[p] \in Nat /\ returned[p] \in Nat /\ returned'[p] \in Nat
    BY <1>6
  <2> QED BY <2>1, <2>2, <2>3
<1>9. ASSUME NEW c \in Call, Saves(c, p)'
      PROVE  Balance - calls'[c].left + s[Call \ {c}] <= returned'[p]
  <2>1. /\ Balance - calls[c].left + s[Call \ {c}] <= returned[p]
        /\ calls[c].left \in Nat /\ calls'[c].left = calls[c].left
    BY <1>1, <1>5, <1>6, <1>9 DEF Covered, Saves
  <2>2. returned'[p] >= returned[p] /\ s[Call \ {c}] \in Nat
    BY <1>6
  <2>3. Balance \in Nat /\ returned[p] \in Nat /\ returned'[p] \in Nat
    BY <1>6
  <2> QED BY <2>1, <2>2, <2>3
<1>10. Covered(p, s)'
  BY <1>7, <1>8, <1>9 DEF Covered
<1> QED BY <1>10

\* The call at work on a refund: what its row names, and what it owes to whom.
LEMMA OwesItsRow ==
  ASSUME TypeInv, NEW c \in Call, calls[c].op \in OnRefund
  PROVE  LET w == refunds[calls[c].refund]
         IN  /\ w.of \in Transaction /\ w.amount \in Nat
             /\ Owed(w.of)[c] = IF calls[c].op \in Deducting THEN w.amount ELSE 0
             /\ \A p \in Transaction \ {w.of} : Owed(p)[c] = 0
<1> DEFINE w == refunds[calls[c].refund]
<1>1. w \in [of : Transaction, amount : 1..Paid, status : RefundStatus]
  BY CallNamesRow
<1>2. w.of \in Transaction /\ w.amount \in 1..Paid
  BY <1>1
<1>3. Owes(c, w.of) = IF calls[c].op \in Deducting THEN w.amount ELSE 0
  BY DEF Owes
<1>4. \A p \in Transaction \ {w.of} : Owes(c, p) = 0
  BY DEF Owes
<1> HIDE DEF w
<1>5. \A p : Owed(p)[c] = Owes(c, p)
  BY DEF Owed
<1>6. w.amount \in Nat
  BY <1>2
<1> QED BY <1>2, <1>3, <1>4, <1>5, <1>6 DEF w

\* A call goes from one piece of work on its refund to another, or ends: nobody
\* else's debt changes, and its own only towards its transaction.
LEMMA OwedElsewhere ==
  ASSUME TypeInv, TypeInv', NEW c \in Call, calls[c].op \in OnRefund, UNCHANGED refunds,
         NEW w, Do(c, w), w.op \in OnRefund => w.refund = calls[c].refund
  PROVE  LET q == refunds[calls[c].refund].of
         IN  /\ \A p \in Transaction \ {q} : /\ Owed(p)' = Owed(p)
                                        /\ \A d \in Call : Saves(d, p)' => Saves(d, p) /\ d # c
             /\ \A d \in Call \ {c} : /\ calls'[d] = calls[d]
                                      /\ \A p : Owed(p)'[d] = Owed(p)[d]
                                      /\ \A p : Saves(d, p)' = Saves(d, p)
<1> DEFINE q == refunds[calls[c].refund].of
<1>1. calls' = [calls EXCEPT ![c] = w] /\ calls \in [Call -> Work]
  BY DEF Do, TypeInv, TypeOK
<1>2. calls'[c] = w /\ \A d \in Call \ {c} : calls'[d] = calls[d]
  BY <1>1
<1>3. \A d \in Call \ {c} : \A p : Owes(d, p)' = Owes(d, p) /\ Saves(d, p)' = Saves(d, p)
  BY <1>2 DEF Owes, Saves
<1>4. ASSUME NEW p \in Transaction \ {q}
      PROVE  Owes(c, p)' = 0 /\ Owes(c, p) = 0 /\ ~Saves(c, p)'
  BY <1>2 DEF Owes, Saves, Deducting, OnRefund
<1> HIDE DEF q
<1>5. \A p : \A d \in Call : Owed(p)[d] = Owes(d, p) /\ Owed(p)'[d] = Owes(d, p)'
  BY DEF Owed
<1>6. ASSUME NEW p \in Transaction \ {q} PROVE Owed(p)' = Owed(p)
  <2>1. \A d \in Call : Owes(d, p)' = Owes(d, p)
    BY <1>3, <1>4
  <2> QED BY <2>1 DEF Owed
<1> QED BY <1>2, <1>3, <1>4, <1>5, <1>6 DEF q

\* What is left to show of a step of a call at work on a refund of q: that q is
\* covered; the other transactions are as they were.
LEMMA MoneyElsewhere ==
  ASSUME TypeInv, TypeInv', MoneyInv, NEW c \in Call, calls[c].op \in OnRefund, UNCHANGED refunds,
         NEW w, Do(c, w), w.op \in OnRefund => w.refund = calls[c].refund,
         NEW q, q = refunds[calls[c].refund].of,
         \A p \in Transaction \ {q} : returned'[p] = returned[p] /\ balance'[p] = balance[p],
         \E s \in Sums : Covered(q, s)'
  PROVE  MoneyInv'
<1> SUFFICES ASSUME NEW p \in Transaction PROVE \E s \in Sums : Covered(p, s)'
  BY DEF MoneyInv, Sums
<1>1. CASE p = q
  BY <1>1
<1>2. ASSUME p # q PROVE \E s \in Sums : Covered(p, s)'
  <2>1. PICK s \in Sums : Covered(p, s)
    BY DEF MoneyInv
  <2>2. /\ Owed(p)' = Owed(p)
        /\ \A d \in Call : Saves(d, p)' => Saves(d, p) /\ d # c
        /\ \A d \in Call \ {c} : calls'[d] = calls[d]
    BY <1>2, OwedElsewhere
  <2>3. returned'[p] = returned[p] /\ balance'[p] = balance[p]
    BY <1>2
  <2>4. Adds(s, Owed(p))
    BY <2>1 DEF Covered
  <2>5. Adds(s, Owed(p))'
    BY <2>2, <2>4 DEF Adds
  <2>6. Balance - balance'[p] + s[Call] <= returned'[p]
    BY <2>1, <2>3 DEF Covered
  <2>7. \A d \in Call : Saves(d, p)' => Balance - calls'[d].left + s[Call \ {d}] <= returned'[p]
    BY <2>1, <2>2, <2>3 DEF Covered
  <2>8. Covered(p, s)'
    BY <2>5, <2>6, <2>7 DEF Covered
  <2> QED BY <2>8
<1> QED BY <1>1, <1>2

\* The sums towards q after the debt of one call has changed.
LEMMA SumMoved ==
  ASSUME TypeInv, NEW c \in Call, NEW q \in Transaction, NEW s \in Sums, Adds(s, Owed(q)),
         NEW x \in Nat, Owed(q)[c] = x, NEW y \in Nat, Owed(q)'[c] = y,
         \A d \in Call \ {c} : Owed(q)'[d] = Owed(q)[d]
  PROVE  \E t \in Sums :
           /\ Adds(t, Owed(q))'
           /\ t[Call] = s[Call] - x + y
           /\ \A d \in Call \ {c} : t[Call \ {d}] = s[Call \ {d}] - x + y
<1>1. Owed(q) \in [Call -> Nat]
  BY OwedTyped
<1>2. Owed(q)' \in [Call -> Nat]
  <2>1. \A d \in Call : Owed(q)'[d] \in Nat
    BY <1>1
  <2>2. Owed(q)' = [d \in Call |-> Owed(q)'[d]]
    BY DEF Owed
  <2> QED BY <2>1, <2>2
<1>3. PICK f \in [Call -> Nat] : f = Owed(q)
  BY <1>1
<1>4. PICK g \in [Call -> Nat] : g = Owed(q)'
  BY <1>2
<1>5. f[c] = x /\ g[c] = y
  BY <1>3, <1>4
<1>6. \A d \in Call \ {c} : g[d] = f[d]
  BY <1>3, <1>4
<1>7. Adds(s, f)
  BY <1>3
<1> DEFINE t == [A \in SUBSET Call |-> IF c \in A THEN s[A \ {c}] + g[c] ELSE s[A]]
<1>8. t \in Sums
  BY DEF Sums
<1>9. \A A \in SUBSET Call : c \in A => t[A] = s[A \ {c}] + g[c] /\ s[A] = s[A \ {c}] + f[c]
  BY <1>7 DEF Adds
<1>10. \A A \in SUBSET Call : c \notin A => t[A] = s[A]
  OBVIOUS
<1>11. \A A \in SUBSET Call : s[A] \in Nat
  BY DEF Sums
<1> HIDE DEF t
<1>12. ASSUME NEW A \in SUBSET Call, NEW d \in A PROVE t[A] = t[A \ {d}] + g[d]
  <2>1. CASE d = c
    BY <1>9, <1>10, <2>1
  <2>2. CASE d # c /\ c \in A
    <3>1. s[A \ {c}] = s[(A \ {c}) \ {d}] + f[d]
      BY <1>7, <2>2 DEF Adds
    <3>2. (A \ {c}) \ {d} = (A \ {d}) \ {c} /\ c \in A \ {d}
      BY <2>2
    <3>3. t[A \ {d}] = s[(A \ {d}) \ {c}] + g[c]
      BY <1>9, <3>2
    <3>4. /\ s[(A \ {d}) \ {c}] \in Nat /\ f[d] \in Nat /\ g[c] \in Nat /\ g[d] = f[d]
          /\ t[A] = s[A \ {c}] + g[c]
      BY <1>6, <1>9, <1>11, <2>2
    <3>5. s[A \ {c}] = s[(A \ {d}) \ {c}] + f[d]
      BY <3>1, <3>2
    <3>6. t[A] = (s[(A \ {d}) \ {c}] + f[d]) + g[c]
      BY <3>4, <3>5
    <3> QED BY <3>3, <3>4, <3>6
  <2>3. CASE d # c /\ c \notin A
    <3>1. s[A] = s[A \ {d}] + f[d]
      BY <1>7 DEF Adds
    <3> QED BY <1>6, <1>10, <2>3, <3>1
  <2> QED BY <2>1, <2>2, <2>3
<1>13. Adds(t, g)
  BY <1>12 DEF Adds
<1>14. t[Call] = s[Call] - f[c] + g[c] /\ t[Call \ {c}] = s[Call \ {c}]
  <2>1. Call \in SUBSET Call /\ Call \ {c} \in SUBSET Call /\ c \in Call /\ c \notin Call \ {c}
    OBVIOUS
  <2>2. t[Call] = s[Call \ {c}] + g[c] /\ s[Call] = s[Call \ {c}] + f[c]
    BY <1>9, <2>1
  <2>3. t[Call \ {c}] = s[Call \ {c}]
    BY <1>10, <2>1
  <2>4. s[Call \ {c}] \in Nat /\ f[c] \in Nat /\ g[c] \in Nat
    BY <1>11, <2>1
  <2> QED BY <2>2, <2>3, <2>4
<1>15. \A d \in Call \ {c} : t[Call \ {d}] = s[Call \ {d}] - f[c] + g[c]
  <2> SUFFICES ASSUME NEW d \in Call \ {c} PROVE t[Call \ {d}] = s[Call \ {d}] - f[c] + g[c]
    OBVIOUS
  <2>1. Call \ {d} \in SUBSET Call /\ c \in Call \ {d}
    OBVIOUS
  <2>2. /\ t[Call \ {d}] = s[(Call \ {d}) \ {c}] + g[c]
        /\ s[Call \ {d}] = s[(Call \ {d}) \ {c}] + f[c]
        /\ s[(Call \ {d}) \ {c}] \in Nat
    BY <1>9, <1>11, <2>1
  <2> QED BY <2>2
<1>16. Adds(t, Owed(q))'
  BY <1>4, <1>13 DEF Adds
<1> QED BY <1>5, <1>8, <1>14, <1>15, <1>16

LEMMA SumsTyped ==
  ASSUME NEW s \in Sums, NEW c \in Call
  PROVE  s[Call] \in Nat /\ s[Call \ {c}] \in Nat
BY DEF Sums

\* Stripe has given the amount back, and the call owes it to the wallet.
LEMMA PayCovered ==
  ASSUME TypeInv, TypeInv', MoneyInv, NEW c \in Call, PayRefund(c)
  PROVE  MoneyInv'
<1> DEFINE r == calls[c].refund
           w == [op |-> "deduct", refund |-> r]
<1>1. /\ calls[c].op = "pay" /\ GiveBack(refunds[r].of, refunds[r].amount)
      /\ Do(c, w) /\ UNCHANGED <<refunds, balance>>
  BY DEF PayRefund
<1>2. w.op = "deduct" /\ w.refund = r
  OBVIOUS
<1>3. calls[c].op \in OnRefund /\ calls[c].op \notin Deducting
  BY <1>1 DEF OnRefund, Deducting
<1>4. PICK q \in Transaction : q = refunds[r].of
  BY <1>3, OwesItsRow
<1>5. PICK a \in Nat : a = refunds[r].amount
  BY <1>3, OwesItsRow
<1>6. calls'[c] = w /\ \A d \in Call \ {c} : calls'[d] = calls[d]
  BY <1>1 DEF Do, TypeInv, TypeOK
<1> HIDE DEF w
<1>7. Owed(q)[c] = 0 /\ Owed(q)'[c] = a
  <2>1. Owes(c, q) = 0
    BY <1>3 DEF Owes
  <2>2. Owes(c, q)' = a
    BY <1>1, <1>2, <1>4, <1>5, <1>6 DEF Owes, Deducting
  <2> QED BY <2>1, <2>2 DEF Owed
<1>8. PICK s \in Sums : Covered(q, s)
  BY DEF MoneyInv
<1>9. /\ \A p \in Transaction \ {q} : returned'[p] = returned[p] /\ balance'[p] = balance[p]
      /\ returned'[q] = returned[q] + a /\ balance'[q] = balance[q]
  BY <1>1, <1>4, <1>5 DEF GiveBack, TypeInv, TypeOK
<1>10. \A d \in Call \ {c} : Owed(q)'[d] = Owed(q)[d] /\ Saves(d, q)' = Saves(d, q)
  BY <1>1, <1>2, <1>3, OwedElsewhere
<1>11. ~Saves(c, q)'
  BY <1>2, <1>6 DEF Saves
<1>12. Adds(s, Owed(q))
  BY <1>8 DEF Covered
<1>13. PICK t \in Sums :
         /\ Adds(t, Owed(q))'
         /\ t[Call] = s[Call] - 0 + a
         /\ \A d \in Call \ {c} : t[Call \ {d}] = s[Call \ {d}] - 0 + a
  <2>1. 0 \in Nat /\ Owed(q)[c] = 0 /\ Owed(q)'[c] = a
    BY <1>7
  <2>2. \A d \in Call \ {c} : Owed(q)'[d] = Owed(q)[d]
    BY <1>10
  <2> HIDE DEF Owed, Adds, Sums
  <2> QED BY <1>12, <2>1, <2>2, SumMoved
<1>14. Balance \in Nat /\ balance[q] \in Nat /\ returned[q] \in Nat /\ s[Call] \in Nat
  BY AmountsTyped, SumsTyped
<1>15. Balance - balance'[q] + t[Call] <= returned'[q]
  <2>1. Balance - balance[q] + s[Call] <= returned[q]
    BY <1>8 DEF Covered
  <2>2. t[Call] = s[Call] + a
    BY <1>13, <1>14
  <2>3. returned'[q] = returned[q] + a /\ balance'[q] = balance[q]
    BY <1>9
  <2> QED BY <1>14, <2>1, <2>2, <2>3
<1>16. ASSUME NEW d \in Call, Saves(d, q)'
       PROVE  Balance - calls'[d].left + t[Call \ {d}] <= returned'[q]
  <2>1. d # c /\ Saves(d, q) /\ calls'[d] = calls[d]
    BY <1>6, <1>10, <1>11, <1>16
  <2>2. /\ Balance - calls[d].left + s[Call \ {d}] <= returned[q]
        /\ s[Call \ {d}] \in Nat /\ calls[d].left \in Nat
    BY <1>8, <2>1, AmountsTyped, SumsTyped DEF Covered, Saves
  <2>3. t[Call \ {d}] = s[Call \ {d}] + a
    BY <1>13, <2>1, <2>2
  <2>4. returned'[q] = returned[q] + a /\ calls'[d].left = calls[d].left
    BY <1>9, <2>1
  <2> QED BY <1>14, <2>2, <2>3, <2>4
<1>17. Covered(q, t)'
  BY <1>13, <1>15, <1>16 DEF Covered
<1> QED BY <1>1, <1>2, <1>3, <1>4, <1>9, <1>17, MoneyElsewhere

\* What the call is to save is what the wallet holds less its own debt.
LEMMA ReadCovered ==
  ASSUME TypeInv, TypeInv', MoneyInv, NEW c \in Call, ReadWallet(c)
  PROVE  MoneyInv'
<1> DEFINE r == calls[c].refund
           w == [op |-> "save wallet", refund |-> r,
                 left |-> balance[refunds[r].of] - refunds[r].amount]
<1>1. /\ calls[c].op = "deduct" /\ balance[refunds[r].of] >= refunds[r].amount
      /\ Do(c, w) /\ UNCHANGED <<refunds, returned, balance>>
  BY DEF ReadWallet, refundVars
<1>2. /\ w.op = "save wallet" /\ w.refund = r
      /\ w.left = balance[refunds[r].of] - refunds[r].amount
  OBVIOUS
<1>3. calls[c].op \in OnRefund /\ calls[c].op \in Deducting
  BY <1>1 DEF OnRefund, Deducting
<1>4. PICK q \in Transaction : q = refunds[r].of
  BY <1>3, OwesItsRow
<1>5. PICK a \in Nat : a = refunds[r].amount
  BY <1>3, OwesItsRow
<1>6. calls'[c] = w /\ \A d \in Call \ {c} : calls'[d] = calls[d]
  BY <1>1 DEF Do, TypeInv, TypeOK
<1> HIDE DEF w
<1>7. Owed(q)[c] = a /\ Owed(q)'[c] = a
  <2>1. Owes(c, q) = a
    BY <1>3, <1>4, <1>5 DEF Owes
  <2>2. Owes(c, q)' = a
    BY <1>1, <1>2, <1>4, <1>5, <1>6 DEF Owes, Deducting
  <2> QED BY <2>1, <2>2 DEF Owed
<1>8. PICK s \in Sums : Covered(q, s)
  BY DEF MoneyInv
<1>9. \A d \in Call \ {c} : Owed(q)'[d] = Owed(q)[d] /\ Saves(d, q)' = Saves(d, q)
  BY <1>1, <1>2, <1>3, OwedElsewhere
<1>10. Adds(s, Owed(q))'
  <2>1. \A d \in Call : Owed(q)'[d] = Owed(q)[d]
    BY <1>7, <1>9
  <2>2. Adds(s, Owed(q))
    BY <1>8 DEF Covered
  <2> QED BY <2>1, <2>2 DEF Adds
<1>11. /\ Balance \in Nat /\ balance[q] \in Nat /\ returned[q] \in Nat
       /\ s[Call] \in Nat /\ s[Call \ {c}] \in Nat
       /\ Balance - balance[q] + s[Call] <= returned[q]
  BY <1>8, AmountsTyped DEF Sums, Covered
<1>12. s[Call] = s[Call \ {c}] + a
  BY <1>7, <1>8 DEF Covered, Adds
<1>13. ASSUME NEW d \in Call, Saves(d, q)'
       PROVE  Balance - calls'[d].left + s[Call \ {d}] <= returned[q]
  <2>1. CASE d = c
    <3>1. calls'[c].left = balance[q] - a
      BY <1>2, <1>4, <1>5, <1>6
    <3>2. balance[q] >= a
      BY <1>1, <1>4, <1>5
    <3> QED BY <1>11, <1>12, <2>1, <3>1, <3>2
  <2>2. CASE d # c
    BY <1>6, <1>8, <1>9, <1>13, <2>2 DEF Covered
  <2> QED BY <2>1, <2>2
<1>14. Covered(q, s)'
  BY <1>1, <1>10, <1>11, <1>13 DEF Covered
<1> QED BY <1>1, <1>2, <1>3, <1>4, <1>14, MoneyElsewhere

\* The debt is forgotten: the wallet keeps what Stripe has given back.
LEMMA RefusalCovered ==
  ASSUME TypeInv, TypeInv', MoneyInv, NEW c \in Call, WalletRefuses(c)
  PROVE  MoneyInv'
<1> DEFINE r == calls[c].refund
<1>1. /\ calls[c].op = "deduct" /\ Do(c, Idle) /\ UNCHANGED <<refunds, returned, balance>>
  BY DEF WalletRefuses, Return
<1>2. Idle.op \notin OnRefund /\ Idle.op \notin Deducting /\ Idle.op # "save wallet"
  BY DEF Idle, OnRefund, Deducting
<1>3. calls[c].op \in OnRefund /\ calls[c].op \in Deducting
  BY <1>1 DEF OnRefund, Deducting
<1>4. PICK q \in Transaction : q = refunds[r].of
  BY <1>3, OwesItsRow
<1>5. PICK a \in Nat : a = refunds[r].amount
  BY <1>3, OwesItsRow
<1>6. calls'[c] = Idle /\ \A d \in Call \ {c} : calls'[d] = calls[d]
  BY <1>1 DEF Do, TypeInv, TypeOK
<1>7. Owed(q)[c] = a /\ Owed(q)'[c] = 0
  <2>1. Owes(c, q) = a
    BY <1>3, <1>4, <1>5 DEF Owes
  <2>2. Owes(c, q)' = 0
    BY <1>2, <1>6 DEF Owes
  <2> QED BY <2>1, <2>2 DEF Owed
<1>8. PICK s \in Sums : Covered(q, s)
  BY DEF MoneyInv
<1>9. \A d \in Call \ {c} : Owed(q)'[d] = Owed(q)[d] /\ Saves(d, q)' = Saves(d, q)
  BY <1>1, <1>2, <1>3, OwedElsewhere
<1>10. ~Saves(c, q)'
  BY <1>2, <1>6 DEF Saves
<1>11. Adds(s, Owed(q))
  BY <1>8 DEF Covered
<1>12. PICK t \in Sums :
         /\ Adds(t, Owed(q))'
         /\ t[Call] = s[Call] - a + 0
         /\ \A d \in Call \ {c} : t[Call \ {d}] = s[Call \ {d}] - a + 0
  BY <1>7, <1>9, <1>11, SumMoved
<1>13. Balance \in Nat /\ balance[q] \in Nat /\ returned[q] \in Nat /\ s[Call] \in Nat
  BY AmountsTyped, SumsTyped
<1>14. Balance - balance[q] + t[Call] <= returned[q]
  <2>1. Balance - balance[q] + s[Call] <= returned[q]
    BY <1>8 DEF Covered
  <2>2. t[Call] = s[Call] - a
    BY <1>12, <1>13
  <2> QED BY <1>13, <2>1, <2>2
<1>15. ASSUME NEW d \in Call, Saves(d, q)'
       PROVE  Balance - calls'[d].left + t[Call \ {d}] <= returned[q]
  <2>1. d # c /\ Saves(d, q) /\ calls'[d] = calls[d]
    BY <1>6, <1>9, <1>10, <1>15
  <2>2. /\ Balance - calls[d].left + s[Call \ {d}] <= returned[q]
        /\ s[Call \ {d}] \in Nat /\ calls[d].left \in Nat
    BY <1>8, <2>1, AmountsTyped, SumsTyped DEF Covered, Saves
  <2>3. t[Call \ {d}] = s[Call \ {d}] - a /\ calls'[d].left = calls[d].left
    BY <1>12, <2>1, <2>2
  <2> QED BY <1>13, <2>2, <2>3
<1>16. Covered(q, t)'
  BY <1>1, <1>12, <1>14, <1>15 DEF Covered
<1> QED BY <1>1, <1>2, <1>3, <1>4, <1>16, MoneyElsewhere

\* The debt is paid with the balance read before: what the others owe was
\* covered by that balance too.
LEMMA SaveCovered ==
  ASSUME TypeInv, TypeInv', MoneyInv, NEW c \in Call, SaveWallet(c)
  PROVE  MoneyInv'
<1> DEFINE r == calls[c].refund
           w == [op |-> "notify", refund |-> r]
<1>1. /\ calls[c].op = "save wallet" /\ Do(c, w) /\ UNCHANGED <<refunds, returned>>
      /\ balance' = [balance EXCEPT ![refunds[r].of] = calls[c].left]
  BY DEF SaveWallet
<1>2. w.op = "notify" /\ w.refund = r
  OBVIOUS
<1>3. calls[c].op \in OnRefund /\ calls[c].op \in Deducting
  BY <1>1 DEF OnRefund, Deducting
<1>4. PICK q \in Transaction : q = refunds[r].of
  BY <1>3, OwesItsRow
<1>5. PICK a \in Nat : a = refunds[r].amount
  BY <1>3, OwesItsRow
<1>6. calls'[c] = w /\ \A d \in Call \ {c} : calls'[d] = calls[d]
  BY <1>1 DEF Do, TypeInv, TypeOK
<1> HIDE DEF w
<1>7. Owed(q)[c] = a /\ Owed(q)'[c] = 0
  <2>1. Owes(c, q) = a
    BY <1>3, <1>4, <1>5 DEF Owes
  <2>2. Owes(c, q)' = 0
    BY <1>2, <1>6 DEF Owes, Deducting
  <2> QED BY <2>1, <2>2 DEF Owed
<1>8. PICK s \in Sums : Covered(q, s)
  BY DEF MoneyInv
<1>9. \A d \in Call \ {c} : Owed(q)'[d] = Owed(q)[d] /\ Saves(d, q)' = Saves(d, q)
  BY <1>1, <1>2, <1>3, OwedElsewhere
<1>10. ~Saves(c, q)'
  BY <1>2, <1>6 DEF Saves
<1>11. Adds(s, Owed(q))
  BY <1>8 DEF Covered
<1>12. PICK t \in Sums :
         /\ Adds(t, Owed(q))'
         /\ t[Call] = s[Call] - a + 0
         /\ \A d \in Call \ {c} : t[Call \ {d}] = s[Call \ {d}] - a + 0
  BY <1>7, <1>9, <1>11, SumMoved
<1>13. /\ Balance \in Nat /\ returned[q] \in Nat /\ calls[c].left \in Nat
       /\ s[Call] \in Nat /\ s[Call \ {c}] \in Nat
  BY <1>1, AmountsTyped, SumsTyped
<1>14. /\ balance'[q] = calls[c].left
       /\ \A p \in Transaction \ {q} : returned'[p] = returned[p] /\ balance'[p] = balance[p]
  BY <1>1, <1>4 DEF TypeInv, TypeOK
<1>15. Balance - balance'[q] + t[Call] <= returned[q]
  <2>1. Balance - calls[c].left + s[Call \ {c}] <= returned[q]
    BY <1>1, <1>4, <1>8 DEF Covered, Saves
  <2>2. s[Call] = s[Call \ {c}] + a
    BY <1>7, <1>11 DEF Adds
  <2>3. t[Call] = s[Call \ {c}]
    BY <1>12, <1>13, <2>2
  <2> QED BY <1>13, <1>14, <2>1, <2>3
<1>16. ASSUME NEW d \in Call, Saves(d, q)'
       PROVE  Balance - calls'[d].left + t[Call \ {d}] <= returned[q]
  <2>1. d # c /\ Saves(d, q) /\ calls'[d] = calls[d]
    BY <1>6, <1>9, <1>10, <1>16
  <2>2. /\ Balance - calls[d].left + s[Call \ {d}] <= returned[q]
        /\ s[Call \ {d}] \in Nat /\ calls[d].left \in Nat
    BY <1>8, <2>1, AmountsTyped, SumsTyped DEF Covered, Saves
  <2>3. t[Call \ {d}] = s[Call \ {d}] - a /\ calls'[d].left = calls[d].left
    BY <1>12, <2>1, <2>2
  <2> QED BY <1>13, <2>2, <2>3
<1>17. Covered(q, t)'
  BY <1>1, <1>12, <1>15, <1>16 DEF Covered
<1> QED BY <1>1, <1>2, <1>3, <1>4, <1>14, <1>17, MoneyElsewhere

LEMMA NextMoney == TypeInv /\ TypeInv' /\ MoneyInv /\ [Next]_vars => MoneyInv'
<1> SUFFICES ASSUME TypeInv, TypeInv', MoneyInv, [Next]_vars PROVE MoneyInv'
  OBVIOUS
<1>1. TypeOK' /\ calls \in [Call -> Work] /\ returned \in [Transaction -> 0..Paid]
      /\ refunds \in [Refund -> RefundRow]
  BY DEF TypeInv, TypeOK
<1>2. ASSUME UNCHANGED balance, \A p \in Transaction : returned'[p] >= returned[p],
             \/ UNCHANGED calls
             \/ \E c \in Call : \E w : /\ Do(c, w)
                                       /\ calls[c].op \notin Deducting /\ w.op \notin Deducting,
             \A r \in Rows : refunds'[r].of = refunds[r].of /\ refunds'[r].amount = refunds[r].amount
      PROVE  MoneyInv'
  <2>1. \A d \in Call : \/ calls'[d] = calls[d]
                        \/ calls[d].op \notin Deducting /\ calls'[d].op \notin Deducting
    BY <1>1, <1>2 DEF Do
  <2> QED BY <1>1, <1>2, <2>1, MoneyKept
<1>3. ASSUME UNCHANGED returned PROVE \A p \in Transaction : returned'[p] >= returned[p]
  BY <1>1, <1>3
<1>4. ASSUME NEW p \in Transaction, NEW a \in 1..Paid, GiveBack(p, a)
      PROVE  \A q \in Transaction : returned'[q] >= returned[q]
  BY <1>1, <1>4 DEF GiveBack
<1>5. ASSUME UNCHANGED refundVars, PaymentStep \/ \E c \in Call : PaymentProgress(c) PROVE MoneyInv'
  <2>1. \/ UNCHANGED calls
        \/ \E c \in Call : \E w : /\ Do(c, w)
                                  /\ calls[c].op \notin Deducting /\ w.op \notin Deducting
    BY <1>5, PaymentCalls DEF Deducting
  <2> QED BY <1>2, <1>3, <1>5, <2>1 DEF refundVars
<1>6. ASSUME NEW c \in Call, NEW p \in Transaction, NEW a \in 1..Paid, SomeFree, Request(c, p, a)
      PROVE  MoneyInv'
  <2> DEFINE w == [op |-> "insert", of |-> p, amount |-> a]
  <2>1. Do(c, w) /\ FreeCall(c) /\ UNCHANGED refundVars
    BY <1>6 DEF Request
  <2>2. w.op \notin Deducting
    BY DEF Deducting
  <2>3. calls[c].op \notin Deducting
    <3>1. calls[c] = Idle
      BY <1>6, <2>1, FreeIsIdle
    <3> QED BY <3>1 DEF Idle, Deducting
  <2> HIDE DEF w
  <2> QED BY <1>2, <1>3, <2>1, <2>2, <2>3 DEF refundVars
<1>7. ASSUME NEW c \in Call, NEW r \in Refund, SomeFree, Process(c, r) \/ ViaWise(c, r)
      PROVE  MoneyInv'
  <2>1. PICK op \in {"lock", "wise"} : Do(c, [op |-> op, refund |-> r])
    BY <1>7 DEF Process, ViaWise
  <2>2. FreeCall(c) /\ UNCHANGED refundVars
    BY <1>7 DEF Process, ViaWise
  <2> DEFINE w == [op |-> op, refund |-> r]
  <2>3. w.op \notin Deducting /\ Do(c, w)
    BY <2>1 DEF Deducting
  <2>4. calls[c].op \notin Deducting
    <3>1. calls[c] = Idle
      BY <1>7, <2>2, FreeIsIdle
    <3> QED BY <3>1 DEF Idle, Deducting
  <2> HIDE DEF w
  <2> QED BY <1>2, <1>3, <2>2, <2>3, <2>4 DEF refundVars
<1>8. ASSUME NEW r \in Refund, NEW s \in RefundStatus, UpdateRefundStatus(r, s) PROVE MoneyInv'
  <2>1. r \in Rows /\ SetRefund(r, s) /\ UNCHANGED <<calls, returned, balance>>
    BY <1>8 DEF UpdateRefundStatus
  <2>2. \A q \in Rows : refunds'[q].of = refunds[q].of /\ refunds'[q].amount = refunds[q].amount
    BY <2>1, StatusSet DEF Rows
  <2> QED BY <1>2, <1>3, <2>1, <2>2
<1>9. ASSUME NEW p \in Payment, NEW a \in 1..Paid, RefundDirectly(p, a) PROVE MoneyInv'
  BY <1>2, <1>4, <1>9 DEF RefundDirectly, Transaction
<1>10. CASE UNCHANGED vars
  BY <1>2, <1>3, <1>10 DEF vars, refundVars
<1>11. ASSUME NEW c \in Call, InsertRefund(c) PROVE MoneyInv'
  <2>1. /\ Do(c, Idle) /\ calls[c].op \notin Deducting /\ Idle.op \notin Deducting
        /\ UNCHANGED <<returned, balance>>
    BY <1>11 DEF InsertRefund, Return, Deducting, Idle
  <2>2. \A q \in Rows : refunds'[q] = refunds[q]
    BY <1>1, <1>11 DEF InsertRefund, Rows
  <2> QED BY <1>2, <1>3, <2>1, <2>2
<1>12. ASSUME NEW c \in Call, RefundFails(c) \/ MarkProcessing(c) PROVE MoneyInv'
  <2>1. /\ Do(c, Idle) /\ calls[c].op \notin Deducting /\ Idle.op \notin Deducting
        /\ calls[c].op \in OnRefund /\ UNCHANGED balance
    BY <1>12 DEF RefundFails, MarkProcessing, Return, Deducting, Idle, OnRefund
  <2>2. PICK s \in RefundStatus : SetRefund(calls[c].refund, s)
    BY <1>12 DEF RefundFails, MarkProcessing, RefundStatus
  <2>3. calls[c].refund \in Rows
    BY <2>1, CallNamesRow
  <2>4. \A q \in Rows : refunds'[q].of = refunds[q].of /\ refunds'[q].amount = refunds[q].amount
    BY <2>2, <2>3, StatusSet DEF Rows
  <2>5. /\ refunds[calls[c].refund].of \in Transaction
        /\ refunds[calls[c].refund].amount \in 1..Paid
    BY <2>1, CallNamesRow
  <2>6. \/ UNCHANGED returned
        \/ GiveBack(refunds[calls[c].refund].of, refunds[calls[c].refund].amount)
    BY <1>12 DEF RefundFails, MarkProcessing
  <2>7. \A p \in Transaction : returned'[p] >= returned[p]
    BY <1>3, <1>4, <2>5, <2>6
  <2> QED BY <1>2, <2>1, <2>4, <2>7
<1>13. ASSUME NEW c \in Call, TakeRefund(c) \/ FormatFails(c) \/ WireRefund(c) PROVE MoneyInv'
  <2> DEFINE go(op) == [op |-> op, refund |-> calls[c].refund]
  <2>1. go("pay").op \notin Deducting /\ go("mark").op \notin Deducting /\ Idle.op \notin Deducting
    BY DEF Deducting, Idle
  <2>2. Do(c, go("pay")) \/ Do(c, go("mark")) \/ Do(c, Idle)
    BY <1>13 DEF TakeRefund, FormatFails, WireRefund, Return
  <2>3. calls[c].op \notin Deducting /\ UNCHANGED <<refunds, returned, balance>>
    BY <1>13 DEF TakeRefund, FormatFails, WireRefund, Deducting
  <2> HIDE DEF go
  <2> QED BY <1>2, <1>3, <2>1, <2>2, <2>3
<1>14. ASSUME NEW c \in Call, Progress(c) PROVE MoneyInv'
  BY <1>5, <1>11, <1>12, <1>13, <1>14, PayCovered, ReadCovered, RefusalCovered, SaveCovered
     DEF Progress
<1> QED BY <1>5, <1>6, <1>7, <1>8, <1>9, <1>10, <1>14 DEF Next, RefundStep

LEMMA InitMoney == Init => MoneyInv
<1> SUFFICES ASSUME Init, NEW p \in Transaction PROVE \E s \in Sums : Covered(p, s)
  BY DEF MoneyInv
<1> DEFINE s == [A \in SUBSET Call |-> 0]
<1>1. s \in Sums /\ \A A \in SUBSET Call : s[A] = 0
  BY DEF Sums
<1> HIDE DEF s
<1>2. \A c \in Call : calls[c].op = "idle"
  BY DEF Init, PaymentsInit, Idle
<1>3. balance[p] = Balance /\ returned[p] = 0
  BY DEF Init
<1>4. \A c \in Call : Owed(p)[c] = 0 /\ ~Saves(c, p)
  BY <1>2 DEF Owed, Owes, Saves, Deducting
<1>5. Adds(s, Owed(p))
  BY <1>1, <1>4 DEF Adds
<1>6. Balance - balance[p] + s[Call] <= returned[p]
  BY <1>1, <1>3
<1> QED BY <1>1, <1>4, <1>5, <1>6 DEF Covered

(* The wallet a refund is taken from never loses more than Stripe has given *)
(* back for that payment, however refunds, retries and failures of          *)
(* processRefund (refunds.service.ts) interleave and whichever of two       *)
(* wallet saves wins.  Alone this does not survive a step: a call that      *)
(* saves a balance it read before relies on what all the others have had    *)
(* given back, which is what MoneyInv adds up.                              *)
THEOREM WalletCovered == Spec => []NeverDeductedAhead
<1>1. TypeInv /\ MoneyInv => NeverDeductedAhead
  <2> SUFFICES ASSUME TypeInv, MoneyInv, NEW p \in Transaction
               PROVE  Balance - balance[p] <= returned[p]
    BY DEF NeverDeductedAhead
  <2>1. PICK s \in Sums : Covered(p, s)
    BY DEF MoneyInv
  <2>2. Balance - balance[p] + s[Call] <= returned[p]
    BY <2>1 DEF Covered
  <2>3. s[Call] \in Nat /\ balance[p] \in Nat /\ returned[p] \in Nat
    BY AmountsTyped DEF Sums
  <2> QED BY <2>2, <2>3
<1> QED BY <1>1, InitTyped, NextTyped, InitMoney, NextMoney, PTL DEF Spec
=============================================================================
